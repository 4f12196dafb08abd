---------------------------- MODULE SessionTasks ----------------------------
(***************************************************************************)
(* The turns of an agent session (codex-rs/core: tasks/mod.rs, state/      *)
(* turn.rs, the handlers and run_turn of codex.rs).  The submission loop   *)
(* serves one operation at a time; it starts a turn by spawning a task,    *)
(* drains the mailbox into the new turn's state and only then puts the     *)
(* turn in active_turn, and it aborts a turn by taking it out of           *)
(* active_turn, cancelling its token, waiting 100 ms and killing the task. *)
(* The task records input, samples the model, asks the client for          *)
(* approvals, and takes the turn out of active_turn itself when it is      *)
(* done, which drops its own handle and so kills it, too.  Meanwhile the   *)
(* app-server steers input and other threads inject notes into whatever    *)
(* turn is in active_turn.                                                 *)
(*                                                                         *)
(* What the model says, and what a tool does, is left out: a request ends, *)
(* wants another, fails, or asks.  A killed task may run on until it has   *)
(* to wait: for an answer of the model or the rollout's writer it always   *)
(* does, for a lock or a hook it may.  Queued items of a next turn exist   *)
(* in tests only.                                                          *)
(***************************************************************************)
EXTENDS Naturals, Sequences

CONSTANTS
  Inputs,     \* messages of the user
  Notes,      \* developer messages that other threads inject
  Mails,      \* messages of other agents
  Triggers,   \* those that are to start a turn (trigger_turn)
  MaxTurns,   \* bound: turns
  MaxRounds,  \* bound: follow-ups and approvals the model wants, failed compactions
  Recovers    \* whether the compaction before a request works again after some failures

ASSUME TriggersAssumption == Triggers \subseteq Mails
ASSUME BoundsAssumption == MaxTurns \in Nat /\ MaxRounds \in Nat /\ Recovers \in BOOLEAN
ASSUME ItemsAssumption ==
  Inputs \cap Notes = {} /\ Inputs \cap Mails = {} /\ Notes \cap Mails = {}

Turns == 1..MaxTurns
NoTurn == 0
Items == Inputs \cup Notes \cup Mails
Elems(s) == {s[i] : i \in DOMAIN s}

VARIABLES
  active,     \* active_turn: the turn in it, or NoTurn
  pending,    \* pending_input of its turn state
  asks,       \* pending_approvals of its turn state, by the task that waits
  mailbox,    \* what mailbox_rx holds
  loop,       \* the submission loop, see Idle
  task,       \* per turn: where its task is, its kind, the items in its hands
  cancelled,  \* the turns whose token is cancelled
  killed,     \* the turns whose task's handle was aborted, or dropped, which aborts it
  rounds,     \* counter
  fresh,      \* items not sent yet
  refused,    \* items a hook or an error refused, with the client told
  history,    \* the conversation's history, of the items
  ended       \* history: per turn, the terminal events sent

turnVars == <<active, pending, asks>>
outVars == <<refused, history, ended>>
vars == <<turnVars, mailbox, loop, task, cancelled, killed, rounds, fresh, outVars>>

\* What the loop keeps while it serves an operation: the turn it aborts with that turn's
\* state (victim, asks, held), and the turn it starts with its input and, in held again,
\* the items that are to wait for it.
Idle == [pc |-> "idle", interrupt |-> FALSE, victim |-> NoTurn, asks |-> {},
         turn |-> NoTurn, kind |-> "regular", input |-> <<>>, held |-> <<>>]

Init ==
  /\ active = NoTurn /\ pending = <<>> /\ asks = {}
  /\ mailbox = <<>>
  /\ loop = Idle
  /\ task = [t \in Turns |-> [pc |-> "none", kind |-> "regular", held |-> <<>>]]
  /\ cancelled = {} /\ killed = {}
  /\ rounds = 0
  /\ fresh = Items /\ refused = {}
  /\ history = <<>>
  /\ ended = [t \in Turns |-> <<>>]

Unused == {t \in Turns : task[t].pc = "none"}
NextTurn == CHOOSE t \in Unused : TRUE
At(t, pc) == task[t].pc = pc
Goto(t, pc) == task' = [task EXCEPT ![t].pc = pc]
GotoHolding(t, pc, held) == task' = [task EXCEPT ![t].pc = pc, ![t].held = held]

HasTriggerMail == Elems(mailbox) \cap Triggers # {}
\* has_pending_input
HasPending == mailbox # <<>> \/ pending # <<>>

\* push_pending_input on the active turn
Push(i) == pending' = Append(pending, i)

-----------------------------------------------------------------------------
\* The submission loop

\* user_input_or_turn: steers the active turn, or starts one.  A turn that is not a regular
\* one refuses.
UserInput(i) ==
  /\ loop.pc = "idle" /\ i \in fresh
  /\ fresh' = fresh \ {i}
  /\ \/ /\ active # NoTurn /\ task[active].kind = "regular"
        /\ Push(i)
        /\ UNCHANGED <<loop, refused>>
     \/ /\ active # NoTurn /\ task[active].kind # "regular"
        /\ refused' = refused \cup {i}
        /\ UNCHANGED <<loop, pending>>
     \/ /\ active = NoTurn /\ Unused # {}
        /\ loop' = [Idle EXCEPT !.pc = "take", !.turn = NextTurn, !.input = <<i>>]
        /\ UNCHANGED <<pending, refused>>
  /\ UNCHANGED <<active, asks, mailbox, task, cancelled, killed, rounds, history, ended>>

\* compact: replaces whatever turn there is
Compact ==
  /\ loop.pc = "idle" /\ Unused # {}
  /\ loop' = [Idle EXCEPT !.pc = "take", !.turn = NextTurn, !.kind = "compact"]
  /\ UNCHANGED <<turnVars, mailbox, task, cancelled, killed, rounds, fresh, outVars>>

\* inter_agent_communication: mail that is to start a turn looks whether it can
AgentMail(m) ==
  /\ loop.pc = "idle" /\ m \in fresh
  /\ fresh' = fresh \ {m}
  /\ mailbox' = Append(mailbox, m)
  /\ loop' = IF m \in Triggers THEN [Idle EXCEPT !.pc = "wake"] ELSE loop
  /\ UNCHANGED <<turnVars, task, cancelled, killed, rounds, outVars>>

\* interrupt_task, also for an approval answered with Abort; without a turn it is about the
\* start of the MCP servers, which is not modelled
Interrupt ==
  /\ loop.pc = "idle" /\ active # NoTurn
  /\ loop' = [Idle EXCEPT !.pc = "take", !.interrupt = TRUE]
  /\ UNCHANGED <<turnVars, mailbox, task, cancelled, killed, rounds, fresh, outVars>>

\* notify_approval: the answer finds the call in the active turn's table; the call may have
\* stopped waiting
Answer(t) ==
  /\ loop.pc = "idle" /\ t \in asks
  /\ asks' = asks \ {t}
  /\ IF At(t, "asking") THEN Goto(t, "sample") ELSE UNCHANGED task
  /\ UNCHANGED <<active, pending, mailbox, loop, cancelled, killed, rounds, fresh, outVars>>

\* abort_all_tasks: take_active_turn
TakeActive ==
  /\ loop.pc = "take"
  /\ \/ /\ active = NoTurn
        /\ loop' = [loop EXCEPT !.pc = IF loop.interrupt THEN "wake" ELSE "spawn"]
     \/ /\ active # NoTurn
        /\ loop' = [loop EXCEPT !.pc = "cancel", !.victim = active, !.asks = asks, !.held = pending]
  /\ active' = NoTurn /\ pending' = <<>> /\ asks' = {}
  /\ UNCHANGED <<mailbox, task, cancelled, killed, rounds, fresh, outVars>>

\* handle_task_abort: the token
Cancel ==
  /\ loop.pc = "cancel"
  /\ cancelled' = cancelled \cup {loop.victim}
  /\ loop' = [loop EXCEPT !.pc = "wait"]
  /\ UNCHANGED <<turnVars, mailbox, task, killed, rounds, fresh, outVars>>

\* ... the task says it is done, or 100 ms have passed; either way its handle is aborted, and
\* TurnAborted is sent
Abort ==
  /\ loop.pc = "wait"
  /\ killed' = killed \cup {loop.victim}
  /\ ended' = [ended EXCEPT ![loop.victim] = Append(@, "aborted")]
  /\ loop' = [loop EXCEPT !.pc = "clear"]
  /\ UNCHANGED <<turnVars, mailbox, task, cancelled, rounds, fresh, refused, history>>

\* clear_pending, last; an interrupt then looks for mail
ClearPending ==
  /\ loop.pc = "clear"
  /\ loop' = IF loop.interrupt THEN [Idle EXCEPT !.pc = "wake"]
             ELSE [loop EXCEPT !.pc = "spawn", !.victim = NoTurn, !.asks = {}, !.held = <<>>]
  /\ UNCHANGED <<turnVars, mailbox, task, cancelled, killed, rounds, fresh, outVars>>

\* ensure_task_for_pending_inputs_with_sub_id: first the mail, then the turn
LookForMail ==
  /\ loop.pc = "wake"
  /\ loop' = IF HasTriggerMail THEN [Idle EXCEPT !.pc = "ensure"] ELSE Idle
  /\ UNCHANGED <<turnVars, mailbox, task, cancelled, killed, rounds, fresh, outVars>>

\* Wrong on purpose: starts a turn over the one that is there.
EnsureTaskAlways ==
  /\ loop.pc = "ensure" /\ Unused # {}
  /\ loop' = [Idle EXCEPT !.pc = "spawn", !.turn = NextTurn]
  /\ UNCHANGED <<turnVars, mailbox, task, cancelled, killed, rounds, fresh, outVars>>

EnsureTask ==
  /\ loop.pc = "ensure"
  /\ \/ active # NoTurn /\ loop' = Idle
     \/ active = NoTurn /\ Unused # {} /\ loop' = [Idle EXCEPT !.pc = "spawn", !.turn = NextTurn]
  /\ UNCHANGED <<turnVars, mailbox, task, cancelled, killed, rounds, fresh, outVars>>

\* start_task: the task runs from here on ...
Spawn ==
  /\ loop.pc = "spawn"
  /\ task' = [task EXCEPT ![loop.turn] = [pc |-> "enter", kind |-> loop.kind, held |-> loop.input]]
  /\ loop' = [loop EXCEPT !.pc = "collect", !.input = <<>>]
  /\ UNCHANGED <<turnVars, mailbox, cancelled, killed, rounds, fresh, outVars>>

\* ... get_pending_input ...
Collect ==
  /\ loop.pc = "collect"
  /\ loop' = [loop EXCEPT !.pc = "install", !.held = pending \o mailbox]
  /\ pending' = <<>> /\ mailbox' = <<>>
  /\ UNCHANGED <<active, asks, task, cancelled, killed, rounds, fresh, outVars>>

\* ... and only now the turn is put in active_turn, over whatever is there
Install ==
  /\ loop.pc = "install"
  /\ active' = loop.turn /\ pending' = loop.held /\ asks' = {}
  /\ loop' = Idle
  /\ UNCHANGED <<mailbox, task, cancelled, killed, rounds, fresh, outVars>>

LoopStep ==
  \/ TakeActive \/ Cancel \/ Abort \/ ClearPending
  \/ LookForMail \/ EnsureTask \/ Spawn \/ Collect \/ Install

-----------------------------------------------------------------------------
\* Other threads

\* CodexThread::steer_input of the app-server, for the turn the client sees
Steer(i) ==
  /\ i \in fresh /\ active # NoTurn /\ task[active].kind = "regular"
  /\ fresh' = fresh \ {i}
  /\ Push(i)
  /\ UNCHANGED <<active, asks, mailbox, loop, task, cancelled, killed, rounds, outVars>>

\* inject_user_message_without_turn: into the active turn of any kind, or into the history
Inject(n) ==
  /\ n \in fresh
  /\ fresh' = fresh \ {n}
  /\ \/ active # NoTurn /\ Push(n) /\ UNCHANGED history
     \/ active = NoTurn /\ history' = Append(history, n) /\ UNCHANGED <<pending>>
  /\ UNCHANGED <<active, asks, mailbox, loop, task, cancelled, killed, rounds, refused, ended>>

-----------------------------------------------------------------------------
\* The task of a turn.  What waits for something outside needs a task that is not killed.

\* RegularTask::run enters run_turn: without input and with nothing pending it returns,
\* otherwise it records the input
Enter(t) ==
  /\ At(t, "enter") /\ task[t].kind = "regular"
  /\ \/ /\ task[t].held = <<>>
        /\ Goto(t, IF HasPending THEN "drain" ELSE "check")
        /\ UNCHANGED history
     \/ /\ task[t].held # <<>>
        /\ history' = history \o task[t].held
        /\ GotoHolding(t, "drain", <<>>)
  /\ UNCHANGED <<turnVars, mailbox, loop, cancelled, killed, rounds, fresh, refused, ended>>

\* ... unless the compaction before it fails or a hook stops it: it returns, the input is gone
GiveUp(t) ==
  /\ At(t, "enter") /\ task[t].kind = "regular" /\ t \notin killed
  /\ task[t].held # <<>> \/ HasPending
  /\ Recovers => rounds < MaxRounds
  /\ rounds' = IF Recovers THEN rounds + 1 ELSE rounds
  /\ refused' = refused \cup Elems(task[t].held)
  /\ GotoHolding(t, "check", <<>>)
  /\ UNCHANGED <<turnVars, mailbox, loop, cancelled, killed, fresh, history, ended>>

\* get_pending_input, of whatever turn is the active one
Drain(t) ==
  /\ At(t, "drain")
  /\ GotoHolding(t, "inspect", pending \o mailbox)
  /\ pending' = <<>> /\ mailbox' = <<>>
  /\ UNCHANGED <<active, asks, loop, cancelled, killed, rounds, fresh, outVars>>

\* Wrong on purpose: what goes back replaces what came meanwhile.
InspectOverwrites(t) ==
  LET held == task[t].held IN
  /\ At(t, "inspect")
  /\ \/ /\ history' = history \o held
        /\ GotoHolding(t, "sample", <<>>)
        /\ UNCHANGED <<pending, refused>>
     \/ \E k \in DOMAIN held :
          LET rest == SubSeq(held, k + 1, Len(held))
          IN /\ held[k] \in Inputs
             /\ refused' = refused \cup {held[k]}
             /\ pending' = IF active = NoTurn THEN pending ELSE rest
             /\ history' = history \o SubSeq(held, 1, k - 1)
             /\ GotoHolding(t, IF k > 1 THEN "sample" ELSE IF rest # <<>> THEN "drain" ELSE "check", <<>>)
  /\ UNCHANGED <<active, asks, mailbox, loop, cancelled, killed, rounds, fresh, ended>>

\* inspect_pending_input, one after the other: the hook accepts all, or blocks the k-th, a
\* message of the user, and what is behind it goes back in front of what came meanwhile
\* (prepend_pending_input, which fails without an active turn).  What was accepted is recorded
\* and sent to the model; when nothing was, what went back is taken, or the turn is over.
Inspect(t) ==
  LET held == task[t].held IN
  /\ At(t, "inspect")
  /\ \/ /\ history' = history \o held
        /\ GotoHolding(t, "sample", <<>>)
        /\ UNCHANGED <<pending, refused>>
     \/ \E k \in DOMAIN held :
          LET rest == SubSeq(held, k + 1, Len(held))
          IN /\ held[k] \in Inputs
             /\ refused' = refused \cup {held[k]}
             /\ pending' = IF active = NoTurn THEN pending ELSE rest \o pending
             /\ history' = history \o SubSeq(held, 1, k - 1)
             /\ GotoHolding(t, IF k > 1 THEN "sample" ELSE IF rest # <<>> THEN "drain" ELSE "check", <<>>)
  /\ UNCHANGED <<active, asks, mailbox, loop, cancelled, killed, rounds, fresh, ended>>

\* run_sampling_request returns: with an answer, after which pending input is followed up,
\* or with an error, which an abort is one of
Sampled(t) ==
  /\ At(t, "sample") /\ task[t].kind = "regular" /\ t \notin killed
  /\ \/ t \notin cancelled /\ Goto(t, IF HasPending THEN "drain" ELSE "check")
     \/ Goto(t, "check")
  /\ UNCHANGED <<turnVars, mailbox, loop, cancelled, killed, rounds, fresh, outVars>>

\* ... or with a call of a tool, whose output is to be sent
FollowUp(t) ==
  /\ At(t, "sample") /\ task[t].kind = "regular" /\ t \notin killed \cup cancelled
  /\ rounds < MaxRounds
  /\ rounds' = rounds + 1
  /\ Goto(t, "drain")
  /\ UNCHANGED <<turnVars, mailbox, loop, cancelled, killed, fresh, outVars>>

\* request_command_approval: in the table of the active turn; without one the sender is
\* dropped at once and the call ends as if denied
Ask(t) ==
  /\ At(t, "sample") /\ task[t].kind = "regular" /\ t \notin killed
  /\ rounds < MaxRounds
  /\ rounds' = rounds + 1
  /\ \/ active # NoTurn /\ asks' = asks \cup {t} /\ Goto(t, "asking")
     \/ active = NoTurn /\ UNCHANGED <<asks, task>>
  /\ UNCHANGED <<active, pending, mailbox, loop, cancelled, killed, fresh, outVars>>

\* An abort ends the wait of a call
StopAsking(t) ==
  /\ At(t, "asking") /\ t \in cancelled /\ t \notin killed
  /\ Goto(t, "check")
  /\ UNCHANGED <<turnVars, mailbox, loop, cancelled, killed, rounds, fresh, outVars>>

\* RegularTask::run, after run_turn: more input starts it again
Check(t) ==
  /\ At(t, "check")
  /\ Goto(t, IF HasPending THEN "enter" ELSE "flush")
  /\ UNCHANGED <<turnVars, mailbox, loop, cancelled, killed, rounds, fresh, outVars>>

\* CompactTask::run does not look at pending input, and not at its token
RunCompact(t) ==
  /\ At(t, "enter") /\ task[t].kind = "compact" /\ t \notin killed
  /\ Goto(t, "flush")
  /\ UNCHANGED <<turnVars, mailbox, loop, cancelled, killed, rounds, fresh, outVars>>

\* start_task's spawned future: flush_rollout, and nothing more for a turn that is aborted
Flush(t) ==
  /\ At(t, "flush") /\ t \notin killed
  /\ Goto(t, IF t \in cancelled THEN "done" ELSE "finish")
  /\ UNCHANGED <<turnVars, mailbox, loop, cancelled, killed, rounds, fresh, outVars>>

\* Wrong on purpose: takes out whatever turn is there.
FinishAny(t) ==
  /\ At(t, "finish")
  /\ active' = NoTurn /\ pending' = <<>> /\ asks' = {}
  /\ GotoHolding(t, "complete", pending)
  /\ killed' = (killed \cup {active}) \ {NoTurn}
  /\ UNCHANGED <<mailbox, loop, cancelled, rounds, fresh, outVars>>

\* Wrong on purpose: only a turn that is still in active_turn is reported.
FinishActive(t) ==
  /\ At(t, "finish")
  /\ \/ /\ active = t
        /\ active' = NoTurn /\ pending' = <<>> /\ asks' = {}
        /\ GotoHolding(t, "complete", pending)
        /\ killed' = killed \cup {t}
     \/ /\ active # t
        /\ Goto(t, "done")
        /\ UNCHANGED <<turnVars, killed>>
  /\ UNCHANGED <<mailbox, loop, cancelled, rounds, fresh, outVars>>

\* on_task_finished: the turn is taken out of active_turn, if it is in it, and with it the
\* RunningTask, whose AbortOnDropHandle is that of the task that runs this
Finish(t) ==
  /\ At(t, "finish")
  /\ \/ /\ active = t
        /\ active' = NoTurn /\ pending' = <<>> /\ asks' = {}
        /\ GotoHolding(t, "complete", pending)
        /\ killed' = killed \cup {t}
     \/ /\ active # t
        /\ Goto(t, "complete")
        /\ UNCHANGED <<turnVars, killed>>
  /\ UNCHANGED <<mailbox, loop, cancelled, rounds, fresh, outVars>>

\* ... the input left over recorded, one item after the other, but for messages of the user
\* that a hook blocks ...
RecordLeftover(t) ==
  LET held == task[t].held IN
  /\ At(t, "complete") /\ held # <<>>
  /\ \/ history' = Append(history, Head(held)) /\ UNCHANGED refused
     \/ Head(held) \in Inputs /\ refused' = refused \cup {Head(held)} /\ UNCHANGED history
  /\ GotoHolding(t, "complete", Tail(held))
  /\ UNCHANGED <<turnVars, mailbox, loop, cancelled, killed, rounds, fresh, ended>>

\* ... and TurnComplete sent.  All of it is awaited: a task that has dropped its own handle
\* gets here if nothing makes it wait.
Complete(t) ==
  /\ At(t, "complete") /\ task[t].held = <<>>
  /\ ended' = [ended EXCEPT ![t] = Append(@, "complete")]
  /\ Goto(t, "done")
  /\ UNCHANGED <<turnVars, mailbox, loop, cancelled, killed, rounds, fresh, refused, history>>

\* A killed task stops where it waits
Die(t) ==
  /\ t \in killed /\ task[t].pc \notin {"none", "done", "dead"}
  /\ GotoHolding(t, "dead", <<>>)
  /\ UNCHANGED <<turnVars, mailbox, loop, cancelled, killed, rounds, fresh, outVars>>

TaskStep(t) ==
  \/ Enter(t) \/ GiveUp(t) \/ Drain(t) \/ Inspect(t) \/ Sampled(t) \/ FollowUp(t) \/ Ask(t)
  \/ StopAsking(t) \/ Check(t) \/ RunCompact(t) \/ Flush(t) \/ Finish(t) \/ RecordLeftover(t)
  \/ Complete(t) \/ Die(t)

Client ==
  \/ \E i \in Inputs : UserInput(i) \/ Steer(i)
  \/ \E n \in Notes : Inject(n)
  \/ \E m \in Mails : AgentMail(m)
  \/ Compact \/ Interrupt
  \/ \E t \in Turns : Answer(t)

Next == Client \/ LoopStep \/ \E t \in Turns : TaskStep(t)

Spec == Init /\ [][Next]_vars

\* The runtime polls what is ready, a request ends, and the loop's handlers return.  Nobody
\* has to send or answer anything.
FairSpec == Spec /\ WF_vars(LoopStep) /\ \A t \in Turns : WF_vars(TaskStep(t))

-----------------------------------------------------------------------------
\* Types, but for the history, whose items ItemsKept speaks of.
LoopSteps == {"idle", "take", "cancel", "wait", "clear", "wake", "ensure", "spawn", "collect", "install"}
TaskPlaces == {"none", "enter", "drain", "inspect", "sample", "asking", "check", "flush",
               "finish", "complete", "done", "dead"}
Kinds == {"regular", "compact"}
TypeOK ==
  /\ active \in Turns \cup {NoTurn} /\ pending \in Seq(Items) /\ asks \subseteq Turns
  /\ mailbox \in Seq(Mails)
  /\ loop \in [pc : LoopSteps, interrupt : BOOLEAN, victim : Turns \cup {NoTurn},
               asks : SUBSET Turns, turn : Turns \cup {NoTurn}, kind : Kinds,
               input : Seq(Inputs), held : Seq(Items)]
  /\ task \in [Turns -> [pc : TaskPlaces, kind : Kinds, held : Seq(Items)]]
  /\ cancelled \subseteq Turns /\ killed \subseteq Turns
  /\ rounds \in 0..MaxRounds
  /\ fresh \subseteq Items /\ refused \subseteq Inputs

\* codex.rs:807: "A session has at most 1 running task at a time".  While a task that is not
\* being aborted is somewhere between the first look at its input and the end of its work, no
\* other such task is.
Working(t) == task[t].pc \notin {"none", "complete", "done", "dead"} /\ t \notin cancelled
OneWorker == \A t, u \in Turns : Working(t) /\ Working(u) => t = u

\* tasks/mod.rs:305, on aborting before dropping the pending approvals.  A call that waits for
\* the client's answer can be answered: unless its turn is being aborted its sender is in a
\* table, so that the wait never ends in a denial nobody gave.
AskKept == \A t \in Turns : At(t, "asking") /\ t \notin cancelled => t \in asks \cup loop.asks

\* Where an item is that was sent and is not settled.
Hands == Elems(pending) \cup Elems(mailbox) \cup Elems(loop.held) \cup Elems(loop.input)
           \cup UNION {Elems(task[t].held) : t \in Turns}
\* In the hands of a turn that is aborted, or whose task may die.
Doomed == (cancelled \cup killed \cup {loop.victim}) \ {NoTurn}
OfDoomed == (UNION {Elems(task[t].held) : t \in Doomed})
              \cup (IF loop.victim # NoTurn THEN Elems(loop.held) ELSE {})
\* Nothing sent to the session vanishes: what somebody holds somebody holds after the next
\* step, or it is in the history, or its refusal was reported, unless the turn that held it is
\* aborted or cut off at its end; and nothing is recorded twice.
ItemsKept ==
  [][/\ Hands \ OfDoomed \subseteq Hands' \cup Elems(history') \cup refused'
     /\ \A i, j \in DOMAIN history' : history'[i] = history'[j] => i = j]_vars

\* tasks/mod.rs:223: "Emit completion uniformly from spawn site so all tasks share the same
\* lifecycle."  Every turn that was started is reported as complete or as aborted, unless it
\* waits for an answer of the client for ever.
EveryTurnEnds ==
  \A t \in Turns : (task[t].pc # "none") ~> (ended[t] # <<>> \/ At(t, "asking"))

\* The task died of its own on_task_finished, before it had sent TurnComplete.
CutOff(t) == At(t, "dead") /\ t \notin cancelled
\* The same but for the turns that are cut off.
EveryTurnEndsUnlessCutOff ==
  \A t \in Turns :
    (task[t].pc # "none") ~> (ended[t] # <<>> \/ At(t, "asking") \/ CutOff(t))
=============================================================================
