----------------------------- MODULE TurnEvents -----------------------------
(***************************************************************************)
(* The host's state of one turn (NativeTurnState and the messages of its   *)
(* thread, codex-rs/ohos-host/src/lib.rs) and the handlers that keep it:   *)
(* one action per server notification.  A handler changes the state and    *)
(* leaves events for the page, which module TurnPolling takes.             *)
(*                                                                         *)
(* The app-server (external) emits the notifications of one turn with one  *)
(* answer, of which a delta is a numbered chunk, and whatever else it      *)
(* reports on the way (items, plans, reasoning, output of tools).  A       *)
(* command that stays in the background reports its output with the turn's *)
(* id even when the turn is over (core/src/unified_exec/async_watcher.rs). *)
(* When the model's stream breaks off it sends an Error with willRetry and *)
(* tries again; only breaks before or after the answer are modelled, a     *)
(* broken answer begins again as another item.                             *)
(*                                                                         *)
(* Summaries, diffs and token usage are left out; titles are kept as far   *)
(* as they decide whether a status is news.                                *)
(***************************************************************************)
EXTENDS Naturals, Sequences

CONSTANTS MaxChunks,   \* bound: chunks of the answer
          MaxExtras,   \* bound: reports of other work and breaks of the model's stream
          MaxInFlight  \* bound: notifications waiting for the host

ASSUME BoundsAssumption == /\ MaxChunks \in Nat \ {0}
                           /\ MaxExtras \in Nat
                           /\ MaxInFlight \in Nat \ {0}

VARIABLES
  stream,    \* notifications on their way to the host
  said,      \* chunks of the answer emitted
  itemDone,  \* the answer's ItemCompleted has been emitted
  ended,     \* the turn's status at the server
  progress, errors,  \* counters
  connected, \* the connection lives
  lock,      \* the call that holds the runtime and handles notifications
  handled,   \* it has handled one
  turn,      \* state.turns[turn]
  text,      \* the answer in state.threads[thread].messages, <<>> for none
  past       \* those messages hold the answer as the thread's history has it

serverVars == <<said, itemDone, ended, progress, errors, connected>>
nativeVars == <<lock, handled, turn, text, past>>

Terminal == {"completed", "failed", "interrupted"}
Whole == [k \in 1..MaxChunks |-> k]

Note(kind, t, s) == [kind |-> kind, text |-> t, status |-> s]

-----------------------------------------------------------------------------
\* The app-server

Emit(note) == /\ connected /\ Len(stream) < MaxInFlight
              /\ stream' = Append(stream, note)

Say == /\ ended = "inProgress" /\ said < MaxChunks
       /\ said' = said + 1
       /\ Emit(Note("delta", <<said + 1>>, "inProgress"))
       /\ UNCHANGED <<itemDone, ended, progress, errors, connected>>

CompleteItem == /\ ended = "inProgress" /\ said = MaxChunks /\ ~itemDone
                /\ itemDone' = TRUE
                /\ Emit(Note("itemCompleted", Whole, "inProgress"))
                /\ UNCHANGED <<said, ended, progress, errors, connected>>

\* Also when the turn is over.
Report == /\ progress + errors < MaxExtras
          /\ progress' = progress + 1
          /\ Emit(Note("progress", <<>>, "inProgress"))
          /\ UNCHANGED <<said, itemDone, ended, errors, connected>>

Break == /\ ended = "inProgress" /\ (said = 0 \/ itemDone) /\ progress + errors < MaxExtras
         /\ errors' = errors + 1
         /\ Emit(Note("error", <<>>, "inProgress"))
         /\ UNCHANGED <<said, itemDone, ended, progress, connected>>

\* An interrupt can be the user's or any other client's.
EndTurn(s) == /\ ended = "inProgress" /\ connected /\ Len(stream) < MaxInFlight
              /\ s = "completed" => itemDone
              /\ ended' = s
              /\ stream' = stream \o (IF s = "failed" THEN <<Note("error", <<>>, s)>> ELSE <<>>)
                                  \o <<Note("turnCompleted", <<>>, s)>>
              /\ UNCHANGED <<said, itemDone, progress, errors, connected>>

\* The events still in the channel go with the client.
Disconnect == /\ connected
              /\ connected' = FALSE
              /\ stream' = <<>>
              /\ UNCHANGED <<said, itemDone, ended, progress, errors>>

\* What comes while a call handles notifications might as well have come before
\* the call, or come after it: nothing here looks at the server meanwhile.
Server == /\ lock = "none"
          /\ \/ Say \/ CompleteItem \/ Report \/ Break \/ Disconnect
             \/ \E s \in Terminal : EndTurn(s)
          /\ UNCHANGED nativeVars

-----------------------------------------------------------------------------
\* The state of the turn

Event(kind, t, s) == [kind |-> kind, text |-> t, status |-> s, past |-> past]

\* NativeTurnState::default
Unknown == [known |-> FALSE, status |-> "", title |-> "", last |-> <<"", "">>, events |-> <<>>]

\* turn_start inserts it.
Started == [Unknown EXCEPT !.known = TRUE, !.status = "inProgress", !.title = "running"]

Entry == [turn EXCEPT !.known = TRUE]
Pushed(t, event) == [t EXCEPT !.events = Append(@, event)]

\* push_turn_status_event
StatusPushed(t) ==
  IF t.last = <<t.status, t.title>> THEN t
  ELSE Pushed([t EXCEPT !.last = <<t.status, t.title>>], Event("status", <<>>, t.status))

Titled(t, status, title) == [t EXCEPT !.status = status, !.title = title]

-----------------------------------------------------------------------------
\* process_pending_events: the call that holds the runtime handles what has
\* come, and stops when nothing is left or a limit is reached.

Handle(kind) == /\ lock # "none"
                /\ stream # <<>> /\ Head(stream).kind = kind
                /\ stream' = Tail(stream)
                /\ handled' = TRUE
                /\ UNCHANGED <<serverVars, lock>>

TurnStarted == /\ Handle("turnStarted")
               /\ turn' = StatusPushed(Titled(Entry, Head(stream).status,
                                              IF turn.title = "" THEN "running" ELSE turn.title))
               /\ UNCHANGED <<text, past>>

\* ItemStarted, PlanDelta, the reasoning deltas, CommandExecutionOutputDelta,
\* FileChangeOutputDelta, McpToolCallProgress
Progress == /\ Handle("progress")
            /\ turn' = StatusPushed(Titled(Entry, "inProgress", "working"))
            /\ UNCHANGED <<text, past>>

\* Wrong on purpose: the later chunks are not announced.
DeltaUnannounced ==
  /\ Handle("delta")
  /\ text' = text \o Head(stream).text
  /\ turn' = IF text = <<>> THEN Pushed(Titled(Entry, "inProgress", "running"), Event("started", Head(stream).text, ""))
             ELSE Titled(Entry, "inProgress", "running")
  /\ UNCHANGED past

AgentMessageDelta ==
  /\ Handle("delta")
  /\ text' = text \o Head(stream).text
  /\ turn' = Pushed(Titled(Entry, "inProgress", "running"),
                    Event(IF text = <<>> THEN "started" ELSE "delta", Head(stream).text, ""))
  /\ UNCHANGED past

\* Wrong on purpose: the completed item is not announced.
ItemCompletedSilently ==
  /\ Handle("itemCompleted")
  /\ text' = Head(stream).text
  /\ turn' = IF turn.known THEN turn ELSE [Entry EXCEPT !.status = "inProgress"]
  /\ UNCHANGED past

ItemCompleted ==
  /\ Handle("itemCompleted")
  /\ text' = Head(stream).text
  /\ turn' = Pushed(IF turn.known THEN turn ELSE [Entry EXCEPT !.status = "inProgress"],
                    Event("replaced", Head(stream).text, ""))
  /\ UNCHANGED past

Over(status) == Pushed(StatusPushed(Titled(Entry, status, "over")), Event("snapshot", text, ""))

TurnCompleted == /\ Handle("turnCompleted")
                 /\ turn' = Over(Head(stream).status)
                 /\ UNCHANGED <<text, past>>

\* willRetry is not looked at.
Error == /\ Handle("error")
         /\ turn' = Over("failed")
         /\ UNCHANGED <<text, past>>

HandleNext == TurnStarted \/ Progress \/ AgentMessageDelta \/ ItemCompleted \/ TurnCompleted \/ Error

-----------------------------------------------------------------------------
\* prune_terminal_turn_states_for_thread
Pruned == IF turn.known /\ turn.status \in Terminal THEN Unknown ELSE turn

\* Wrong on purpose: a turn the host does not know is taken for completed.
PollPayloadDone == [status |-> IF turn.status = "" THEN "completed" ELSE turn.status,
                    text |-> text, past |-> past]

\* build_turn_poll_payload
PollPayload == [status |-> IF turn.status = "" THEN "inProgress" ELSE turn.status,
                text |-> text, past |-> past]

\* What the server's history tells of the turn (build_thread_read_payload).
ReadPayload == [status |-> IF Pruned.known THEN "inProgress" ELSE ended,
                text |-> <<>>, past |-> itemDone]

\* Wrong on purpose: the history is not taken over.
ReadThreadMeta == /\ turn' = Pruned
                  /\ text' = <<>>
                  /\ past' = FALSE

\* thread_read, thread_resume: upsert_thread_state_from_protocol
ReadThread == /\ turn' = Pruned
              /\ text' = <<>>
              /\ past' = itemDone
=============================================================================
