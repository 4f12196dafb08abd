------------------------ MODULE SessionTasks_proof ------------------------
(***************************************************************************)
(* However many messages, turns and rounds, and however the submission     *)
(* loop, other threads and the tasks interleave: one task works at a time, *)
(* and a call that waits for an approval can be answered.                  *)
(***************************************************************************)
EXTENDS SessionTasks, SequenceTheorems, TLAPS

\* The loop has emptied active_turn and not yet put the next turn in it.
Emptied == loop.pc \in {"cancel", "wait", "clear", "spawn", "collect", "install"} => active = NoTurn

\* Every working task is that of the active turn, or of the one about to be put there, or of
\* the one about to be cancelled.
WorksThere ==
  \A t \in Turns : Working(t) => \/ active = t
                                 \/ loop.pc \in {"collect", "install"} /\ loop.turn = t
                                 \/ loop.pc = "cancel" /\ loop.victim = t

\* A waiting call's sender is with its own turn.
AsksThere ==
  \A t \in Turns : At(t, "asking") /\ t \notin cancelled =>
    \/ active = t /\ t \in asks
    \/ loop.pc = "cancel" /\ loop.victim = t /\ t \in loop.asks

\* What TypeOK needs to last: whom the loop aborts, and that run_turn is entered, once or
\* again, with nothing but the user's input.
BetweenLooks == {"enter", "sample", "asking", "check"}
StepTypes ==
  /\ loop.pc \in {"cancel", "wait"} => loop.victim \in Turns
  /\ \A t \in Turns : task[t].pc \in BetweenLooks => task[t].held \in Seq(Inputs)

Places == Emptied /\ WorksThere /\ AsksThere
IInv == TypeOK /\ StepTypes /\ Places

-----------------------------------------------------------------------------
(* Sequences of items *)

LEMMA ItemSeqs ==
  /\ Seq(Inputs) \subseteq Seq(Items) /\ Seq(Mails) \subseteq Seq(Items)
  /\ <<>> \in Seq(Items) /\ <<>> \in Seq(Inputs) /\ <<>> \in Seq(Mails)
  /\ \A r, s \in Seq(Items) : r \o s \in Seq(Items)
  /\ \A i \in Inputs : <<i>> \in Seq(Inputs)
BY SeqMonotonic DEF Items

LEMMA Rest == ASSUME NEW s \in Seq(Items), NEW k \in DOMAIN s PROVE SubSeq(s, k + 1, Len(s)) \in Seq(Items)
OBVIOUS

LEMMA InputElems == ASSUME NEW s \in Seq(Inputs) PROVE Elems(s) \subseteq Inputs
BY DEF Elems

LEMMA NextTurnType == ASSUME Unused # {} PROVE NextTurn \in Turns
BY DEF NextTurn, Unused

TaskStates == [pc : TaskPlaces, kind : Kinds, held : Seq(Items)]
LoopStates == [pc : LoopSteps, interrupt : BOOLEAN, victim : Turns \cup {NoTurn},
               asks : SUBSET Turns, turn : Turns \cup {NoTurn}, kind : Kinds,
               input : Seq(Inputs), held : Seq(Items)]

LEMMA Moves ==
  ASSUME TypeOK, NEW t \in Turns, NEW pc \in TaskPlaces, Goto(t, pc)
  PROVE  /\ task' \in [Turns -> TaskStates]
         /\ \A u \in Turns \ {t} : task'[u] = task[u]
         /\ task'[t].pc = pc /\ task'[t].held = task[t].held
<1>1. task \in [Turns -> TaskStates]
  BY DEF TypeOK, TaskStates
<1> HIDE DEF TaskPlaces, Kinds
<1> QED BY <1>1 DEF Goto, TaskStates

LEMMA MovesHolding ==
  ASSUME TypeOK, NEW t \in Turns, NEW pc \in TaskPlaces, NEW held \in Seq(Items), GotoHolding(t, pc, held)
  PROVE  /\ task' \in [Turns -> TaskStates]
         /\ \A u \in Turns \ {t} : task'[u] = task[u]
         /\ task'[t].pc = pc /\ task'[t].held = held
<1>1. task \in [Turns -> TaskStates]
  BY DEF TypeOK, TaskStates
<1> HIDE DEF TaskPlaces, Kinds
<1> QED BY <1>1 DEF GotoHolding, TaskStates

LEMMA IdleType == Idle \in LoopStates /\ Idle.pc = "idle"
BY ItemSeqs DEF Idle, LoopStates, LoopSteps, Kinds

-----------------------------------------------------------------------------
(* Types *)

\* The loop's steps and the client's operations.
LEMMA LoopTypes ==
  ASSUME IInv, Client \/ LoopStep PROVE TypeOK' /\ StepTypes'
<1> USE ItemSeqs, IdleType
<1>0. /\ TypeOK /\ StepTypes /\ task \in [Turns -> TaskStates] /\ loop \in LoopStates
  BY DEF IInv, TypeOK, TaskStates, LoopStates
<1>1. ASSUME NEW i \in Inputs, UserInput(i) PROVE TypeOK' /\ StepTypes'
  <2>1. CASE active # NoTurn
    <3>1. i \in Items /\ pending \in Seq(Items) /\ Append(pending, i) \in Seq(Items)
      BY <1>0 DEF TypeOK, Items
    <3>2. pending' \in {pending, Append(pending, i)} /\ refused' \in {refused, refused \cup {i}}
          /\ fresh' = fresh \ {i} /\ loop' = loop
      BY <1>1, <2>1 DEF UserInput, Push
    <3> QED BY <1>0, <1>1, <3>1, <3>2 DEF UserInput, TypeOK, StepTypes
  <2>2. CASE active = NoTurn /\ Unused # {}
    BY <1>0, <1>1, <2>2, NextTurnType, ZenonT(60) DEF UserInput, TypeOK, StepTypes, Items, LoopStates, LoopSteps, Idle
  <2> QED BY <1>1, <2>1, <2>2 DEF UserInput
<1>2. ASSUME Compact PROVE TypeOK' /\ StepTypes'
  BY <1>0, <1>2, NextTurnType DEF Compact, turnVars, outVars, TypeOK, StepTypes, LoopStates, LoopSteps, Kinds, Idle
<1>3. ASSUME NEW m \in Mails, AgentMail(m) PROVE TypeOK' /\ StepTypes'
  <2>1. mailbox' \in Seq(Mails) /\ fresh' \subseteq Items
    BY <1>0, <1>3 DEF AgentMail, TypeOK
  <2>2. loop' \in LoopStates /\ (loop'.pc = "wake" \/ loop' = loop)
    BY <1>0, <1>3 DEF AgentMail, Idle, LoopStates, LoopSteps
  <2> QED BY <1>0, <1>3, <2>1, <2>2 DEF AgentMail, turnVars, outVars, TypeOK, StepTypes, LoopStates
<1>4. ASSUME Interrupt PROVE TypeOK' /\ StepTypes'
  BY <1>0, <1>4 DEF Interrupt, turnVars, outVars, TypeOK, StepTypes, LoopStates, LoopSteps, Idle
<1>5. ASSUME NEW t \in Turns, Answer(t) PROVE TypeOK' /\ StepTypes'
  <2>1. task' \in [Turns -> TaskStates] /\ StepTypes'
    <3>1. CASE At(t, "asking")
      <4>1. "sample" \in TaskPlaces /\ Goto(t, "sample")
        BY <1>5, <3>1 DEF Answer, TaskPlaces
      <4>2. /\ task' \in [Turns -> TaskStates] /\ task'[t].held = task[t].held
            /\ \A u \in Turns \ {t} : task'[u] = task[u]
        BY <1>0, <4>1, Moves
      <4> QED BY <1>0, <1>5, <3>1, <4>2 DEF Answer, At, StepTypes, BetweenLooks
    <3>2. CASE ~At(t, "asking")
      BY <1>0, <1>5, <3>2 DEF Answer, StepTypes
    <3> QED BY <3>1, <3>2
  <2>2. asks' \subseteq Turns
    BY <1>0, <1>5 DEF Answer, TypeOK
  <2> QED BY <1>0, <1>5, <2>1, <2>2 DEF Answer, outVars, TypeOK, TaskStates
<1>6. ASSUME TakeActive PROVE TypeOK' /\ StepTypes'
  BY <1>0, <1>6, ZenonT(60) DEF TakeActive, outVars, TypeOK, StepTypes, LoopStates, LoopSteps
<1>7. ASSUME Cancel PROVE TypeOK' /\ StepTypes'
  BY <1>0, <1>7 DEF Cancel, turnVars, outVars, TypeOK, StepTypes, LoopStates, LoopSteps
<1>8. ASSUME Abort PROVE TypeOK' /\ StepTypes'
  BY <1>0, <1>8 DEF Abort, turnVars, TypeOK, StepTypes, LoopStates, LoopSteps
<1>9. ASSUME ClearPending PROVE TypeOK' /\ StepTypes'
  BY <1>0, <1>9 DEF ClearPending, turnVars, outVars, TypeOK, StepTypes, LoopStates, LoopSteps, Idle
<1>10. ASSUME LookForMail PROVE TypeOK' /\ StepTypes'
  BY <1>0, <1>10 DEF LookForMail, turnVars, outVars, TypeOK, StepTypes, LoopStates, LoopSteps, Idle
<1>11. ASSUME EnsureTask PROVE TypeOK' /\ StepTypes'
  BY <1>0, <1>11, NextTurnType, ZenonT(60) DEF EnsureTask, turnVars, outVars, TypeOK, StepTypes, LoopStates, LoopSteps, Idle
<1>12. ASSUME Spawn PROVE TypeOK' /\ StepTypes'
  <2>1. [pc |-> "enter", kind |-> loop.kind, held |-> loop.input] \in TaskStates
    BY <1>0 DEF TaskStates, TaskPlaces, LoopStates
  <2>2. task' \in [Turns -> TaskStates]
    BY <1>0, <1>12, <2>1 DEF Spawn
  <2>3. \A t \in Turns : task'[t].pc \in BetweenLooks => task'[t].held \in Seq(Inputs)
    BY <1>0, <1>12 DEF Spawn, StepTypes, LoopStates
  <2> QED BY <1>0, <1>12, <2>2, <2>3 DEF Spawn, turnVars, outVars, TypeOK, TaskStates, StepTypes, LoopStates, LoopSteps
<1>13. ASSUME Collect PROVE TypeOK' /\ StepTypes'
  <2>1. pending \o mailbox \in Seq(Items)
    BY <1>0 DEF TypeOK
  <2>2. loop' \in LoopStates /\ loop'.pc = "install"
    BY <1>0, <1>13, <2>1 DEF Collect, LoopStates, LoopSteps
  <2> QED BY <1>0, <1>13, <2>2 DEF Collect, outVars, TypeOK, StepTypes, LoopStates
<1>14. ASSUME Install PROVE TypeOK' /\ StepTypes'
  BY <1>0, <1>14 DEF Install, outVars, TypeOK, StepTypes, LoopStates
<1>15. ASSUME NEW i \in Inputs, Steer(i) PROVE TypeOK' /\ StepTypes'
  BY <1>0, <1>15 DEF Steer, Push, outVars, TypeOK, StepTypes, Items
<1>16. ASSUME NEW n \in Notes, Inject(n) PROVE TypeOK' /\ StepTypes'
  <2>1. n \in Items /\ pending \in Seq(Items) /\ Append(pending, n) \in Seq(Items)
    BY <1>0 DEF TypeOK, Items
  <2>2. pending' \in {pending, Append(pending, n)} /\ fresh' = fresh \ {n}
    BY <1>16 DEF Inject, Push
  <2> QED BY <1>0, <1>16, <2>1, <2>2 DEF Inject, TypeOK, StepTypes
<1> QED BY <1>1, <1>2, <1>3, <1>4, <1>5, <1>6, <1>7, <1>8, <1>9, <1>10, <1>11, <1>12, <1>13, <1>14,
           <1>15, <1>16 DEF Client, LoopStep

\* Whatever step the task of a turn makes, only its own entry changes.
LEMMA TaskTypes ==
  ASSUME IInv, NEW t \in Turns, TaskStep(t) PROVE TypeOK' /\ StepTypes'
<1> USE ItemSeqs
<1>0. /\ TypeOK /\ StepTypes /\ task \in [Turns -> TaskStates] /\ loop \in LoopStates
      /\ task[t].held \in Seq(Items) /\ pending \in Seq(Items) /\ mailbox \in Seq(Mails)
  BY DEF IInv, TypeOK, TaskStates, LoopStates
<1> DEFINE EntryOK ==
      /\ task' \in [Turns -> TaskStates]
      /\ \A u \in Turns : task'[u].pc \in BetweenLooks => task'[u].held \in Seq(Inputs)
<1>1. ASSUME NEW pc \in TaskPlaces, Goto(t, pc), pc \in BetweenLooks => task[t].pc \in BetweenLooks
      PROVE  EntryOK
  BY <1>0, <1>1, Moves DEF StepTypes
<1>2. ASSUME NEW pc \in TaskPlaces, NEW held \in Seq(Items), GotoHolding(t, pc, held),
             pc \in BetweenLooks => held \in Seq(Inputs)
      PROVE  EntryOK
  <2>1. /\ task' \in [Turns -> TaskStates] /\ task'[t].pc = pc /\ task'[t].held = held
        /\ \A u \in Turns \ {t} : task'[u] = task[u]
    BY <1>0, <1>2, MovesHolding
  <2> QED BY <1>0, <1>2, <2>1 DEF StepTypes
<1>3. UNCHANGED <<loop, cancelled, fresh>> /\ active' \in {active, NoTurn}
  <2>1. CASE Enter(t) \/ GiveUp(t) \/ Drain(t) \/ Sampled(t) \/ FollowUp(t) \/ Ask(t)
    BY <2>1 DEF Enter, GiveUp, Drain, Sampled, FollowUp, Ask, turnVars, outVars
  <2>2. CASE Inspect(t) \/ Finish(t) \/ RecordLeftover(t) \/ Complete(t)
    BY <2>2 DEF Inspect, Finish, RecordLeftover, Complete, turnVars, outVars
  <2>3. CASE StopAsking(t) \/ Check(t) \/ RunCompact(t) \/ Flush(t) \/ Die(t)
    BY <2>3 DEF StopAsking, Check, RunCompact, Flush, Die, turnVars, outVars
  <2> QED BY <2>1, <2>2, <2>3 DEF TaskStep
<1>4. ASSUME EntryOK, pending' \in Seq(Items), asks' \subseteq Turns, mailbox' \in Seq(Mails),
             killed' \subseteq Turns, rounds' \in 0..MaxRounds, refused' \subseteq Inputs
      PROVE  TypeOK' /\ StepTypes'
  BY <1>0, <1>3, <1>4 DEF TypeOK, TaskStates, StepTypes
<1> HIDE DEF EntryOK
<1>5. ASSUME Enter(t) PROVE TypeOK' /\ StepTypes'
  <2>1. CASE Goto(t, IF HasPending THEN "drain" ELSE "check")
    BY <1>0, <1>1, <1>4, <1>5, <2>1 DEF Enter, At, turnVars, TypeOK, TaskPlaces, BetweenLooks
  <2>2. CASE GotoHolding(t, "drain", <<>>)
    BY <1>0, <1>2, <1>4, <1>5, <2>2 DEF Enter, turnVars, TypeOK, TaskPlaces
  <2> QED BY <1>5, <2>1, <2>2 DEF Enter
<1>6. ASSUME GiveUp(t) PROVE TypeOK' /\ StepTypes'
  <2>1. task[t].held \in Seq(Inputs) /\ GotoHolding(t, "check", <<>>)
    BY <1>0, <1>6 DEF GiveUp, At, StepTypes, BetweenLooks
  <2>2. refused' \subseteq Inputs
    BY <1>0, <1>6, <2>1, InputElems DEF GiveUp, TypeOK
  <2>3. rounds' \in 0..MaxRounds
    BY <1>0, <1>6, BoundsAssumption DEF GiveUp, TypeOK
  <2> QED BY <1>0, <1>2, <1>4, <1>6, <2>1, <2>2, <2>3 DEF GiveUp, turnVars, TypeOK, TaskPlaces
<1>7. ASSUME Drain(t) PROVE TypeOK' /\ StepTypes'
  <2>1. pending \o mailbox \in Seq(Items)
    BY <1>0
  <2> QED BY <1>0, <1>2, <1>4, <1>7, <2>1 DEF Drain, outVars, TypeOK, TaskPlaces, BetweenLooks
<1>8. ASSUME Inspect(t) PROVE TypeOK' /\ StepTypes'
  <2>1. CASE GotoHolding(t, "sample", <<>>) /\ UNCHANGED <<pending, refused>>
    BY <1>0, <1>2, <1>4, <1>8, <2>1 DEF Inspect, TypeOK, TaskPlaces
  <2>2. ASSUME NEW k \in DOMAIN task[t].held,
               LET rest == SubSeq(task[t].held, k + 1, Len(task[t].held))
               IN /\ task[t].held[k] \in Inputs
                  /\ refused' = refused \cup {task[t].held[k]}
                  /\ pending' = IF active = NoTurn THEN pending ELSE rest \o pending
                  /\ GotoHolding(t, IF k > 1 THEN "sample" ELSE IF rest # <<>> THEN "drain" ELSE "check", <<>>)
        PROVE  TypeOK' /\ StepTypes'
    <3>1. SubSeq(task[t].held, k + 1, Len(task[t].held)) \in Seq(Items)
      BY <1>0, Rest
    <3>2. pending' \in Seq(Items) /\ refused' \subseteq Inputs
      BY <1>0, <2>2, <3>1 DEF TypeOK
    <3>3. PICK pc \in {"sample", "drain", "check"} : GotoHolding(t, pc, <<>>)
      BY <2>2
    <3>4. EntryOK
      BY <1>2, <3>3 DEF TaskPlaces
    <3> QED BY <1>0, <1>4, <1>8, <3>2, <3>4 DEF Inspect, TypeOK
  <2> QED BY <1>8, <2>1, <2>2 DEF Inspect
<1>9. ASSUME Sampled(t) PROVE TypeOK' /\ StepTypes'
  <2>1. PICK pc \in {"drain", "check"} : Goto(t, pc)
    BY <1>9 DEF Sampled
  <2> QED BY <1>0, <1>1, <1>4, <1>9, <2>1 DEF Sampled, At, turnVars, outVars, TypeOK, TaskPlaces, BetweenLooks
<1>10. ASSUME FollowUp(t) PROVE TypeOK' /\ StepTypes'
  BY <1>0, <1>1, <1>4, <1>10, BoundsAssumption, SMTT(30) DEF FollowUp, turnVars, outVars, TypeOK, TaskPlaces, BetweenLooks
<1>11. ASSUME Ask(t) PROVE TypeOK' /\ StepTypes'
  <2>1. CASE active # NoTurn
    BY <1>0, <1>1, <1>4, <1>11, <2>1, BoundsAssumption DEF Ask, At, outVars, TypeOK, TaskPlaces, BetweenLooks
  <2>2. CASE active = NoTurn
    BY <1>0, <1>4, <1>11, <2>2, BoundsAssumption DEF Ask, EntryOK, outVars, TypeOK, StepTypes
  <2> QED BY <2>1, <2>2
<1>12. ASSUME StopAsking(t) PROVE TypeOK' /\ StepTypes'
  BY <1>0, <1>1, <1>4, <1>12 DEF StopAsking, At, turnVars, outVars, TypeOK, TaskPlaces, BetweenLooks
<1>13. ASSUME Check(t) PROVE TypeOK' /\ StepTypes'
  <2>1. PICK pc \in {"enter", "flush"} : Goto(t, pc)
    BY <1>13 DEF Check
  <2> QED BY <1>0, <1>1, <1>4, <1>13, <2>1 DEF Check, At, turnVars, outVars, TypeOK, TaskPlaces, BetweenLooks
<1>14. ASSUME RunCompact(t) PROVE TypeOK' /\ StepTypes'
  BY <1>0, <1>1, <1>4, <1>14 DEF RunCompact, turnVars, outVars, TypeOK, TaskPlaces, BetweenLooks
<1>15. ASSUME Flush(t) PROVE TypeOK' /\ StepTypes'
  <2>1. PICK pc \in {"done", "finish"} : Goto(t, pc)
    BY <1>15 DEF Flush
  <2> QED BY <1>0, <1>1, <1>4, <1>15, <2>1 DEF Flush, turnVars, outVars, TypeOK, TaskPlaces, BetweenLooks
<1>16. ASSUME Finish(t) PROVE TypeOK' /\ StepTypes'
  <2>1. EntryOK
    BY <1>0, <1>1, <1>2, <1>16 DEF Finish, TaskPlaces, BetweenLooks
  <2> QED BY <1>0, <1>4, <1>16, <2>1 DEF Finish, turnVars, outVars, TypeOK
<1>17. ASSUME RecordLeftover(t) PROVE TypeOK' /\ StepTypes'
  <2>1. refused' \subseteq Inputs
    BY <1>0, <1>17 DEF RecordLeftover, TypeOK
  <2>2. Tail(task[t].held) \in Seq(Items)
    BY <1>0, <1>17 DEF RecordLeftover
  <2> QED BY <1>0, <1>2, <1>4, <1>17, <2>1, <2>2 DEF RecordLeftover, turnVars, TypeOK, TaskPlaces, BetweenLooks
<1>18. ASSUME Die(t) PROVE TypeOK' /\ StepTypes'
  BY <1>0, <1>2, <1>4, <1>18 DEF Die, turnVars, outVars, TypeOK, TaskPlaces
<1>19. ASSUME Complete(t) PROVE TypeOK' /\ StepTypes'
  BY <1>0, <1>1, <1>4, <1>19 DEF Complete, turnVars, TypeOK, TaskPlaces, BetweenLooks
<1> QED BY <1>5, <1>6, <1>7, <1>8, <1>9, <1>10, <1>11, <1>12, <1>13, <1>14, <1>15, <1>16, <1>17, <1>18,
           <1>19 DEF TaskStep

-----------------------------------------------------------------------------
(* Places *)

\* The loop takes the turn out before it cancels it, and starts the next one last.
LEMMA LoopPlaces ==
  ASSUME IInv, Client \/ LoopStep PROVE Places'
<1>0. /\ TypeOK /\ Emptied /\ WorksThere /\ AsksThere
      /\ task \in [Turns -> TaskStates] /\ loop \in LoopStates
      /\ \A t \in Turns : t # NoTurn
  BY DEF IInv, Places, TypeOK, TaskStates, LoopStates, Turns, NoTurn
<1>1. ASSUME UNCHANGED <<active, asks, task, cancelled>>,
             loop' = loop \/ loop.pc \notin {"cancel", "collect", "install"},
             loop'.pc \in {"cancel", "wait", "clear", "spawn", "collect", "install"} => active = NoTurn
      PROVE  Places'
  BY <1>0, <1>1 DEF Places, Emptied, WorksThere, AsksThere, Working, At
<1>2. ASSUME NEW i \in Inputs, UserInput(i) PROVE Places'
  BY <1>0, <1>1, <1>2 DEF UserInput, Push, Idle, Emptied, LoopStates
<1>3. ASSUME Compact PROVE Places'
  BY <1>0, <1>1, <1>3 DEF Compact, turnVars, Idle, LoopStates
<1>4. ASSUME NEW m \in Mails, AgentMail(m) PROVE Places'
  BY <1>0, <1>1, <1>4 DEF AgentMail, turnVars, Idle, LoopStates
<1>5. ASSUME Interrupt PROVE Places'
  BY <1>0, <1>1, <1>5 DEF Interrupt, turnVars, Idle, LoopStates
<1>6. ASSUME NEW t \in Turns, Answer(t) PROVE Places'
  <2>1. /\ \A u \in Turns \ {t} : task'[u] = task[u]
        /\ task'[t].pc = IF At(t, "asking") THEN "sample" ELSE task[t].pc
    BY <1>0, <1>6, Moves DEF Answer, At, TaskPlaces
  <2>2. UNCHANGED <<active, loop, cancelled>> /\ asks' = asks \ {t} /\ loop.pc = "idle"
    BY <1>6 DEF Answer
  <2> QED BY <1>0, <2>1, <2>2 DEF Places, Emptied, WorksThere, AsksThere, Working, At
<1>7. ASSUME TakeActive PROVE Places'
  <2>1. UNCHANGED <<task, cancelled>> /\ active' = NoTurn /\ loop.pc = "take"
    BY <1>7 DEF TakeActive
  <2>2. CASE active = NoTurn
    BY <1>0, <2>1, <2>2 DEF Places, Emptied, WorksThere, AsksThere, Working, At
  <2>3. CASE active # NoTurn
    <3>1. loop'.pc = "cancel" /\ loop'.victim = active /\ loop'.asks = asks
      BY <1>0, <1>7, <2>3 DEF TakeActive, LoopStates
    <3> QED BY <1>0, <2>1, <3>1 DEF Places, Emptied, WorksThere, AsksThere, Working, At
  <2> QED BY <2>2, <2>3
<1>8. ASSUME Cancel PROVE Places'
  <2>1. /\ UNCHANGED <<active, asks, task>> /\ cancelled' = cancelled \cup {loop.victim}
        /\ loop.pc = "cancel" /\ loop'.pc = "wait"
    BY <1>0, <1>8 DEF Cancel, turnVars, LoopStates
  <2> QED BY <1>0, <2>1 DEF Places, Emptied, WorksThere, AsksThere, Working, At
<1>9. ASSUME Abort PROVE Places'
  BY <1>0, <1>1, <1>9 DEF Abort, turnVars, LoopStates, Emptied
<1>10. ASSUME ClearPending PROVE Places'
  BY <1>0, <1>1, <1>10 DEF ClearPending, turnVars, Idle, LoopStates, Emptied
<1>11. ASSUME LookForMail PROVE Places'
  BY <1>0, <1>1, <1>11 DEF LookForMail, turnVars, Idle, LoopStates
<1>12. ASSUME EnsureTask PROVE Places'
  BY <1>0, <1>1, <1>12 DEF EnsureTask, turnVars, Idle, LoopStates
<1>13. ASSUME Spawn PROVE Places'
  <2>1. /\ UNCHANGED <<active, asks, cancelled>> /\ loop.pc = "spawn" /\ loop'.pc = "collect"
        /\ loop'.turn = loop.turn
    BY <1>0, <1>13 DEF Spawn, turnVars, LoopStates
  <2>2. \A u \in Turns : u # loop.turn => task'[u] = task[u]
    BY <1>0, <1>13 DEF Spawn
  <2>3. loop.turn \in Turns => task'[loop.turn].pc = "enter"
    BY <1>0, <1>13 DEF Spawn
  <2> QED BY <1>0, <2>1, <2>2, <2>3 DEF Places, Emptied, WorksThere, AsksThere, Working, At
<1>14. ASSUME Collect PROVE Places'
  <2>1. /\ UNCHANGED <<active, asks, task, cancelled>> /\ loop.pc = "collect" /\ loop'.pc = "install"
        /\ loop'.turn = loop.turn
    BY <1>0, <1>14 DEF Collect, LoopStates
  <2> QED BY <1>0, <2>1 DEF Places, Emptied, WorksThere, AsksThere, Working, At
<1>15. ASSUME Install PROVE Places'
  <2>1. /\ UNCHANGED <<task, cancelled>> /\ loop.pc = "install" /\ active' = loop.turn /\ loop'.pc = "idle"
    BY <1>15 DEF Install, Idle
  <2> QED BY <1>0, <2>1 DEF Places, Emptied, WorksThere, AsksThere, Working, At
<1>16. ASSUME NEW i \in Inputs, Steer(i) PROVE Places'
  BY <1>0, <1>1, <1>16 DEF Steer, Emptied
<1>17. ASSUME NEW n \in Notes, Inject(n) PROVE Places'
  BY <1>0, <1>1, <1>17 DEF Inject, Emptied
<1> QED BY <1>2, <1>3, <1>4, <1>5, <1>6, <1>7, <1>8, <1>9, <1>10, <1>11, <1>12, <1>13, <1>14,
           <1>15, <1>16, <1>17 DEF Client, LoopStep

\* A task's step starts no work, asks only the active turn, and takes out only its own.
LEMMA TaskEffect ==
  ASSUME IInv, NEW t \in Turns, TaskStep(t)
  PROVE  /\ \A u \in Turns \ {t} : task'[u] = task[u]
         /\ Working(t)' => Working(t)
         /\ UNCHANGED <<loop, cancelled>>
         /\ \/ active' = active /\ asks \subseteq asks'
            \/ active = t /\ active' = NoTurn /\ task'[t].pc = "complete"
         /\ task'[t].pc = "asking" => active # NoTurn /\ active' = active /\ t \in asks'
<1>0. TypeOK /\ task \in [Turns -> TaskStates]
  BY DEF IInv, TypeOK, TaskStates
<1>1. CASE Ask(t)
  <2>1. CASE active # NoTurn
    <3>1. Goto(t, "asking") /\ "asking" \in TaskPlaces
      BY <1>1, <2>1 DEF Ask, TaskPlaces
    <3>2. task'[t].pc = "asking" /\ \A u \in Turns \ {t} : task'[u] = task[u]
      BY <1>0, <3>1, Moves
    <3>3. UNCHANGED <<active, loop, cancelled>> /\ asks' = asks \cup {t} /\ task[t].pc = "sample"
      BY <1>1, <2>1 DEF Ask, At
    <3> QED BY <2>1, <3>2, <3>3 DEF Working
  <2>2. CASE active = NoTurn
    BY <1>0, <1>1, <2>2 DEF Ask, At, Working, outVars
  <2> QED BY <2>1, <2>2
<1>2. ASSUME NEW pc \in TaskPlaces \ {"asking", "complete", "none"},
             Goto(t, pc) \/ GotoHolding(t, pc, <<>>) \/ GotoHolding(t, pc, pending \o mailbox),
             task[t].pc \in {"none", "complete", "done", "dead"} => pc \in {"done", "dead"},
             UNCHANGED <<active, asks, loop, cancelled>>
      PROVE  /\ \A u \in Turns \ {t} : task'[u] = task[u]
             /\ Working(t)' => Working(t)
             /\ task'[t].pc # "asking" /\ active' = active /\ asks \subseteq asks' /\ UNCHANGED <<loop, cancelled>>
  <2>1. <<>> \in Seq(Items) /\ pending \o mailbox \in Seq(Items)
    BY <1>0, ItemSeqs DEF TypeOK
  <2>2. task'[t].pc = pc /\ \A u \in Turns \ {t} : task'[u] = task[u]
    BY <1>0, <1>2, <2>1, Moves, MovesHolding
  <2> QED BY <1>2, <2>2 DEF Working
<1> HIDE DEF Working
<1>3. CASE Enter(t) \/ GiveUp(t) \/ Drain(t)
  <2>1. PICK pc \in {"drain", "check", "inspect"} :
          Goto(t, pc) \/ GotoHolding(t, pc, <<>>) \/ GotoHolding(t, pc, pending \o mailbox)
    BY <1>3 DEF Enter, GiveUp, Drain
  <2> QED BY <1>2, <1>3, <2>1 DEF Enter, GiveUp, Drain, At, TaskPlaces, turnVars, outVars
<1>4. CASE Inspect(t)
  <2>1. PICK pc \in {"sample", "drain", "check"} : GotoHolding(t, pc, <<>>)
    BY <1>4 DEF Inspect
  <2> QED BY <1>2, <1>4, <2>1 DEF Inspect, At, TaskPlaces
<1>5. CASE Sampled(t) \/ FollowUp(t) \/ StopAsking(t) \/ Check(t) \/ RunCompact(t) \/ Flush(t)
  <2>1. PICK pc \in {"drain", "check", "enter", "flush", "done", "finish"} : Goto(t, pc)
    BY <1>5 DEF Sampled, FollowUp, StopAsking, Check, RunCompact, Flush
  <2> QED BY <1>2, <1>5, <2>1 DEF Sampled, FollowUp, StopAsking, Check, RunCompact, Flush, At, TaskPlaces,
                                   turnVars, outVars
<1>6. CASE Finish(t)
  <2>1. /\ UNCHANGED <<loop, cancelled>> /\ task[t].pc = "finish"
        /\ \/ active' = active /\ asks' = asks
           \/ active = t /\ active' = NoTurn
    <3>1. CASE active = t
      BY <1>6, <3>1 DEF Finish, At
    <3>2. CASE active # t
      BY <1>6, <3>2 DEF Finish, At, turnVars
    <3> QED BY <3>1, <3>2
  <2>2. pending \in Seq(Items) /\ "complete" \in TaskPlaces
    BY <1>0 DEF TypeOK, TaskPlaces
  <2>3. task'[t].pc = "complete" /\ \A u \in Turns \ {t} : task'[u] = task[u]
    BY <1>0, <1>6, <2>2, Moves, MovesHolding DEF Finish
  <2> QED BY <2>1, <2>3 DEF Working
<1>7. CASE Complete(t) \/ Die(t)
  <2>1. PICK pc \in {"done", "dead"} : Goto(t, pc) \/ GotoHolding(t, pc, <<>>)
    BY <1>7 DEF Complete, Die
  <2> QED BY <1>2, <1>7, <2>1 DEF Complete, Die, TaskPlaces, turnVars, outVars
<1>8. CASE RecordLeftover(t)
  <2>1. Tail(task[t].held) \in Seq(Items) /\ "complete" \in TaskPlaces
    BY <1>0, <1>8 DEF RecordLeftover, TypeOK, TaskPlaces
  <2>2. task'[t].pc = "complete" /\ \A u \in Turns \ {t} : task'[u] = task[u]
    BY <1>0, <1>8, <2>1, MovesHolding DEF RecordLeftover
  <2> QED BY <1>8, <2>2 DEF RecordLeftover, Working, turnVars
<1> QED BY <1>1, <1>3, <1>4, <1>5, <1>6, <1>7, <1>8 DEF TaskStep

LEMMA TaskPlacesKept ==
  ASSUME IInv, NEW t \in Turns, TaskStep(t) PROVE Places'
<1>1. Emptied /\ WorksThere /\ AsksThere /\ \A u \in Turns : u # NoTurn
  BY DEF IInv, Places, Turns, NoTurn
<1>2. Emptied'
  BY <1>1, TaskEffect DEF Emptied
<1>3. ASSUME NEW u \in Turns, Working(u)'
      PROVE  \/ active' = u
             \/ loop'.pc \in {"collect", "install"} /\ loop'.turn = u
             \/ loop'.pc = "cancel" /\ loop'.victim = u
  <2>1. Working(u)
    BY <1>3, TaskEffect DEF Working
  <2>2. task'[t].pc = "complete" => ~Working(t)'
    BY DEF Working
  <2> QED BY <1>1, <1>3, <2>1, <2>2, TaskEffect DEF WorksThere
<1>4. ASSUME NEW u \in Turns, At(u, "asking")', u \notin cancelled'
      PROVE  \/ active' = u /\ u \in asks'
             \/ loop'.pc = "cancel" /\ loop'.victim = u /\ u \in loop'.asks
  <2>1. CASE u = t
    <3>1. Working(u)'
      BY <1>4 DEF Working, At
    <3>2. active' # NoTurn /\ t \in asks'
      BY <1>4, <2>1, TaskEffect DEF At
    <3> QED BY <1>2, <1>3, <2>1, <3>1, <3>2 DEF Emptied
  <2>2. CASE u # t
    BY <1>1, <1>4, <2>2, TaskEffect DEF AsksThere, At
  <2> QED BY <2>1, <2>2
<1> QED BY <1>2, <1>3, <1>4 DEF Places, WorksThere, AsksThere

-----------------------------------------------------------------------------
(* The invariant *)

LEMMA InitIInv == Init => IInv
<1> SUFFICES ASSUME Init PROVE IInv
  OBVIOUS
<1>1. TypeOK /\ StepTypes
  BY IdleType, ItemSeqs, BoundsAssumption DEF Init, TypeOK, StepTypes, BetweenLooks, LoopStates, TaskPlaces, Kinds, Items
<1>2. Places
  BY IdleType DEF Init, Places, Emptied, WorksThere, AsksThere, Working, At
<1> QED BY <1>1, <1>2 DEF IInv

LEMMA NextIInv == IInv /\ [Next]_vars => IInv'
<1>1. ASSUME IInv, Next PROVE IInv'
  BY <1>1, LoopTypes, LoopPlaces, TaskTypes, TaskPlacesKept DEF Next, IInv
<1>2. ASSUME IInv, UNCHANGED vars PROVE IInv'
  <2>1. TypeOK' /\ StepTypes'
    BY <1>2 DEF vars, turnVars, outVars, IInv, TypeOK, StepTypes
  <2>2. Places'
    BY <1>2 DEF vars, turnVars, outVars, IInv, Places, Emptied, WorksThere, AsksThere, Working, At
  <2> QED BY <2>1, <2>2 DEF IInv
<1> QED BY <1>1, <1>2

THEOREM Invariance == Spec => []IInv
BY InitIInv, NextIInv, PTL DEF Spec

\* Every variable of the session keeps its type: above all a task is in a place it can be in
\* with items in its hands, and nothing but the user's messages is ever refused.
THEOREM TypeCorrect == Spec => []TypeOK
<1>1. IInv => TypeOK
  BY DEF IInv
<1> QED BY <1>1, Invariance, PTL

\* codex.rs:807: a session has at most one running task, although the handlers that start
\* one never check and only the order abort, spawn, drain, install keeps them apart.
THEOREM OneTaskWorks == Spec => []OneWorker
<1>1. ASSUME IInv PROVE OneWorker
  <2>1. /\ Emptied /\ WorksThere
        /\ \A t \in Turns : t # NoTurn
    BY <1>1 DEF IInv, Places, Turns, NoTurn
  <2> QED BY <2>1 DEF Emptied, WorksThere, OneWorker
<1> QED BY <1>1, Invariance, PTL

\* tasks/mod.rs:305: the sender of an approval that a task waits for is never dropped before
\* the task is cancelled, so no call is denied that nobody denied.
THEOREM AsksAnswerable == Spec => []AskKept
<1>1. IInv => AskKept
  BY DEF IInv, Places, AsksThere, AskKept
<1> QED BY <1>1, Invariance, PTL
-----------------------------------------------------------------------------
(* Where the items are *)

BeforeSpawn == {"take", "cancel", "wait", "clear", "spawn"}
Aborting == {"cancel", "wait", "clear"}

\* What the loop has in its hands, and when.
LoopHands ==
  /\ loop.pc \notin Aborting \cup {"install"} => loop.held = <<>>
  /\ loop.pc \notin BeforeSpawn \/ loop.interrupt \/ loop.kind = "compact" => loop.input = <<>>
  /\ loop.pc \in Aborting => loop.victim \in Turns
  /\ loop.pc = "spawn" => ~loop.interrupt
  /\ loop.pc \in BeforeSpawn /\ ~loop.interrupt => loop.turn \in Turns /\ At(loop.turn, "none")
  /\ loop.pc \in {"collect", "install"} => loop.turn \in Turns

\* What a task has.  A task that looks at its input before its turn is in active_turn finds
\* nothing but mail, of which no hook blocks any.
TaskHands ==
  /\ \A t \in Turns :
       /\ task[t].pc \notin {"enter", "inspect", "complete"} => task[t].held = <<>>
       /\ task[t].kind = "compact" /\ At(t, "enter") => task[t].held = <<>>
  /\ active = NoTurn => pending = <<>>
  /\ loop.pc \in {"collect", "install"} /\ At(loop.turn, "inspect") => task[loop.turn].held \in Seq(Mails)

\* The places an item can be at, the tasks' hands first, and what is at each.
AtPending == MaxTurns + 1
AtMailbox == MaxTurns + 2
AtInput == MaxTurns + 3
AtHeld == MaxTurns + 4
AtHistory == MaxTurns + 5
Spots == 1..(MaxTurns + 5)
Stock ==
  [p \in Spots |-> IF p = AtPending THEN pending ELSE IF p = AtMailbox THEN mailbox
                   ELSE IF p = AtInput THEN loop.input ELSE IF p = AtHeld THEN loop.held
                   ELSE IF p = AtHistory THEN history ELSE task[p].held]

\* Every item is at one place once, and at none while it is not sent.
Distinct(s) == \A i, j \in DOMAIN s : s[i] = s[j] => i = j
Apart(r, s) == \A x \in Elems(r) : x \notin Elems(s)
Joined(n, r, s) == n = r \o s
Once(S, f) ==
  /\ \A p \in Spots : Distinct(S[p])
  /\ \A p \in Spots : \A x \in Elems(S[p]) : x \notin f /\ \A q \in Spots : x \in Elems(S[q]) => p = q

StockOK == history \in Seq(Items) /\ Once(Stock, fresh)
ItemsInv == IInv /\ LoopHands /\ TaskHands /\ StockOK

\* From one stock to the next nothing is lost but what is in lost.
Carried(S, T, lost) ==
  \A p \in Spots : \A x \in Elems(S[p]) : x \in lost \/ \E q \in Spots : x \in Elems(T[q])
Stocks == [Spots -> Seq(Items)]

-----------------------------------------------------------------------------
(* Sequences without repetitions *)

LEMMA EmptyElems == Elems(<<>>) = {} /\ Distinct(<<>>)
BY DEF Elems, Distinct

LEMMA OneElem == ASSUME NEW x PROVE Elems(<<x>>) = {x} /\ Distinct(<<x>>)
BY DEF Elems, Distinct

LEMMA CatElems ==
  ASSUME NEW r \in Seq(Items), NEW s \in Seq(Items)
  PROVE  /\ Elems(r \o s) = Elems(r) \cup Elems(s)
         /\ Distinct(r) /\ Distinct(s) /\ Apart(r, s) => Distinct(r \o s)
<1>1. /\ r \o s \in Seq(Items) /\ Len(r \o s) = Len(r) + Len(s) /\ Len(r) \in Nat /\ Len(s) \in Nat
      /\ DOMAIN (r \o s) = 1..(Len(r) + Len(s)) /\ DOMAIN r = 1..Len(r) /\ DOMAIN s = 1..Len(s)
      /\ \A i \in 1..Len(r) : (r \o s)[i] = r[i]
      /\ \A i \in (Len(r) + 1)..(Len(r) + Len(s)) : (r \o s)[i] = s[i - Len(r)]
  OBVIOUS
<1>2. ASSUME NEW i \in DOMAIN (r \o s)
      PROVE  \/ i \in DOMAIN r /\ (r \o s)[i] = r[i]
             \/ i - Len(r) \in DOMAIN s /\ (r \o s)[i] = s[i - Len(r)]
  BY <1>1
<1>3. ASSUME NEW j \in DOMAIN s
      PROVE  Len(r) + j \in DOMAIN (r \o s) /\ (r \o s)[Len(r) + j] = s[j]
  BY <1>1
<1>4. Elems(r \o s) \subseteq Elems(r) \cup Elems(s)
  BY <1>2 DEF Elems
<1>5. Elems(s) \subseteq Elems(r \o s)
  BY <1>3 DEF Elems
<1>6. Elems(r) \subseteq Elems(r \o s)
  BY <1>1 DEF Elems
<1>7. ASSUME Distinct(r), Distinct(s), Apart(r, s) PROVE Distinct(r \o s)
  <2>1. \A i \in DOMAIN r, j \in DOMAIN s : r[i] # s[j]
    BY <1>7 DEF Apart, Elems
  <2>2. SUFFICES ASSUME NEW i \in DOMAIN (r \o s), NEW j \in DOMAIN (r \o s), (r \o s)[i] = (r \o s)[j]
                 PROVE  i = j
    BY DEF Distinct
  <2>3. i \in Int /\ j \in Int /\ Len(r) \in Int
    BY <1>1
  <2>4. CASE i \in DOMAIN r /\ (r \o s)[i] = r[i]
    <3>1. j \in DOMAIN r /\ (r \o s)[j] = r[j]
      BY <1>2, <2>1, <2>2, <2>4
    <3> QED BY <1>7, <2>2, <2>4, <3>1 DEF Distinct
  <2>5. CASE i - Len(r) \in DOMAIN s /\ (r \o s)[i] = s[i - Len(r)]
    <3>1. j - Len(r) \in DOMAIN s /\ (r \o s)[j] = s[j - Len(r)]
      BY <1>2, <2>1, <2>2, <2>5
    <3>2. i - Len(r) = j - Len(r)
      BY <1>7, <2>2, <2>5, <3>1 DEF Distinct
    <3> QED BY <2>3, <3>2
  <2> QED BY <1>2, <2>4, <2>5
<1> QED BY <1>4, <1>5, <1>6, <1>7

LEMMA PushElems ==
  ASSUME NEW s \in Seq(Items), NEW x \in Items
  PROVE  /\ Append(s, x) \in Seq(Items) /\ Elems(Append(s, x)) = Elems(s) \cup {x}
         /\ Distinct(s) /\ x \notin Elems(s) => Distinct(Append(s, x))
<1>1. PICK v \in Seq(Items) : Append(s, x) = s \o v /\ Elems(v) = {x} /\ Distinct(v)
  <2>1. Append(s, x) = s \o <<x>> /\ <<x>> \in Seq(Items)
    OBVIOUS
  <2> QED BY <2>1, OneElem
<1>2. Append(s, x) \in Seq(Items)
  OBVIOUS
<1>3. x \notin Elems(s) => Apart(s, v)
  BY <1>1 DEF Apart
<1>4. /\ Elems(s \o v) = Elems(s) \cup Elems(v)
      /\ Distinct(s) /\ Distinct(v) /\ Apart(s, v) => Distinct(s \o v)
  BY CatElems
<1> QED BY <1>1, <1>2, <1>3, <1>4

\* Behind the k-th place.
LEMMA Behind ==
  ASSUME NEW n \in Nat, NEW k \in 1..n
  PROVE  /\ \A i \in 1..(n - k) : k + i \in 1..n
         /\ \A i \in 1..n : i > k => i - k \in 1..(n - k) /\ i = k + (i - k)
OBVIOUS

LEMMA SplitElems ==
  ASSUME NEW s \in Seq(Items), NEW k \in DOMAIN s, Distinct(s)
  PROVE  LET front == SubSeq(s, 1, k - 1)
             rest == SubSeq(s, k + 1, Len(s))
         IN /\ front \in Seq(Items) /\ rest \in Seq(Items)
            /\ Distinct(front) /\ Distinct(rest)
            /\ \A x \in Elems(front) : x \notin Elems(rest) /\ x # s[k]
            /\ Elems(s) = Elems(front) \cup {s[k]} \cup Elems(rest)
<1> DEFINE front == SubSeq(s, 1, k - 1)
           rest == SubSeq(s, k + 1, Len(s))
<1>1. /\ k \in 1..Len(s) /\ Len(s) \in Nat /\ DOMAIN s = 1..Len(s)
      /\ front \in Seq(Items) /\ DOMAIN front = 1..(k - 1) /\ \A i \in 1..(k - 1) : front[i] = s[i]
      /\ rest \in Seq(Items) /\ DOMAIN rest = 1..(Len(s) - k) /\ \A i \in 1..(Len(s) - k) : rest[i] = s[k + i]
  OBVIOUS
<1> HIDE DEF front, rest
<1>2. Distinct(front)
  BY <1>1 DEF Distinct
<1>3. Distinct(rest)
  <2>1. SUFFICES ASSUME NEW i \in DOMAIN rest, NEW j \in DOMAIN rest, rest[i] = rest[j] PROVE i = j
    BY DEF Distinct
  <2>2. k + i \in DOMAIN s /\ k + j \in DOMAIN s /\ i \in Int /\ j \in Int /\ k \in Int
    BY <1>1, Behind
  <2>4. s[k + i] = s[k + j]
    BY <1>1, <2>1
  <2>3. k + i = k + j
    BY <2>2, <2>4 DEF Distinct
  <2> QED BY <2>2, <2>3
<1>4. \A i \in DOMAIN front, j \in DOMAIN rest : front[i] # rest[j]
  <2>1. TAKE i \in DOMAIN front, j \in DOMAIN rest
  <2>2. i \in DOMAIN s /\ k + j \in DOMAIN s /\ i # k + j /\ front[i] = s[i] /\ rest[j] = s[k + j]
    BY <1>1
  <2> QED BY <2>2 DEF Distinct
<1>5. \A i \in DOMAIN s : \/ i \in DOMAIN front /\ front[i] = s[i]
                          \/ i = k
                          \/ i - k \in DOMAIN rest /\ rest[i - k] = s[i]
  <2>1. TAKE i \in DOMAIN s
  <2>2. CASE i > k
    <3>1. i - k \in DOMAIN rest /\ i = k + (i - k)
      BY <1>1, <2>2, Behind
    <3> QED BY <1>1, <3>1
  <2>3. CASE i < k
    BY <1>1, <2>3
  <2> QED BY <1>1, <2>2, <2>3
<1>6. Elems(s) \subseteq Elems(front) \cup {s[k]} \cup Elems(rest)
  BY <1>5 DEF Elems
<1>7. Elems(front) \cup {s[k]} \subseteq Elems(s)
  BY <1>1 DEF Elems
<1>8. Elems(rest) \subseteq Elems(s)
  <2>1. \A j \in DOMAIN rest : k + j \in DOMAIN s /\ rest[j] = s[k + j]
    BY <1>1, SMTT(30)
  <2> QED BY <2>1 DEF Elems
<1>9. \A x \in Elems(front) : x \notin Elems(rest) /\ x # s[k]
  <2>1. \A i \in DOMAIN front : i # k /\ front[i] # s[k]
    BY <1>1 DEF Distinct
  <2> QED BY <1>4, <2>1 DEF Elems
<1> QED BY <1>1, <1>2, <1>3, <1>6, <1>7, <1>8, <1>9 DEF front, rest

LEMMA TailElems ==
  ASSUME NEW s \in Seq(Items), s # <<>>, Distinct(s)
  PROVE  /\ Tail(s) \in Seq(Items) /\ Distinct(Tail(s)) /\ Head(s) \in Items
         /\ Head(s) \notin Elems(Tail(s)) /\ Elems(s) = {Head(s)} \cup Elems(Tail(s))
<1>1. /\ Len(s) \in Nat /\ DOMAIN s = 1..Len(s) /\ Len(s) > 0
      /\ Tail(s) \in Seq(Items) /\ DOMAIN Tail(s) = 1..(Len(s) - 1) /\ \A i \in 1..(Len(s) - 1) : Tail(s)[i] = s[i + 1]
      /\ Head(s) = s[1]
  OBVIOUS
<1>2. \A i \in DOMAIN Tail(s) : i + 1 \in DOMAIN s /\ Tail(s)[i] = s[i + 1] /\ i \in Int /\ i + 1 # 1
  BY <1>1
<1>3. Distinct(Tail(s))
  <2>1. SUFFICES ASSUME NEW i \in DOMAIN Tail(s), NEW j \in DOMAIN Tail(s), Tail(s)[i] = Tail(s)[j] PROVE i = j
    BY DEF Distinct
  <2>2. i + 1 = j + 1
    BY <1>2, <2>1 DEF Distinct
  <2> QED BY <1>2, <2>2
<1>4. Head(s) \notin Elems(Tail(s))
  <2>1. 1 \in DOMAIN s
    BY <1>1
  <2>2. \A i \in DOMAIN Tail(s) : Tail(s)[i] # s[1]
    BY <1>2, <2>1 DEF Distinct
  <2> QED BY <1>1, <2>2 DEF Elems
<1>5. \A i \in DOMAIN s : i = 1 \/ (i - 1 \in DOMAIN Tail(s) /\ Tail(s)[i - 1] = s[i])
  BY <1>1
<1>6. Elems(s) \subseteq {s[1]} \cup Elems(Tail(s))
  BY <1>5 DEF Elems
<1>7. {s[1]} \cup Elems(Tail(s)) \subseteq Elems(s)
  <2>1. 1 \in DOMAIN s
    BY <1>1
  <2> QED BY <1>2, <2>1 DEF Elems
<1> QED BY <1>1, <1>3, <1>4, <1>6, <1>7

-----------------------------------------------------------------------------
(* What can happen to a stock *)

LEMMA EmptyNothing == ASSUME NEW S \in Stocks, NEW f, Once(S, f) PROVE Carried(S, S, {})
BY DEF Carried

\* An item that is sent comes to one place.
LEMMA Sent ==
  ASSUME NEW S \in Stocks, NEW T \in Stocks, NEW f, Once(S, f), NEW x \in f, x \in Items,
         NEW p \in Spots, T[p] = Append(S[p], x), \A q \in Spots : q # p => T[q] = S[q]
  PROVE  Once(T, f \ {x}) /\ Carried(S, T, {})
<1>1. S[p] \in Seq(Items)
  BY DEF Stocks
<1>2. Elems(T[p]) = Elems(S[p]) \cup {x} /\ Distinct(T[p])
  BY <1>1, PushElems DEF Once
<1>3. Once(T, f \ {x})
  <2>1. \A r \in Spots : Distinct(T[r])
    BY <1>2 DEF Once
  <2>2. ASSUME NEW r \in Spots, NEW y \in Elems(T[r])
        PROVE  y \notin f \ {x} /\ \A q \in Spots : y \in Elems(T[q]) => r = q
    <3>1. CASE y = x
      BY <1>2, <2>2, <3>1 DEF Once
    <3>2. CASE y # x
      BY <1>2, <2>2, <3>2 DEF Once
    <3> QED BY <3>1, <3>2
  <2> QED BY <2>1, <2>2 DEF Once
<1>4. Carried(S, T, {})
  BY <1>2 DEF Carried
<1> QED BY <1>3, <1>4

\* All that is at one place goes to another, behind what is there.
LEMMA Moved ==
  ASSUME NEW S \in Stocks, NEW T \in Stocks, NEW f, Once(S, f),
         NEW p \in Spots, NEW q \in Spots, p # q,
         T[p] = <<>>, Joined(T[q], S[q], S[p]), \A r \in Spots : r # p /\ r # q => T[r] = S[r]
  PROVE  Once(T, f) /\ Carried(S, T, {})
<1>1. S[p] \in Seq(Items) /\ S[q] \in Seq(Items)
  BY DEF Stocks
<1>2. Elems(T[q]) = Elems(S[q]) \cup Elems(S[p]) /\ Distinct(T[q])
  <2>1. Apart(S[q], S[p]) /\ Distinct(S[q]) /\ Distinct(S[p])
    BY DEF Once, Apart
  <2> QED BY <1>1, <2>1, CatElems DEF Joined
<1>3. Elems(T[p]) = {} /\ Distinct(T[p])
  BY EmptyElems
<1>4. Once(T, f)
  BY <1>2, <1>3 DEF Once
<1>5. Carried(S, T, {})
  BY <1>2 DEF Carried
<1> QED BY <1>4, <1>5

\* All that is at two places goes to a third, where there is nothing.
LEMMA Gathered ==
  ASSUME NEW S \in Stocks, NEW T \in Stocks, NEW f, Once(S, f),
         NEW p \in Spots, NEW o \in Spots, NEW q \in Spots, p # q, o # q, p # o, S[q] = <<>>,
         T[p] = <<>>, T[o] = <<>>, Joined(T[q], S[p], S[o]),
         \A r \in Spots : r # p /\ r # o /\ r # q => T[r] = S[r]
  PROVE  Once(T, f) /\ Carried(S, T, {})
<1>1. S[p] \in Seq(Items) /\ S[o] \in Seq(Items)
  BY DEF Stocks
<1>2. Elems(T[q]) = Elems(S[p]) \cup Elems(S[o]) /\ Distinct(T[q])
  <2>1. Apart(S[p], S[o]) /\ Distinct(S[p]) /\ Distinct(S[o])
    BY DEF Once, Apart
  <2> QED BY <1>1, <2>1, CatElems DEF Joined
<1>3. Elems(T[p]) = {} /\ Distinct(T[p]) /\ Elems(T[o]) = {} /\ Distinct(T[o]) /\ Elems(S[q]) = {}
  BY EmptyElems
<1>4. Once(T, f)
  BY <1>2, <1>3 DEF Once
<1>5. Carried(S, T, {})
  BY <1>2, <1>3 DEF Carried
<1> QED BY <1>4, <1>5

\* All that is at one place is dropped.
LEMMA Dropped ==
  ASSUME NEW S \in Stocks, NEW T \in Stocks, NEW f, Once(S, f),
         NEW p \in Spots, T[p] = <<>>, \A r \in Spots : r # p => T[r] = S[r]
  PROVE  Once(T, f) /\ Carried(S, T, Elems(S[p]))
<1>1. Elems(T[p]) = {} /\ Distinct(T[p])
  BY EmptyElems
<1>2. Once(T, f)
  BY <1>1 DEF Once
<1>3. Carried(S, T, Elems(S[p]))
  BY <1>1 DEF Carried
<1> QED BY <1>2, <1>3

\* The k-th item at p is dropped, what is before it goes to h, what is behind it in front of
\* what is at q; or what is behind it is dropped, too.
Parts(S, T, p, h, q, k, front, rest) ==
  /\ p # h /\ p # q /\ h # q /\ k \in DOMAIN S[p]
  /\ front = SubSeq(S[p], 1, k - 1) /\ rest = SubSeq(S[p], k + 1, Len(S[p]))
  /\ T[p] = <<>> /\ Joined(T[h], S[h], front) /\ (T[q] = S[q] \/ Joined(T[q], rest, S[q]))
  /\ \A r \in Spots : r # p /\ r # h /\ r # q => T[r] = S[r]

LEMMA Parted ==
  ASSUME NEW S \in Stocks, NEW T \in Stocks, NEW f, Once(S, f),
         NEW p \in Spots, NEW h \in Spots, NEW q \in Spots, NEW k, NEW front, NEW rest,
         Parts(S, T, p, h, q, k, front, rest)
  PROVE  /\ Once(T, f)
         /\ Carried(S, T, Elems(S[p]))
         /\ Joined(T[q], rest, S[q]) => Carried(S, T, {S[p][k]})
<1>0. /\ p # h /\ p # q /\ h # q /\ k \in DOMAIN S[p]
      /\ front = SubSeq(S[p], 1, k - 1) /\ rest = SubSeq(S[p], k + 1, Len(S[p]))
      /\ T[p] = <<>> /\ Joined(T[h], S[h], front) /\ (T[q] = S[q] \/ Joined(T[q], rest, S[q]))
      /\ \A r \in Spots : r # p /\ r # h /\ r # q => T[r] = S[r]
  BY DEF Parts
<1>1. S[p] \in Seq(Items) /\ S[h] \in Seq(Items) /\ S[q] \in Seq(Items) /\ Distinct(S[p])
  BY DEF Stocks, Once
<1>3. /\ front \in Seq(Items) /\ rest \in Seq(Items) /\ Distinct(front) /\ Distinct(rest)
      /\ \A x \in Elems(front) : x \notin Elems(rest)
      /\ Elems(S[p]) = Elems(front) \cup {S[p][k]} \cup Elems(rest)
  BY <1>0, <1>1, SplitElems
<1>4. Elems(T[p]) = {} /\ Distinct(T[p])
  BY <1>0, EmptyElems
<1>5. Elems(T[h]) = Elems(S[h]) \cup Elems(front) /\ Distinct(T[h])
  <2>1. Apart(S[h], front) /\ Distinct(S[h]) /\ T[h] = S[h] \o front
    BY <1>0, <1>3 DEF Once, Apart, Joined
  <2>2. Elems(S[h] \o front) = Elems(S[h]) \cup Elems(front) /\ Distinct(S[h] \o front)
    BY <1>0, <1>1, <1>3, <2>1, CatElems
  <2> QED BY <1>0, <2>1, <2>2
<1>6. /\ Elems(T[q]) \subseteq Elems(rest) \cup Elems(S[q]) /\ Elems(S[q]) \subseteq Elems(T[q]) /\ Distinct(T[q])
      /\ Joined(T[q], rest, S[q]) => Elems(T[q]) = Elems(rest) \cup Elems(S[q])
  <2>1. Apart(rest, S[q]) /\ Distinct(S[q]) /\ (T[q] = S[q] \/ T[q] = rest \o S[q])
    BY <1>0, <1>3 DEF Once, Apart, Joined
  <2>2. Elems(rest \o S[q]) = Elems(rest) \cup Elems(S[q]) /\ Distinct(rest \o S[q])
    BY <1>0, <1>1, <1>3, <2>1, CatElems
  <2> QED BY <1>0, <2>1, <2>2 DEF Joined
<1>7. Once(T, f)
  <2>1. \A r \in Spots : Distinct(T[r])
    BY <1>0, <1>4, <1>5, <1>6 DEF Once
  <2>2. /\ Elems(front) \subseteq Elems(S[p]) /\ Elems(rest) \subseteq Elems(S[p])
        /\ \A r \in Spots : r \notin {p, h, q} => Elems(T[r]) = Elems(S[r])
    BY <1>0, <1>3
  <2>3. ASSUME NEW r \in Spots, NEW y \in Elems(T[r])
        PROVE  y \notin f /\ \A o \in Spots : y \in Elems(T[o]) => r = o
    <3>1. CASE y \in Elems(front)
      BY <1>0, <1>3, <1>4, <1>5, <1>6, <2>2, <2>3, <3>1, ZenonT(60) DEF Once
    <3>2. CASE y \in Elems(rest)
      BY <1>0, <1>3, <1>4, <1>5, <1>6, <2>2, <2>3, <3>2 DEF Once
    <3>3. CASE y \notin Elems(front) /\ y \notin Elems(rest)
      <4>1. \A o \in Spots : y \in Elems(T[o]) => y \in Elems(S[o])
        BY <1>0, <1>4, <1>5, <1>6, <2>2, <3>3
      <4> QED BY <1>0, <2>3, <4>1 DEF Once
    <3> QED BY <1>0, <3>1, <3>2, <3>3
  <2> QED BY <1>0, <2>1, <2>3 DEF Once
<1>8. Carried(S, T, Elems(S[p]))
  BY <1>0, <1>5, <1>6 DEF Carried
<1>9. Joined(T[q], rest, S[q]) => Carried(S, T, {S[p][k]})
  BY <1>0, <1>3, <1>5, <1>6 DEF Carried
<1> QED BY <1>0, <1>7, <1>8, <1>9

\* The first item at p goes to h, or is dropped.
LEMMA OneMoved ==
  ASSUME NEW S \in Stocks, NEW T \in Stocks, NEW f, Once(S, f),
         NEW p \in Spots, NEW h \in Spots, p # h, S[p] # <<>>, T[p] = Tail(S[p]),
         T[h] = S[h] \/ T[h] = Append(S[h], Head(S[p])),
         \A r \in Spots : r # p /\ r # h => T[r] = S[r]
  PROVE  /\ Once(T, f) /\ Carried(S, T, {Head(S[p])})
         /\ T[h] = Append(S[h], Head(S[p])) => Carried(S, T, {})
<1>1. S[p] \in Seq(Items) /\ S[h] \in Seq(Items) /\ Distinct(S[p]) /\ Distinct(S[h])
  BY DEF Stocks, Once
<1>2. PICK x : x = Head(S[p])
  OBVIOUS
<1>3. x \in Items /\ Distinct(T[p]) /\ Elems(S[p]) = {x} \cup Elems(T[p]) /\ x \notin Elems(T[p])
  BY <1>1, <1>2, TailElems
<1>4. /\ Elems(Append(S[h], x)) = Elems(S[h]) \cup {x} /\ Distinct(Append(S[h], x))
  BY <1>1, <1>3, PushElems DEF Once
<1>5. /\ Elems(T[h]) \subseteq Elems(S[h]) \cup {x} /\ Elems(S[h]) \subseteq Elems(T[h]) /\ Distinct(T[h])
      /\ T[h] = Append(S[h], x) => x \in Elems(T[h])
  BY <1>1, <1>2, <1>4
<1>6. Once(T, f)
  <2>1. \A r \in Spots : Distinct(T[r])
    BY <1>3, <1>5 DEF Once
  <2>2. ASSUME NEW r \in Spots, NEW y \in Elems(T[r])
        PROVE  y \notin f /\ \A o \in Spots : y \in Elems(T[o]) => r = o
    <3>0. x \in Elems(S[p])
      BY <1>3
    <3>1. CASE y = x
      BY <1>3, <1>5, <2>2, <3>0, <3>1 DEF Once
    <3>2. CASE y # x
      BY <1>3, <1>5, <2>2, <3>2 DEF Once
    <3> QED BY <3>1, <3>2
  <2> QED BY <2>1, <2>2 DEF Once
<1>7. Carried(S, T, {x})
  BY <1>3, <1>5 DEF Carried
<1>8. T[h] = Append(S[h], x) => Carried(S, T, {})
  BY <1>3, <1>5 DEF Carried
<1> QED BY <1>2, <1>6, <1>7, <1>8

-----------------------------------------------------------------------------
(* In whose hands *)

LEMMA IdleHands == Idle.held = <<>> /\ Idle.input = <<>> /\ ~Idle.interrupt /\ Idle.kind = "regular"
BY DEF Idle

LEMMA UnusedTurn == ASSUME Unused # {} PROVE NextTurn \in Turns /\ At(NextTurn, "none")
BY DEF NextTurn, Unused, At

LEMMA LoopHandsKept ==
  ASSUME ItemsInv, Client \/ LoopStep PROVE LoopHands' /\ TaskHands'
<1>0. /\ TypeOK /\ LoopHands /\ TaskHands /\ Emptied /\ loop \in LoopStates
      /\ task \in [Turns -> TaskStates] /\ \A t \in Turns : t # NoTurn
  BY DEF ItemsInv, IInv, Places, TypeOK, LoopStates, TaskStates, Turns, NoTurn
<1>1. ASSUME UNCHANGED task, active' = NoTurn => pending' = <<>>,
             loop' = loop \/ loop'.pc \notin {"collect", "install"}
      PROVE  TaskHands'
  BY <1>0, <1>1 DEF TaskHands, At
<1>2. ASSUME UNCHANGED <<loop, task>> PROVE LoopHands'
  BY <1>0, <1>2 DEF LoopHands, At
<1>3. ASSUME NEW i \in Inputs, UserInput(i) PROVE LoopHands' /\ TaskHands'
  <2>1. CASE active # NoTurn
    BY <1>1, <1>2, <1>3, <2>1 DEF UserInput
  <2>2. CASE active = NoTurn
    <3>1. UNCHANGED <<task, active, pending>> /\ Unused # {}
          /\ loop' = [Idle EXCEPT !.pc = "take", !.turn = NextTurn, !.input = <<i>>]
      BY <1>3, <2>2 DEF UserInput
    <3>2. /\ loop'.pc = "take" /\ loop'.held = <<>> /\ ~loop'.interrupt /\ loop'.kind = "regular"
          /\ loop'.turn = NextTurn
      BY <3>1 DEF Idle
    <3>3. LoopHands'
      BY <3>1, <3>2, UnusedTurn DEF LoopHands, BeforeSpawn, Aborting, At
    <3> QED BY <1>0, <1>1, <3>1, <3>2, <3>3 DEF TaskHands
  <2> QED BY <2>1, <2>2
<1>4. ASSUME Compact PROVE LoopHands' /\ TaskHands'
  <2>1. UNCHANGED <<task, active, pending>> /\ Unused # {}
        /\ loop' = [Idle EXCEPT !.pc = "take", !.turn = NextTurn, !.kind = "compact"]
    BY <1>4 DEF Compact, turnVars
  <2>2. loop'.pc = "take" /\ loop'.held = <<>> /\ loop'.input = <<>> /\ loop'.turn = NextTurn
    BY <2>1 DEF Idle
  <2>3. LoopHands'
    BY <2>1, <2>2, UnusedTurn DEF LoopHands, BeforeSpawn, Aborting, At
  <2> QED BY <1>0, <1>1, <2>1, <2>2, <2>3 DEF TaskHands
<1>5. ASSUME loop'.pc \in {"idle", "wake", "ensure"}, loop'.held = <<>>, loop'.input = <<>>
      PROVE  LoopHands'
  BY <1>5 DEF LoopHands, BeforeSpawn, Aborting
<1>6. ASSUME NEW m \in Mails, AgentMail(m) PROVE LoopHands' /\ TaskHands'
  <2>1. UNCHANGED <<task, active, pending>> /\ loop.pc = "idle"
        /\ (loop' = [Idle EXCEPT !.pc = "wake"] \/ loop' = loop)
    BY <1>6 DEF AgentMail, turnVars
  <2>2. CASE loop' = [Idle EXCEPT !.pc = "wake"]
    <3>1. loop'.pc = "wake" /\ loop'.held = <<>> /\ loop'.input = <<>>
      BY <2>2 DEF Idle
    <3> QED BY <1>0, <1>1, <1>5, <2>1, <3>1 DEF TaskHands
  <2>3. CASE loop' = loop
    BY <1>0, <1>1, <1>2, <2>1, <2>3 DEF TaskHands
  <2> QED BY <2>1, <2>2, <2>3
<1>7. ASSUME Interrupt PROVE LoopHands' /\ TaskHands'
  <2>1. UNCHANGED <<task, active, pending>> /\ loop' = [Idle EXCEPT !.pc = "take", !.interrupt = TRUE]
    BY <1>7 DEF Interrupt, turnVars
  <2>2. loop'.pc = "take" /\ loop'.held = <<>> /\ loop'.input = <<>> /\ loop'.interrupt
    BY <2>1 DEF Idle
  <2>3. LoopHands'
    BY <2>2 DEF LoopHands, BeforeSpawn, Aborting
  <2> QED BY <1>0, <1>1, <2>1, <2>2, <2>3 DEF TaskHands
<1>8. ASSUME NEW t \in Turns, Answer(t) PROVE LoopHands' /\ TaskHands'
  <2>1. UNCHANGED <<loop, active, pending>> /\ loop.pc = "idle"
    BY <1>8 DEF Answer
  <2>2. CASE At(t, "asking")
    <3>1. /\ task'[t].pc = "sample" /\ task'[t].held = task[t].held
          /\ \A u \in Turns \ {t} : task'[u] = task[u]
      BY <1>0, <1>8, <2>2, Moves DEF Answer, TaskPlaces
    <3>2. LoopHands'
      BY <1>0, <2>1 DEF LoopHands, BeforeSpawn, Aborting
    <3> QED BY <1>0, <2>1, <2>2, <3>1, <3>2 DEF TaskHands, At
  <2>3. CASE ~At(t, "asking")
    BY <1>0, <1>1, <1>2, <1>8, <2>1, <2>3 DEF Answer, TaskHands
  <2> QED BY <2>2, <2>3
<1>9. ASSUME TakeActive PROVE LoopHands' /\ TaskHands'
  <2>1. loop.pc = "take" /\ UNCHANGED task /\ pending' = <<>>
    BY <1>9 DEF TakeActive
  <2>2. loop.held = <<>> /\ (loop.interrupt \/ loop.kind = "compact" => loop.input = <<>>)
        /\ (~loop.interrupt => loop.turn \in Turns /\ At(loop.turn, "none"))
    BY <1>0, <2>1 DEF LoopHands, BeforeSpawn, Aborting
  <2>3. CASE active = NoTurn
    <3>1. /\ loop'.pc = IF loop.interrupt THEN "wake" ELSE "spawn"
          /\ loop'.interrupt = loop.interrupt /\ loop'.kind = loop.kind /\ loop'.turn = loop.turn
          /\ loop'.input = loop.input /\ loop'.held = loop.held
      BY <1>0, <1>9, <2>3 DEF TakeActive, LoopStates
    <3> QED BY <1>1, <2>1, <2>2, <3>1 DEF LoopHands, BeforeSpawn, Aborting, At
  <2>4. CASE active # NoTurn
    <3>1. /\ loop'.pc = "cancel" /\ loop'.victim = active /\ active \in Turns
          /\ loop'.interrupt = loop.interrupt /\ loop'.kind = loop.kind /\ loop'.turn = loop.turn
          /\ loop'.input = loop.input
      BY <1>0, <1>9, <2>4 DEF TakeActive, LoopStates, TypeOK
    <3> QED BY <1>1, <2>1, <2>2, <3>1 DEF LoopHands, BeforeSpawn, Aborting, At
  <2> QED BY <2>3, <2>4
<1>10. ASSUME Cancel \/ Abort PROVE LoopHands' /\ TaskHands'
  <2>1. /\ loop.pc \in {"cancel", "wait"} /\ UNCHANGED <<task, active, pending>>
        /\ loop' = [loop EXCEPT !.pc = "wait"] \/ loop' = [loop EXCEPT !.pc = "clear"]
    BY <1>10 DEF Cancel, Abort, turnVars
  <2>2. /\ loop'.pc \in {"wait", "clear"} /\ loop'.victim = loop.victim
        /\ loop'.interrupt = loop.interrupt /\ loop'.kind = loop.kind /\ loop'.turn = loop.turn
        /\ loop'.input = loop.input
    BY <1>0, <2>1 DEF LoopStates
  <2>3. LoopHands'
    BY <1>0, <2>1, <2>2 DEF LoopHands, BeforeSpawn, Aborting, At
  <2> QED BY <1>0, <1>1, <2>1, <2>2, <2>3 DEF TaskHands
<1>11. ASSUME ClearPending PROVE LoopHands' /\ TaskHands'
  <2>1. loop.pc = "clear" /\ UNCHANGED <<task, active, pending>>
    BY <1>11 DEF ClearPending, turnVars
  <2>2. CASE loop.interrupt
    <3>1. loop'.pc = "wake" /\ loop'.held = <<>> /\ loop'.input = <<>>
      BY <1>11, <2>2 DEF ClearPending, Idle
    <3> QED BY <1>0, <1>1, <1>5, <2>1, <3>1 DEF TaskHands
  <2>3. CASE ~loop.interrupt
    <3>1. /\ loop'.pc = "spawn" /\ loop'.held = <<>> /\ ~loop'.interrupt /\ loop'.kind = loop.kind
          /\ loop'.turn = loop.turn /\ loop'.input = loop.input
      BY <1>0, <1>11, <2>3 DEF ClearPending, LoopStates
    <3>2. LoopHands'
      BY <1>0, <2>1, <2>3, <3>1 DEF LoopHands, BeforeSpawn, Aborting, At
    <3> QED BY <1>0, <1>1, <2>1, <3>1, <3>2 DEF TaskHands
  <2> QED BY <2>2, <2>3
<1>12. ASSUME LookForMail PROVE LoopHands' /\ TaskHands'
  <2>1. UNCHANGED <<task, active, pending>> /\ loop' \in {[Idle EXCEPT !.pc = "ensure"], Idle}
    BY <1>12 DEF LookForMail, turnVars
  <2>2. loop'.pc \in {"idle", "ensure"} /\ loop'.held = <<>> /\ loop'.input = <<>>
    BY <2>1 DEF Idle
  <2> QED BY <1>0, <1>1, <1>5, <2>1, <2>2 DEF TaskHands
<1>13. ASSUME EnsureTask PROVE LoopHands' /\ TaskHands'
  <2>1. UNCHANGED <<task, active, pending>>
    BY <1>13 DEF EnsureTask, turnVars
  <2>2. CASE loop' = Idle
    BY <1>0, <1>1, <1>5, <2>1, <2>2, IdleHands, IdleType DEF TaskHands
  <2>3. CASE Unused # {} /\ loop' = [Idle EXCEPT !.pc = "spawn", !.turn = NextTurn]
    <3>1. loop'.pc = "spawn" /\ loop'.held = <<>> /\ loop'.input = <<>> /\ ~loop'.interrupt /\ loop'.turn = NextTurn
      BY <2>3 DEF Idle
    <3>2. LoopHands'
      BY <2>1, <2>3, <3>1, UnusedTurn DEF LoopHands, BeforeSpawn, Aborting, At
    <3> QED BY <1>0, <1>1, <2>1, <3>1, <3>2 DEF TaskHands
  <2> QED BY <1>13, <2>2, <2>3 DEF EnsureTask
<1>14. ASSUME Spawn PROVE LoopHands' /\ TaskHands'
  <2>1. /\ loop.pc = "spawn" /\ UNCHANGED <<active, pending>> /\ ~loop.interrupt /\ loop.turn \in Turns
        /\ loop.held = <<>> /\ (loop.kind = "compact" => loop.input = <<>>)
    BY <1>0, <1>14 DEF Spawn, turnVars, LoopHands, BeforeSpawn, Aborting
  <2>2. loop'.pc = "collect" /\ loop'.turn = loop.turn /\ loop'.held = <<>> /\ loop'.input = <<>>
    BY <1>0, <1>14, <2>1 DEF Spawn, LoopStates
  <2>3. /\ task'[loop.turn] = [pc |-> "enter", kind |-> loop.kind, held |-> loop.input]
        /\ \A u \in Turns \ {loop.turn} : task'[u] = task[u]
    BY <1>0, <1>14, <2>1 DEF Spawn
  <2>4. LoopHands'
    BY <2>1, <2>2 DEF LoopHands, BeforeSpawn, Aborting
  <2> QED BY <1>0, <2>1, <2>2, <2>3, <2>4 DEF TaskHands, At
<1>15. ASSUME Collect PROVE LoopHands' /\ TaskHands'
  <2>1. loop.pc = "collect" /\ UNCHANGED task /\ pending' = <<>>
    BY <1>15 DEF Collect
  <2>2. loop'.pc = "install" /\ loop'.turn = loop.turn /\ loop'.input = loop.input
    BY <1>0, <1>15 DEF Collect, LoopStates
  <2>3. LoopHands'
    BY <1>0, <2>1, <2>2 DEF LoopHands, BeforeSpawn, Aborting
  <2> QED BY <1>0, <2>1, <2>2, <2>3 DEF TaskHands, At
<1>16. ASSUME Install PROVE LoopHands' /\ TaskHands'
  <2>1. loop.pc = "install" /\ UNCHANGED task /\ active' = loop.turn /\ loop' = Idle
    BY <1>16 DEF Install
  <2>2. active' # NoTurn
    BY <1>0, <2>1 DEF LoopHands
  <2> QED BY <1>1, <1>5, <2>1, <2>2, IdleHands, IdleType
<1>17. ASSUME NEW i \in Inputs, Steer(i) PROVE LoopHands' /\ TaskHands'
  BY <1>1, <1>2, <1>17 DEF Steer
<1>18. ASSUME NEW n \in Notes, Inject(n) PROVE LoopHands' /\ TaskHands'
  <2>1. UNCHANGED <<loop, task, active>> /\ (active = NoTurn => pending' = pending)
    BY <1>18 DEF Inject
  <2> QED BY <1>0, <1>1, <1>2, <2>1 DEF TaskHands
<1> QED BY <1>3, <1>4, <1>6, <1>7, <1>8, <1>9, <1>10, <1>11, <1>12, <1>13, <1>14, <1>15, <1>16, <1>17,
           <1>18 DEF Client, LoopStep

LEMMA TaskHandsKept ==
  ASSUME ItemsInv, NEW t \in Turns, TaskStep(t) PROVE LoopHands' /\ TaskHands'
<1>0. /\ TypeOK /\ LoopHands /\ TaskHands /\ Emptied /\ WorksThere /\ IInv
      /\ task \in [Turns -> TaskStates] /\ pending \in Seq(Items) /\ mailbox \in Seq(Mails)
      /\ <<>> \in Seq(Items) /\ <<>> \in Seq(Mails)
  BY ItemSeqs DEF ItemsInv, IInv, Places, TypeOK, TaskStates
<1>1. UNCHANGED loop /\ \A u \in Turns \ {t} : task'[u] = task[u]
  BY <1>0, TaskEffect
<1>2. task[t].pc # "none"
  BY DEF TaskStep, Enter, GiveUp, Drain, Inspect, Sampled, FollowUp, Ask, StopAsking, Check, RunCompact, Flush,
         Finish, RecordLeftover, Complete, Die, At
<1>3. LoopHands'
  BY <1>0, <1>1, <1>2 DEF LoopHands, At
<1> DEFINE HandsOK == /\ task'[t].pc \notin {"enter", "inspect", "complete"} => task'[t].held = <<>>
                      /\ task'[t].kind = "compact" /\ task'[t].pc = "enter" => task'[t].held = <<>>
                      /\ task'[t].pc # "inspect"
<1>4. ASSUME HandsOK, active' = NoTurn => pending' = <<>> PROVE TaskHands'
  BY <1>0, <1>1, <1>4 DEF TaskHands, LoopHands, At
<1> HIDE DEF HandsOK
<1>5. ASSUME NEW pc \in TaskPlaces \ {"inspect"}, Goto(t, pc), task[t].held = <<>> PROVE HandsOK
  BY <1>0, <1>5, Moves DEF HandsOK
<1>6. ASSUME NEW pc \in TaskPlaces \ {"inspect"}, GotoHolding(t, pc, <<>>) PROVE HandsOK
  BY <1>0, <1>6, MovesHolding DEF HandsOK
<1>7. CASE Enter(t)
  <2>1. UNCHANGED <<active, pending>>
    BY <1>7 DEF Enter, turnVars
  <2>2. CASE task[t].held = <<>> /\ Goto(t, IF HasPending THEN "drain" ELSE "check")
    <3>1. PICK pc \in {"drain", "check"} : Goto(t, pc)
      BY <2>2
    <3> QED BY <1>0, <1>3, <1>4, <1>5, <2>1, <2>2, <3>1 DEF TaskPlaces, TaskHands
  <2>3. CASE GotoHolding(t, "drain", <<>>)
    BY <1>0, <1>3, <1>4, <1>6, <2>1, <2>3 DEF TaskPlaces, TaskHands
  <2> QED BY <1>7, <2>2, <2>3 DEF Enter
<1>8. CASE GiveUp(t) \/ Die(t)
  <2>1. PICK pc \in {"check", "dead"} : GotoHolding(t, pc, <<>>)
    BY <1>8 DEF GiveUp, Die
  <2>2. UNCHANGED <<active, pending>>
    BY <1>8 DEF GiveUp, Die, turnVars
  <2> QED BY <1>0, <1>3, <1>4, <1>6, <2>1, <2>2 DEF TaskPlaces, TaskHands
<1>9. CASE Drain(t)
  <2>1. PICK all \in Seq(Items) : all = pending \o mailbox
    BY <1>0, ItemSeqs
  <2>2. task'[t].pc = "inspect" /\ task'[t].held = all
    BY <1>0, <1>9, <2>1, MovesHolding DEF Drain, TaskPlaces
  <2>3. pending' = <<>> /\ active' = active
    BY <1>9 DEF Drain
  <2>4. ASSUME active = NoTurn PROVE all \in Seq(Mails)
    <3>1. all = mailbox
      BY <1>0, <2>1, <2>4 DEF TaskHands
    <3> QED BY <1>0, <3>1
  <2>5. ASSUME loop.pc \in {"collect", "install"} PROVE active = NoTurn
    BY <1>0, <2>5 DEF Emptied
  <2> QED BY <1>0, <1>1, <1>3, <2>2, <2>3, <2>4, <2>5 DEF TaskHands, LoopHands, At
<1>10. CASE Inspect(t)
  <2>1. PICK pc \in {"sample", "drain", "check"} : GotoHolding(t, pc, <<>>)
    BY <1>10 DEF Inspect
  <2>2. active' = active /\ (active = NoTurn => pending' = pending)
    BY <1>10 DEF Inspect
  <2> QED BY <1>0, <1>3, <1>4, <1>6, <2>1, <2>2 DEF TaskPlaces, TaskHands
<1>11. CASE Sampled(t) \/ FollowUp(t) \/ StopAsking(t) \/ Check(t) \/ RunCompact(t) \/ Flush(t) \/ Complete(t)
  <2>1. PICK pc \in {"drain", "check", "enter", "flush", "done", "finish"} : Goto(t, pc)
    BY <1>11 DEF Sampled, FollowUp, StopAsking, Check, RunCompact, Flush, Complete
  <2>2. task[t].held = <<>>
    BY <1>0, <1>11 DEF Sampled, FollowUp, StopAsking, Check, RunCompact, Flush, Complete, TaskHands, At
  <2>3. UNCHANGED <<active, pending>>
    BY <1>11 DEF Sampled, FollowUp, StopAsking, Check, RunCompact, Flush, Complete, turnVars
  <2> QED BY <1>0, <1>3, <1>4, <1>5, <2>1, <2>2, <2>3 DEF TaskPlaces, TaskHands
<1>12. CASE Ask(t)
  <2>1. UNCHANGED <<active, pending>> /\ task[t].held = <<>> /\ task[t].pc = "sample"
    BY <1>0, <1>12 DEF Ask, TaskHands, At
  <2>2. CASE active # NoTurn
    BY <1>0, <1>3, <1>4, <1>5, <1>12, <2>1, <2>2 DEF Ask, TaskPlaces, TaskHands
  <2>3. CASE active = NoTurn
    BY <1>0, <1>3, <1>4, <1>12, <2>1, <2>3 DEF Ask, TaskHands, HandsOK
  <2> QED BY <2>2, <2>3
<1>13. CASE Finish(t)
  <2>1. task[t].held = <<>>
    BY <1>0, <1>13 DEF Finish, TaskHands, At
  <2>2. CASE active = t
    <3>1. task'[t].pc = "complete" /\ pending' = <<>>
      BY <1>0, <1>13, <2>2, MovesHolding DEF Finish, TaskPlaces
    <3> QED BY <1>3, <1>4, <3>1 DEF HandsOK
  <2>3. CASE active # t
    BY <1>0, <1>3, <1>4, <1>5, <1>13, <2>1, <2>3 DEF Finish, TaskPlaces, TaskHands, turnVars
  <2> QED BY <2>2, <2>3
<1>14. CASE RecordLeftover(t)
  <2>1. Tail(task[t].held) \in Seq(Items)
    BY <1>0, <1>14 DEF RecordLeftover, TaskStates
  <2>2. task'[t].pc = "complete" /\ UNCHANGED <<active, pending>>
    BY <1>0, <1>14, <2>1, MovesHolding DEF RecordLeftover, TaskPlaces, turnVars
  <2> QED BY <1>0, <1>3, <1>4, <2>2 DEF HandsOK, TaskHands
<1> QED BY <1>7, <1>8, <1>9, <1>10, <1>11, <1>12, <1>13, <1>14 DEF TaskStep

-----------------------------------------------------------------------------
(* The stock through every step *)

LEMMA SpotFacts ==
  /\ AtPending \in Spots /\ AtMailbox \in Spots /\ AtInput \in Spots /\ AtHeld \in Spots /\ AtHistory \in Spots
  /\ Turns \subseteq Spots
  /\ \A p \in Spots : p \in Turns \cup {AtPending, AtMailbox, AtInput, AtHeld, AtHistory}
  /\ \A t \in Turns : t \notin {AtPending, AtMailbox, AtInput, AtHeld, AtHistory}
  /\ AtPending # AtMailbox /\ AtPending # AtInput /\ AtPending # AtHeld /\ AtPending # AtHistory
  /\ AtMailbox # AtInput /\ AtMailbox # AtHeld /\ AtMailbox # AtHistory
  /\ AtInput # AtHeld /\ AtInput # AtHistory /\ AtHeld # AtHistory
BY BoundsAssumption DEF AtPending, AtMailbox, AtInput, AtHeld, AtHistory, Spots, Turns

\* The stock read as the variables.
StockRead ==
  /\ Stock \in Stocks
  /\ Stock[AtPending] = pending /\ Stock[AtMailbox] = mailbox /\ Stock[AtInput] = loop.input
  /\ Stock[AtHeld] = loop.held /\ Stock[AtHistory] = history
  /\ \A t \in Turns : Stock[t] = task[t].held

LEMMA StockIs == ASSUME TypeOK, history \in Seq(Items) PROVE StockRead
<1>1. /\ pending \in Seq(Items) /\ mailbox \in Seq(Items) /\ loop.input \in Seq(Items) /\ loop.held \in Seq(Items)
      /\ \A t \in Turns : task[t].held \in Seq(Items)
  BY ItemSeqs DEF TypeOK
<1>2. /\ \A t \in Turns : Stock[t] = task[t].held
      /\ Stock[AtPending] = pending /\ Stock[AtMailbox] = mailbox /\ Stock[AtInput] = loop.input
      /\ Stock[AtHeld] = loop.held /\ Stock[AtHistory] = history
  BY SpotFacts DEF Stock
<1>3. \A p \in Spots : Stock[p] \in Seq(Items)
  BY <1>1, <1>2, SpotFacts
<1>4. Stock = [p \in Spots |-> Stock[p]]
  BY DEF Stock
<1>5. Stock \in Stocks
  BY <1>3, <1>4 DEF Stocks
<1> QED BY <1>2, <1>5 DEF StockRead

LEMMA StockIsNext == ASSUME TypeOK', history' \in Seq(Items) PROVE StockRead'
<1>1. /\ pending' \in Seq(Items) /\ mailbox' \in Seq(Items) /\ loop'.input \in Seq(Items) /\ loop'.held \in Seq(Items)
      /\ \A t \in Turns : task'[t].held \in Seq(Items)
  BY ItemSeqs DEF TypeOK
<1>2. /\ \A t \in Turns : Stock'[t] = task'[t].held
      /\ Stock'[AtPending] = pending' /\ Stock'[AtMailbox] = mailbox' /\ Stock'[AtInput] = loop'.input
      /\ Stock'[AtHeld] = loop'.held /\ Stock'[AtHistory] = history'
  BY SpotFacts DEF Stock
<1>3. \A p \in Spots : Stock'[p] \in Seq(Items)
  BY <1>1, <1>2, SpotFacts
<1>4. Stock' = [p \in Spots |-> Stock'[p]]
  BY DEF Stock
<1>5. Stock' \in Stocks
  BY <1>3, <1>4 DEF Stocks
<1> QED BY <1>2, <1>5 DEF StockRead

\* What a step does to the stock: nothing is lost but what is in lost.
Outcome(lost) == StockOK' /\ Carried(Stock, Stock', lost)

LEMMA SameStock ==
  ASSUME ItemsInv, TypeOK', UNCHANGED <<pending, mailbox, history>>, loop'.input = loop.input, loop'.held = loop.held,
         \A t \in Turns : task'[t].held = task[t].held, fresh' \subseteq fresh
  PROVE  Outcome({})
<1>1. /\ StockRead /\ StockRead' /\ Once(Stock, fresh) /\ history' \in Seq(Items)
  BY StockIs, StockIsNext DEF ItemsInv, IInv, StockOK
<1>2. \A p \in Spots : Stock'[p] = Stock[p]
  BY <1>1, SpotFacts DEF StockRead
<1>3. Once(Stock', fresh')
  BY <1>1, <1>2 DEF Once
<1>4. Carried(Stock, Stock', {})
  BY <1>2 DEF Carried
<1> QED BY <1>1, <1>3, <1>4 DEF Outcome, StockOK

LEMMA MoreLost == ASSUME NEW a, NEW b, a \subseteq b, Outcome(a) PROVE Outcome(b)
BY DEF Outcome, Carried

LEMMA DoomedHands ==
  /\ loop.victim # NoTurn => Elems(loop.held) \subseteq OfDoomed
  /\ \A t \in Doomed : Elems(task[t].held) \subseteq OfDoomed
<1> DEFINE inTasks == UNION {Elems(task[t].held) : t \in Doomed}
           inLoop == IF loop.victim # NoTurn THEN Elems(loop.held) ELSE {}
<1>1. OfDoomed = inTasks \cup inLoop
  BY DEF OfDoomed
<1>2. ASSUME NEW t \in Doomed PROVE Elems(task[t].held) \subseteq inTasks
  <2>1. SUFFICES ASSUME NEW x \in Elems(task[t].held) PROVE x \in inTasks
    OBVIOUS
  <2> QED BY <2>1
<1>3. loop.victim # NoTurn => inLoop = Elems(loop.held)
  OBVIOUS
<1> HIDE DEF inTasks, inLoop
<1> QED BY <1>1, <1>2, <1>3

LEMMA LoopStock ==
  ASSUME ItemsInv, TypeOK', Client \/ LoopStep PROVE Outcome(OfDoomed \cup refused')
<1>0. /\ TypeOK /\ LoopHands /\ TaskHands /\ Emptied /\ loop \in LoopStates
      /\ task \in [Turns -> TaskStates] /\ pending \in Seq(Items) /\ mailbox \in Seq(Mails) /\ history \in Seq(Items)
      /\ fresh \subseteq Items /\ StockRead /\ Stock \in Stocks /\ Once(Stock, fresh)
  BY StockIs DEF ItemsInv, IInv, Places, TypeOK, LoopStates, TaskStates, StockOK, StockRead
<1> DEFINE Good == Outcome(OfDoomed \cup refused')
<1>1. ASSUME NEW lost, lost \subseteq OfDoomed \cup refused', history' \in Seq(Items),
             Once(Stock', fresh'), Carried(Stock, Stock', lost)
      PROVE  Good
  BY <1>1, MoreLost DEF Outcome, StockOK
<1>2. ASSUME UNCHANGED <<pending, mailbox, history>>, loop'.input = loop.input, loop'.held = loop.held,
             \A t \in Turns : task'[t].held = task[t].held, fresh' \subseteq fresh
      PROVE  Good
  BY <1>2, SameStock, MoreLost
<1>3. ASSUME history' \in Seq(Items) PROVE StockRead' /\ Stock' \in Stocks
  BY <1>3, StockIsNext DEF StockRead
<1> HIDE DEF Good
<1>4. ASSUME NEW i \in fresh, fresh' = fresh \ {i}, UNCHANGED <<mailbox, loop, task, history>>,
             pending' = Append(pending, i)
      PROVE  Good
  <2>1. StockRead' /\ Stock' \in Stocks
    BY <1>0, <1>3, <1>4
  <2>2. Stock'[AtPending] = Append(Stock[AtPending], i) /\ \A q \in Spots : q # AtPending => Stock'[q] = Stock[q]
    BY <1>0, <1>4, <2>1, SpotFacts DEF StockRead
  <2>3. Once(Stock', fresh \ {i}) /\ Carried(Stock, Stock', {})
    BY <1>0, <2>1, <2>2, Sent, SpotFacts
  <2> QED BY <1>0, <1>1, <1>4, <2>3
<1>5. ASSUME NEW i \in Inputs, UserInput(i) PROVE Good
  <2>1. i \in fresh /\ fresh' = fresh \ {i} /\ UNCHANGED <<mailbox, task, history>> /\ loop.pc = "idle"
    BY <1>5 DEF UserInput
  <2>2. CASE active # NoTurn /\ pending' = Append(pending, i) /\ loop' = loop
    BY <1>4, <2>1, <2>2
  <2>3. CASE UNCHANGED <<loop, pending>>
    BY <1>2, <2>1, <2>3
  <2>4. CASE pending' = pending /\ loop' = [Idle EXCEPT !.pc = "take", !.turn = NextTurn, !.input = <<i>>]
    <3>1. loop'.input = <<i>> /\ loop'.held = <<>> /\ loop.input = <<>> /\ loop.held = <<>>
      BY <1>0, <2>1, <2>4 DEF Idle, LoopHands, BeforeSpawn, Aborting
    <3>2. StockRead' /\ Stock' \in Stocks
      BY <1>0, <1>3, <2>1
    <3>3. Append(loop.input, i) = <<i>>
      BY <3>1
    <3>4. Stock'[AtInput] = Append(Stock[AtInput], i) /\ \A q \in Spots : q # AtInput => Stock'[q] = Stock[q]
      BY <1>0, <2>1, <2>4, <3>1, <3>2, <3>3, SpotFacts DEF StockRead
    <3>5. Once(Stock', fresh \ {i}) /\ Carried(Stock, Stock', {})
      BY <1>0, <2>1, <3>2, <3>4, Sent, SpotFacts
    <3> QED BY <1>0, <1>1, <2>1, <3>5
  <2> QED BY <1>5, <2>2, <2>3, <2>4 DEF UserInput, Push
<1>6. ASSUME Compact \/ Interrupt PROVE Good
  <2>1. /\ UNCHANGED <<pending, mailbox, history, task, fresh>> /\ loop.pc = "idle"
        /\ loop'.input = <<>> /\ loop'.held = <<>>
    BY <1>6 DEF Compact, Interrupt, turnVars, outVars, Idle
  <2>2. loop.input = <<>> /\ loop.held = <<>>
    BY <1>0, <2>1 DEF LoopHands, BeforeSpawn, Aborting
  <2> QED BY <1>2, <2>1, <2>2
<1>7. ASSUME NEW m \in Mails, AgentMail(m) PROVE Good
  <2>1. /\ m \in fresh /\ fresh' = fresh \ {m} /\ UNCHANGED <<pending, task, history>> /\ loop.pc = "idle"
        /\ mailbox' = Append(mailbox, m)
    BY <1>7 DEF AgentMail, turnVars, outVars
  <2>2. loop'.input = loop.input /\ loop'.held = loop.held
    <3>1. loop.input = <<>> /\ loop.held = <<>>
      BY <1>0, <2>1 DEF LoopHands, BeforeSpawn, Aborting
    <3> QED BY <1>7, <3>1 DEF AgentMail, Idle
  <2>3. StockRead' /\ Stock' \in Stocks
    BY <1>0, <1>3, <2>1
  <2>4. Stock'[AtMailbox] = Append(Stock[AtMailbox], m) /\ \A q \in Spots : q # AtMailbox => Stock'[q] = Stock[q]
    BY <1>0, <2>1, <2>2, <2>3, SpotFacts DEF StockRead
  <2>5. Once(Stock', fresh \ {m}) /\ Carried(Stock, Stock', {})
    BY <1>0, <2>1, <2>3, <2>4, Sent, SpotFacts
  <2> QED BY <1>0, <1>1, <2>1, <2>5
<1>8. ASSUME NEW t \in Turns, Answer(t) PROVE Good
  <2>1. UNCHANGED <<pending, mailbox, loop, fresh, history>>
    BY <1>8 DEF Answer, outVars
  <2>2. \A u \in Turns : task'[u].held = task[u].held
    BY <1>0, <1>8, Moves DEF Answer, TaskPlaces
  <2> QED BY <1>2, <2>1, <2>2
<1>9. ASSUME TakeActive PROVE Good
  <2>1. /\ UNCHANGED <<mailbox, task, fresh, history>> /\ loop.pc = "take" /\ pending' = <<>>
        /\ loop.held = <<>>
    BY <1>0, <1>9 DEF TakeActive, outVars, LoopHands, Aborting
  <2>2. CASE active = NoTurn
    <3>1. pending = <<>> /\ loop'.input = loop.input /\ loop'.held = loop.held
      BY <1>0, <1>9, <2>2 DEF TakeActive, LoopStates, TaskHands
    <3> QED BY <1>2, <2>1, <3>1
  <2>3. CASE active # NoTurn
    <3>1. loop'.input = loop.input /\ loop'.held = pending
      BY <1>0, <1>9, <2>3 DEF TakeActive, LoopStates
    <3>2. StockRead' /\ Stock' \in Stocks
      BY <1>0, <1>3, <2>1
    <3>3. <<>> \o pending = pending
      BY <1>0
    <3>4. /\ Stock'[AtPending] = <<>> /\ Joined(Stock'[AtHeld], Stock[AtHeld], Stock[AtPending])
          /\ \A q \in Spots : q # AtPending /\ q # AtHeld => Stock'[q] = Stock[q]
      BY <1>0, <2>1, <3>1, <3>2, <3>3, SpotFacts DEF StockRead, Joined
    <3>5. Once(Stock', fresh) /\ Carried(Stock, Stock', {})
      BY <1>0, <3>2, <3>4, Moved, SpotFacts
    <3> QED BY <1>0, <1>1, <2>1, <3>5
  <2> QED BY <2>2, <2>3
<1>10. ASSUME Cancel \/ Abort PROVE Good
  <2>1. UNCHANGED <<pending, mailbox, task, fresh, history>>
    BY <1>10 DEF Cancel, Abort, turnVars, outVars
  <2>2. loop'.input = loop.input /\ loop'.held = loop.held
    BY <1>0, <1>10 DEF Cancel, Abort, LoopStates
  <2> QED BY <1>2, <2>1, <2>2
<1>11. ASSUME ClearPending PROVE Good
  <2>1. UNCHANGED <<pending, mailbox, task, fresh, history>> /\ loop.pc = "clear"
    BY <1>11 DEF ClearPending, turnVars, outVars
  <2>2. loop'.held = <<>> /\ loop'.input = loop.input
    <3>1. CASE loop.interrupt
      BY <1>0, <1>11, <3>1 DEF ClearPending, Idle, LoopHands
    <3>2. CASE ~loop.interrupt
      BY <1>0, <1>11, <3>2 DEF ClearPending, LoopStates
    <3> QED BY <3>1, <3>2
  <2>3. Elems(loop.held) \subseteq OfDoomed
    <3>1. loop.victim # NoTurn
      BY <1>0, <2>1 DEF LoopHands, Aborting, Turns, NoTurn
    <3> QED BY <3>1, DoomedHands
  <2>4. StockRead' /\ Stock' \in Stocks
    BY <1>0, <1>3, <2>1
  <2>5. Stock'[AtHeld] = <<>> /\ \A q \in Spots : q # AtHeld => Stock'[q] = Stock[q]
    BY <1>0, <2>1, <2>2, <2>4, SpotFacts DEF StockRead
  <2>6. Once(Stock', fresh) /\ Carried(Stock, Stock', Elems(loop.held))
    BY <1>0, <2>4, <2>5, Dropped, SpotFacts DEF StockRead
  <2> QED BY <1>0, <1>1, <2>1, <2>3, <2>6
<1>12. ASSUME LookForMail \/ EnsureTask PROVE Good
  <2>1. UNCHANGED <<pending, mailbox, task, fresh, history>> /\ loop.pc \in {"wake", "ensure"}
    BY <1>12 DEF LookForMail, EnsureTask, turnVars, outVars
  <2>2. loop'.input = <<>> /\ loop'.held = <<>>
    <3>1. \/ loop' \in {Idle, [Idle EXCEPT !.pc = "ensure"]}
          \/ loop' = [Idle EXCEPT !.pc = "spawn", !.turn = NextTurn]
      BY <1>12 DEF LookForMail, EnsureTask
    <3>2. CASE loop' = Idle
      BY <3>2, IdleHands
    <3>3. CASE loop' = [Idle EXCEPT !.pc = "ensure"]
      BY <3>3 DEF Idle
    <3>4. CASE loop' = [Idle EXCEPT !.pc = "spawn", !.turn = NextTurn]
      BY <3>4 DEF Idle
    <3> QED BY <3>1, <3>2, <3>3, <3>4
  <2>3. loop.input = <<>> /\ loop.held = <<>>
    BY <1>0, <2>1 DEF LoopHands, BeforeSpawn, Aborting
  <2> QED BY <1>2, <2>1, <2>2, <2>3
<1>13. ASSUME Spawn PROVE Good
  <2>1. /\ UNCHANGED <<pending, mailbox, fresh, history>> /\ loop.pc = "spawn" /\ loop.turn \in Turns
        /\ At(loop.turn, "none")
    BY <1>0, <1>13 DEF Spawn, turnVars, outVars, LoopHands, BeforeSpawn
  <2>2. loop'.input = <<>> /\ loop'.held = loop.held
    BY <1>0, <1>13 DEF Spawn, LoopStates
  <2>3. task[loop.turn].held = <<>>
    BY <1>0, <2>1 DEF TaskHands, At
  <2>4. task'[loop.turn].held = loop.input /\ \A u \in Turns \ {loop.turn} : task'[u] = task[u]
    BY <1>0, <1>13, <2>1 DEF Spawn
  <2>5. StockRead' /\ Stock' \in Stocks
    BY <1>0, <1>3, <2>1
  <2>6. <<>> \o loop.input = loop.input
    BY <1>0, ItemSeqs DEF LoopStates
  <2>7. /\ Stock'[AtInput] = <<>> /\ Joined(Stock'[loop.turn], Stock[loop.turn], Stock[AtInput])
        /\ \A q \in Spots : q # AtInput /\ q # loop.turn => Stock'[q] = Stock[q]
    <3>1. PICK u \in Turns : u = loop.turn
      BY <2>1
    <3>2. /\ Stock'[AtInput] = <<>> /\ Stock'[u] = loop.input /\ Stock[u] = <<>> /\ Stock[AtInput] = loop.input
          /\ Stock'[AtHeld] = Stock[AtHeld]
      BY <1>0, <2>2, <2>3, <2>4, <2>5, <3>1 DEF StockRead
    <3>3. \A q \in Spots : q # AtInput /\ q # u => Stock'[q] = Stock[q]
      BY <1>0, <2>1, <2>4, <2>5, <3>1, <3>2, SpotFacts DEF StockRead
    <3> QED BY <2>6, <3>1, <3>2, <3>3 DEF Joined
  <2>8. Once(Stock', fresh) /\ Carried(Stock, Stock', {})
    BY <1>0, <2>1, <2>5, <2>7, Moved, SpotFacts
  <2> QED BY <1>0, <1>1, <2>1, <2>8
<1>14. ASSUME Collect PROVE Good
  <2>1. /\ UNCHANGED <<task, fresh, history>> /\ loop.pc = "collect" /\ pending' = <<>> /\ mailbox' = <<>>
        /\ loop.held = <<>>
    BY <1>0, <1>14 DEF Collect, outVars, LoopHands, Aborting
  <2>2. loop'.input = loop.input /\ loop'.held = pending \o mailbox
    BY <1>0, <1>14 DEF Collect, LoopStates
  <2>3. StockRead' /\ Stock' \in Stocks
    BY <1>0, <1>3, <2>1
  <2>4. /\ Stock'[AtPending] = <<>> /\ Stock'[AtMailbox] = <<>> /\ Stock[AtHeld] = <<>>
        /\ Joined(Stock'[AtHeld], Stock[AtPending], Stock[AtMailbox])
        /\ \A q \in Spots : q # AtPending /\ q # AtMailbox /\ q # AtHeld => Stock'[q] = Stock[q]
    BY <1>0, <2>1, <2>2, <2>3, SpotFacts DEF StockRead, Joined
  <2>5. Once(Stock', fresh) /\ Carried(Stock, Stock', {})
    BY <1>0, <2>3, <2>4, Gathered, SpotFacts
  <2> QED BY <1>0, <1>1, <2>1, <2>5
<1>15. ASSUME Install PROVE Good
  <2>1. /\ UNCHANGED <<mailbox, task, fresh, history>> /\ loop.pc = "install" /\ pending' = loop.held
        /\ loop'.input = <<>> /\ loop'.held = <<>>
    BY <1>15 DEF Install, outVars, Idle
  <2>2. pending = <<>> /\ loop.input = <<>>
    BY <1>0, <2>1 DEF LoopHands, TaskHands, Emptied, BeforeSpawn
  <2>3. StockRead' /\ Stock' \in Stocks
    BY <1>0, <1>3, <2>1
  <2>4. <<>> \o loop.held = loop.held
    BY <1>0 DEF LoopStates
  <2>5. /\ Stock'[AtHeld] = <<>> /\ Joined(Stock'[AtPending], Stock[AtPending], Stock[AtHeld])
        /\ \A q \in Spots : q # AtHeld /\ q # AtPending => Stock'[q] = Stock[q]
    BY <1>0, <2>1, <2>2, <2>3, <2>4, SpotFacts DEF StockRead, Joined
  <2>6. Once(Stock', fresh) /\ Carried(Stock, Stock', {})
    BY <1>0, <2>3, <2>5, Moved, SpotFacts
  <2> QED BY <1>0, <1>1, <2>1, <2>6
<1>16. ASSUME NEW i \in Inputs, Steer(i) PROVE Good
  BY <1>4, <1>16 DEF Steer, Push, outVars
<1>17. ASSUME NEW n \in Notes, Inject(n) PROVE Good
  <2>1. n \in fresh /\ fresh' = fresh \ {n} /\ UNCHANGED <<mailbox, loop, task>> /\ n \in Items
    BY <1>0, <1>17 DEF Inject
  <2>2. CASE pending' = Append(pending, n) /\ UNCHANGED history
    BY <1>4, <2>1, <2>2
  <2>3. CASE history' = Append(history, n) /\ UNCHANGED pending
    <3>1. history' \in Seq(Items)
      BY <1>0, <2>1, <2>3, PushElems
    <3>2. StockRead' /\ Stock' \in Stocks
      BY <1>3, <3>1
    <3>3. Stock'[AtHistory] = Append(Stock[AtHistory], n) /\ \A q \in Spots : q # AtHistory => Stock'[q] = Stock[q]
      BY <1>0, <2>1, <2>3, <3>2, SpotFacts DEF StockRead
    <3>4. Once(Stock', fresh \ {n}) /\ Carried(Stock, Stock', {})
      BY <1>0, <2>1, <3>2, <3>3, Sent, SpotFacts
    <3> QED BY <1>1, <2>1, <3>1, <3>4
  <2> QED BY <1>17, <2>2, <2>3 DEF Inject, Push
<1>18. Good
  BY <1>5, <1>6, <1>7, <1>8, <1>9, <1>10, <1>11, <1>12, <1>13, <1>14, <1>15, <1>16, <1>17 DEF Client, LoopStep
<1> QED BY <1>18 DEF Good

LEMMA Pieces ==
  ASSUME NEW s \in Seq(Items)
  PROVE  /\ \A k \in DOMAIN s : SubSeq(s, 1, k - 1) \in Seq(Items) /\ SubSeq(s, k + 1, Len(s)) \in Seq(Items)
         /\ s # <<>> => Head(s) \in Items /\ Tail(s) \in Seq(Items)
OBVIOUS

LEMMA TaskStock ==
  ASSUME ItemsInv, TypeOK', NEW t \in Turns, TaskStep(t) PROVE Outcome(OfDoomed \cup refused')
<1>0. /\ TypeOK /\ LoopHands /\ TaskHands /\ WorksThere /\ IInv
      /\ task \in [Turns -> TaskStates] /\ task[t].held \in Seq(Items)
      /\ pending \in Seq(Items) /\ mailbox \in Seq(Items) /\ history \in Seq(Items)
      /\ fresh \subseteq Items /\ StockRead /\ Stock \in Stocks /\ Once(Stock, fresh) /\ <<>> \in Seq(Items)
  BY StockIs, ItemSeqs DEF ItemsInv, IInv, Places, TypeOK, TaskStates, StockOK, StockRead
<1>1. UNCHANGED loop /\ \A u \in Turns \ {t} : task'[u] = task[u]
  BY <1>0, TaskEffect
<1>2. t \in Spots /\ t # AtPending /\ t # AtMailbox /\ t # AtHistory
  BY SpotFacts
<1>3. ASSUME NEW lost, lost \subseteq OfDoomed \cup refused', history' \in Seq(Items), fresh' = fresh,
             Once(Stock', fresh), Carried(Stock, Stock', lost)
      PROVE  Outcome(OfDoomed \cup refused')
  BY <1>3, MoreLost DEF Outcome, StockOK
<1>4. ASSUME history' \in Seq(Items) PROVE StockRead' /\ Stock' \in Stocks
  BY <1>4, StockIsNext DEF StockRead
<1>5. ASSUME UNCHANGED <<pending, mailbox, history, fresh>>, task'[t].held = task[t].held
      PROVE  Outcome(OfDoomed \cup refused')
  BY <1>1, <1>5, SameStock, MoreLost
<1>6. ASSUME NEW pc \in TaskPlaces, GotoHolding(t, pc, <<>>), UNCHANGED <<pending, mailbox, history, fresh>>,
             Elems(task[t].held) \subseteq OfDoomed \cup refused'
      PROVE  Outcome(OfDoomed \cup refused')
  <2>1. StockRead' /\ Stock' \in Stocks
    BY <1>0, <1>4, <1>6
  <2>2. Stock'[t] = <<>> /\ \A q \in Spots : q # t => Stock'[q] = Stock[q]
    <3>1. task'[t].held = <<>>
      BY <1>0, <1>6, MovesHolding
    <3> QED BY <1>0, <1>1, <1>6, <2>1, <3>1, SpotFacts DEF StockRead
  <2>3. Once(Stock', fresh) /\ Carried(Stock, Stock', Elems(task[t].held))
    BY <1>0, <1>2, <2>1, <2>2, Dropped DEF StockRead
  <2> QED BY <1>0, <1>3, <1>6, <2>3
<1>7. ASSUME NEW pc \in TaskPlaces, GotoHolding(t, pc, <<>>), UNCHANGED <<pending, mailbox, fresh>>,
             history' = history \o task[t].held
      PROVE  Outcome(OfDoomed \cup refused')
  <2>1. history' \in Seq(Items)
    BY <1>0, <1>7, ItemSeqs
  <2>2. StockRead' /\ Stock' \in Stocks
    BY <1>4, <2>1
  <2>3. /\ Stock'[t] = <<>> /\ \A q \in Spots : q # t /\ q # AtHistory => Stock'[q] = Stock[q]
    <3>1. task'[t].held = <<>>
      BY <1>0, <1>7, MovesHolding
    <3> QED BY <1>0, <1>1, <1>7, <2>2, <3>1, SpotFacts, ZenonT(60) DEF StockRead
  <2>4. Joined(Stock'[AtHistory], Stock[AtHistory], Stock[t])
    BY <1>0, <1>7, <2>2 DEF StockRead, Joined
  <2>5. Once(Stock', fresh) /\ Carried(Stock, Stock', {})
    BY <1>0, <1>2, <2>2, <2>3, <2>4, Moved, SpotFacts
  <2> QED BY <1>3, <1>7, <2>1, <2>5
<1>8. CASE Enter(t)
  <2>1. UNCHANGED <<pending, mailbox, fresh>>
    BY <1>8 DEF Enter, turnVars
  <2>2. CASE Goto(t, IF HasPending THEN "drain" ELSE "check") /\ UNCHANGED history
    <3>1. PICK pc \in {"drain", "check"} : Goto(t, pc)
      BY <2>2
    <3>2. task'[t].held = task[t].held
      BY <1>0, <3>1, Moves DEF TaskPlaces
    <3> QED BY <1>5, <2>1, <2>2, <3>2
  <2>3. CASE history' = history \o task[t].held /\ GotoHolding(t, "drain", <<>>)
    BY <1>7, <2>1, <2>3 DEF TaskPlaces
  <2> QED BY <1>8, <2>2, <2>3 DEF Enter
<1>9. CASE GiveUp(t)
  <2>1. UNCHANGED <<pending, mailbox, history, fresh>> /\ refused' = refused \cup Elems(task[t].held)
        /\ GotoHolding(t, "check", <<>>)
    BY <1>9 DEF GiveUp, turnVars
  <2> QED BY <1>6, <2>1 DEF TaskPlaces
<1>10. CASE Drain(t)
  <2>1. /\ UNCHANGED <<history, fresh>> /\ pending' = <<>> /\ mailbox' = <<>> /\ task[t].held = <<>>
    BY <1>0, <1>10 DEF Drain, outVars, TaskHands, At
  <2>2. PICK all \in Seq(Items) : all = pending \o mailbox
    BY <1>0, ItemSeqs
  <2>3. task'[t].held = all
    BY <1>0, <1>10, <2>2, MovesHolding DEF Drain, TaskPlaces
  <2>4. StockRead' /\ Stock' \in Stocks
    BY <1>0, <1>4, <2>1
  <2>5. /\ Stock'[AtPending] = <<>> /\ Stock'[AtMailbox] = <<>> /\ Stock[t] = <<>>
        /\ \A q \in Spots : q # AtPending /\ q # AtMailbox /\ q # t => Stock'[q] = Stock[q]
    BY <1>0, <1>1, <2>1, <2>4, SpotFacts, SMTT(30) DEF StockRead
  <2>6. Joined(Stock'[t], Stock[AtPending], Stock[AtMailbox])
    BY <1>0, <2>2, <2>3, <2>4 DEF StockRead, Joined
  <2>7. Once(Stock', fresh) /\ Carried(Stock, Stock', {})
    BY <1>0, <1>2, <2>4, <2>5, <2>6, Gathered, SpotFacts
  <2> QED BY <1>0, <1>3, <2>1, <2>7
<1>11. CASE Inspect(t)
  <2>1. UNCHANGED <<active, mailbox, fresh>> /\ task[t].pc = "inspect"
    BY <1>11 DEF Inspect, At
  <2>2. CASE history' = history \o task[t].held /\ GotoHolding(t, "sample", <<>>) /\ UNCHANGED pending
    BY <1>7, <2>1, <2>2 DEF TaskPlaces
  <2>3. ASSUME NEW k \in DOMAIN task[t].held, NEW front, NEW rest,
               front = SubSeq(task[t].held, 1, k - 1), rest = SubSeq(task[t].held, k + 1, Len(task[t].held)),
               task[t].held[k] \in Inputs, refused' = refused \cup {task[t].held[k]},
               pending' = IF active = NoTurn THEN pending ELSE rest \o pending,
               history' = history \o front,
               GotoHolding(t, IF k > 1 THEN "sample" ELSE IF rest # <<>> THEN "drain" ELSE "check", <<>>)
        PROVE  Outcome(OfDoomed \cup refused')
    <3>1. front \in Seq(Items) /\ rest \in Seq(Items)
      BY <1>0, <2>3, Pieces
    <3>2. history' \in Seq(Items)
      BY <1>0, <2>3, <3>1, ItemSeqs
    <3>3. StockRead' /\ Stock' \in Stocks
      BY <1>4, <3>2
    <3>4. PICK pc \in TaskPlaces : GotoHolding(t, pc, <<>>)
      BY <2>3 DEF TaskPlaces
    <3>5. task'[t].held = <<>>
      BY <1>0, <3>4, MovesHolding
    <3>6. /\ Stock'[t] = <<>> /\ Joined(Stock'[AtHistory], Stock[AtHistory], front)
          /\ \A q \in Spots : q # t /\ q # AtHistory /\ q # AtPending => Stock'[q] = Stock[q]
      <4>1. Stock'[t] = <<>>
        BY <3>3, <3>5 DEF StockRead
      <4>2. Joined(Stock'[AtHistory], Stock[AtHistory], front)
        BY <1>0, <2>3, <3>3 DEF StockRead, Joined
      <4>3. \A q \in Spots : q # t /\ q # AtHistory /\ q # AtPending => Stock'[q] = Stock[q]
        BY <1>0, <1>1, <2>1, <3>3, SpotFacts DEF StockRead
      <4> QED BY <4>1, <4>2, <4>3
    <3>7. IF active = NoTurn THEN Stock'[AtPending] = Stock[AtPending]
                             ELSE Joined(Stock'[AtPending], rest, Stock[AtPending])
      BY <1>0, <2>3, <3>3 DEF StockRead, Joined
    <3>8. /\ Once(Stock', fresh) /\ Carried(Stock, Stock', Elems(task[t].held))
          /\ active # NoTurn => Carried(Stock, Stock', {task[t].held[k]})
      <4>1. PICK S \in Stocks : S = Stock
        BY <1>0
      <4>2. /\ S[t] = task[t].held /\ k \in DOMAIN S[t] /\ Once(S, fresh)
            /\ front = SubSeq(S[t], 1, k - 1) /\ rest = SubSeq(S[t], k + 1, Len(S[t]))
        BY <1>0, <2>3, <4>1 DEF StockRead
      <4>3. Stock'[AtPending] = S[AtPending] \/ Joined(Stock'[AtPending], rest, S[AtPending])
        BY <3>7, <4>1
      <4>4. /\ Once(Stock', fresh) /\ Carried(S, Stock', Elems(S[t]))
            /\ Joined(Stock'[AtPending], rest, S[AtPending]) => Carried(S, Stock', {S[t][k]})
        <5>1. PICK T \in Stocks : T = Stock'
          BY <3>3
        <5>2. Parts(S, T, t, AtHistory, AtPending, k, front, rest)
          BY <1>2, <3>6, <4>1, <4>2, <4>3, <5>1, SpotFacts DEF Parts
        <5>3. /\ Once(T, fresh) /\ Carried(S, T, Elems(S[t]))
              /\ Joined(T[AtPending], rest, S[AtPending]) => Carried(S, T, {S[t][k]})
          BY <1>2, <4>2, <5>2, Parted, SpotFacts
        <5> QED BY <5>1, <5>3
      <4> QED BY <3>7, <4>1, <4>2, <4>4
    <3>9. CASE active # NoTurn
      BY <1>3, <2>1, <2>3, <3>2, <3>8, <3>9
    <3>10. CASE active = NoTurn
      <4>1. t # NoTurn
        BY DEF Turns, NoTurn
      <4>2. task[t].held \notin Seq(Mails)
        <5>1. ASSUME task[t].held \in Seq(Mails) PROVE FALSE
          <6>1. task[t].held[k] \in Mails
            BY <2>3, <5>1
          <6> QED BY <2>3, <6>1, ItemsAssumption
        <5> QED BY <5>1
      <4>3. t \in Doomed
        BY <1>0, <2>1, <3>10, <4>1, <4>2 DEF WorksThere, Working, TaskHands, At, Doomed
      <4>4. Elems(task[t].held) \subseteq OfDoomed
        BY <4>3, DoomedHands
      <4> QED BY <1>3, <2>1, <3>2, <3>8, <4>4
    <3> QED BY <3>9, <3>10
  <2>4. \/ history' = history \o task[t].held /\ GotoHolding(t, "sample", <<>>) /\ UNCHANGED pending
        \/ \E k \in DOMAIN task[t].held :
             LET rest == SubSeq(task[t].held, k + 1, Len(task[t].held))
             IN /\ task[t].held[k] \in Inputs /\ refused' = refused \cup {task[t].held[k]}
                /\ pending' = IF active = NoTurn THEN pending ELSE rest \o pending
                /\ history' = history \o SubSeq(task[t].held, 1, k - 1)
                /\ GotoHolding(t, IF k > 1 THEN "sample" ELSE IF rest # <<>> THEN "drain" ELSE "check", <<>>)
    BY <1>11 DEF Inspect
  <2> QED BY <2>2, <2>3, <2>4
<1>12. CASE Sampled(t) \/ FollowUp(t) \/ StopAsking(t) \/ Check(t) \/ RunCompact(t) \/ Flush(t) \/ Complete(t)
  <2>1. PICK pc \in {"drain", "check", "enter", "flush", "done", "finish"} : Goto(t, pc)
    BY <1>12 DEF Sampled, FollowUp, StopAsking, Check, RunCompact, Flush, Complete
  <2>2. task'[t].held = task[t].held
    BY <1>0, <2>1, Moves DEF TaskPlaces
  <2>3. UNCHANGED <<pending, mailbox, history, fresh>>
    BY <1>12 DEF Sampled, FollowUp, StopAsking, Check, RunCompact, Flush, Complete, turnVars, outVars
  <2> QED BY <1>5, <2>2, <2>3
<1>13. CASE Ask(t)
  <2>1. UNCHANGED <<pending, mailbox, history, fresh>>
    BY <1>13 DEF Ask, outVars
  <2>2. task'[t].held = task[t].held
    <3>1. CASE active # NoTurn
      BY <1>0, <1>13, <3>1, Moves DEF Ask, TaskPlaces
    <3>2. CASE active = NoTurn
      BY <1>13, <3>2 DEF Ask
    <3> QED BY <3>1, <3>2
  <2> QED BY <1>5, <2>1, <2>2
<1>14. CASE Finish(t)
  <2>1. UNCHANGED <<mailbox, history, fresh>> /\ task[t].held = <<>>
    BY <1>0, <1>14 DEF Finish, outVars, TaskHands, At
  <2>2. CASE active = t
    <3>1. task'[t].held = pending /\ pending' = <<>>
      BY <1>0, <1>14, <2>2, MovesHolding DEF Finish, TaskPlaces
    <3>2. StockRead' /\ Stock' \in Stocks
      BY <1>0, <1>4, <2>1
    <3>3. <<>> \o pending = pending
      BY <1>0
    <3>4. /\ Stock'[AtPending] = <<>> /\ \A q \in Spots : q # AtPending /\ q # t => Stock'[q] = Stock[q]
      BY <1>0, <1>1, <2>1, <3>1, <3>2, SpotFacts DEF StockRead
    <3>5. Joined(Stock'[t], Stock[t], Stock[AtPending])
      BY <1>0, <2>1, <3>1, <3>2, <3>3 DEF StockRead, Joined
    <3>6. Once(Stock', fresh) /\ Carried(Stock, Stock', {})
      BY <1>0, <1>2, <3>2, <3>4, <3>5, Moved, SpotFacts
    <3> QED BY <1>0, <1>3, <2>1, <3>6
  <2>3. CASE active # t
    <3>1. Goto(t, "complete") /\ UNCHANGED pending
      BY <1>14, <2>3 DEF Finish, turnVars
    <3>2. task'[t].held = task[t].held
      BY <1>0, <3>1, Moves DEF TaskPlaces
    <3> QED BY <1>5, <2>1, <3>1, <3>2
  <2> QED BY <2>2, <2>3
<1>15. CASE RecordLeftover(t)
  <2>1. UNCHANGED <<pending, mailbox, fresh>> /\ task[t].held # <<>>
    BY <1>15 DEF RecordLeftover, turnVars
  <2>2. PICK x \in Items, rest \in Seq(Items) : x = Head(task[t].held) /\ rest = Tail(task[t].held)
    BY <1>0, <2>1, Pieces
  <2>3. \/ history' = Append(history, x)
        \/ history' = history /\ refused' = refused \cup {x}
    BY <1>15, <2>2 DEF RecordLeftover
  <2>4. task'[t].held = rest
    BY <1>0, <1>15, <2>2, MovesHolding DEF RecordLeftover, TaskPlaces
  <2>5. history' \in Seq(Items)
    BY <1>0, <2>3, PushElems
  <2>6. StockRead' /\ Stock' \in Stocks
    BY <1>4, <2>5
  <2>7. /\ \A q \in Spots : q # t /\ q # AtHistory => Stock'[q] = Stock[q]
        /\ Stock'[AtHistory] = Stock[AtHistory] \/ Stock'[AtHistory] = Append(Stock[AtHistory], Head(Stock[t]))
        /\ Stock[t] # <<>> /\ Stock'[t] = Tail(Stock[t])
    <3>1. \A q \in Spots : q # t /\ q # AtHistory => Stock'[q] = Stock[q]
      BY <1>0, <1>1, <2>1, <2>6, SpotFacts, ZenonT(60) DEF StockRead
    <3>2. Stock[t] = task[t].held /\ Stock'[t] = rest /\ Stock[AtHistory] = history /\ Stock'[AtHistory] = history'
      BY <1>0, <2>4, <2>6 DEF StockRead
    <3>3. Stock'[AtHistory] = Stock[AtHistory] \/ Stock'[AtHistory] = Append(Stock[AtHistory], x)
      BY <2>3, <3>2
    <3> QED BY <2>1, <2>2, <3>1, <3>2, <3>3
  <2>8. /\ Once(Stock', fresh) /\ Carried(Stock, Stock', {x})
        /\ Stock'[AtHistory] = Append(Stock[AtHistory], x) => Carried(Stock, Stock', {})
    <3>1. x = Head(Stock[t])
      BY <1>0, <2>2 DEF StockRead
    <3> QED BY <1>0, <1>2, <2>6, <2>7, <3>1, OneMoved, SpotFacts, ZenonT(60)
  <2>9. CASE history' = Append(history, x)
    <3>1. Carried(Stock, Stock', {})
      BY <1>0, <2>6, <2>8, <2>9 DEF StockRead
    <3> QED BY <1>3, <2>1, <2>5, <2>8, <3>1
  <2>10. CASE refused' = refused \cup {x}
    BY <1>3, <2>1, <2>5, <2>8, <2>10
  <2> QED BY <2>3, <2>9, <2>10
<1>16. CASE Die(t)
  <2>1. UNCHANGED <<pending, mailbox, history, fresh>> /\ GotoHolding(t, "dead", <<>>) /\ t \in killed
    BY <1>16 DEF Die, turnVars, outVars
  <2>2. t \in Doomed
    BY <2>1 DEF Doomed, Turns, NoTurn
  <2> QED BY <1>6, <2>1, <2>2, DoomedHands DEF TaskPlaces
<1> QED BY <1>8, <1>9, <1>10, <1>11, <1>12, <1>13, <1>14, <1>15, <1>16 DEF TaskStep

-----------------------------------------------------------------------------
(* No item vanishes *)

LEMMA InitItems == Init => ItemsInv
<1> SUFFICES ASSUME Init PROVE ItemsInv
  OBVIOUS
<1>1. IInv
  BY InitIInv
<1>2. LoopHands /\ TaskHands
  BY IdleHands, IdleType DEF Init, LoopHands, TaskHands, Aborting, BeforeSpawn
<1>3. history \in Seq(Items)
  BY ItemSeqs DEF Init
<1>4. StockRead
  BY <1>1, <1>3, StockIs DEF IInv
<1>5. \A p \in Spots : Stock[p] = <<>>
  BY <1>4, SpotFacts, IdleHands DEF Init, StockRead
<1>6. Once(Stock, fresh)
  BY <1>5, EmptyElems DEF Once
<1> QED BY <1>1, <1>2, <1>3, <1>6 DEF ItemsInv, StockOK

LEMMA NextItems ==
  ASSUME ItemsInv, [Next]_vars PROVE ItemsInv' /\ (Next => Outcome(OfDoomed \cup refused'))
<1>1. IInv'
  BY NextIInv DEF ItemsInv
<1>2. TypeOK'
  BY <1>1 DEF IInv
<1>3. ASSUME Next PROVE ItemsInv' /\ Outcome(OfDoomed \cup refused')
  BY <1>1, <1>2, <1>3, LoopHandsKept, TaskHandsKept, LoopStock, TaskStock DEF Next, ItemsInv, Outcome
<1>4. ASSUME UNCHANGED vars PROVE ItemsInv'
  <2>1. UNCHANGED <<active, pending, mailbox, history, fresh, loop, task>>
    BY <1>4 DEF vars, turnVars, outVars
  <2>2. LoopHands' /\ TaskHands'
    BY <2>1 DEF ItemsInv, LoopHands, TaskHands, At
  <2>3. StockOK'
    <3>1. loop'.input = loop.input /\ loop'.held = loop.held /\ \A t \in Turns : task'[t].held = task[t].held
      BY <2>1
    <3>2. UNCHANGED <<pending, mailbox, history>> /\ fresh' \subseteq fresh
      BY <2>1
    <3>3. Outcome({})
      BY <1>2, <3>1, <3>2, SameStock
    <3> QED BY <3>3 DEF Outcome
  <2> QED BY <1>1, <2>2, <2>3 DEF ItemsInv
<1> QED BY <1>3, <1>4

THEOREM ItemsInvariance == Spec => []ItemsInv
<1>1. ItemsInv /\ [Next]_vars => ItemsInv'
  BY NextItems
<1> QED BY InitItems, <1>1, PTL DEF Spec

\* Every item in somebody's hands is at a place other than the history, and the other way round.
InStock ==
  /\ \A x \in Hands : \E p \in Spots : x \in Elems(Stock[p])
  /\ \A p \in Spots : Elems(Stock[p]) \subseteq Hands \cup Elems(history)

LEMMA HandsAreStock == StockRead => InStock
<1> SUFFICES ASSUME StockRead PROVE InStock
  OBVIOUS
<1> DEFINE inTasks == UNION {Elems(task[t].held) : t \in Turns}
<1>1. Hands = Elems(pending) \cup Elems(mailbox) \cup Elems(loop.held) \cup Elems(loop.input) \cup inTasks
  BY DEF Hands
<1>2. \A x : x \in inTasks <=> \E t \in Turns : x \in Elems(task[t].held)
  OBVIOUS
<1> HIDE DEF inTasks
<1>3. ASSUME NEW x \in Hands PROVE \E p \in Spots : x \in Elems(Stock[p])
  BY <1>1, <1>2, <1>3, SpotFacts DEF StockRead
<1>4. ASSUME NEW p \in Spots PROVE Elems(Stock[p]) \subseteq Hands \cup Elems(history)
  <2>1. CASE p \in Turns
    BY <1>1, <1>2, <2>1 DEF StockRead
  <2>2. CASE p \notin Turns
    BY <1>1, <2>2, SpotFacts DEF StockRead
  <2> QED BY <2>1, <2>2
<1> QED BY <1>3, <1>4 DEF InStock

\* A message to the session, of the user, of another agent or of another thread, never
\* vanishes and is never recorded twice: whoever takes it out of active_turn, the mailbox or a
\* queue hands it on, records it, or has its refusal reported, unless its turn is being aborted
\* or cut off.  For any messages, turns and interleavings (get_pending_input and
\* prepend_pending_input of codex.rs, start_task and on_task_finished of tasks/mod.rs).
THEOREM NoItemVanishes == Spec => ItemsKept
<1> DEFINE Step == /\ Hands \ OfDoomed \subseteq Hands' \cup Elems(history') \cup refused'
                   /\ \A i, j \in DOMAIN history' : history'[i] = history'[j] => i = j
<1>0. StockRead' => InStock'
  BY HandsAreStock, PTL
<1>1. ASSUME ItemsInv, [Next]_vars PROVE [Step]_vars
  <2>1. SUFFICES ASSUME Next PROVE Step
    BY <1>1
  <2>2. StockRead /\ StockRead' /\ Once(Stock', fresh') /\ Carried(Stock, Stock', OfDoomed \cup refused')
    <3>1. ItemsInv' /\ Outcome(OfDoomed \cup refused')
      BY <1>1, <2>1, NextItems
    <3>2. TypeOK /\ TypeOK' /\ history \in Seq(Items) /\ history' \in Seq(Items)
      BY <1>1, <3>1 DEF ItemsInv, IInv, StockOK
    <3> QED BY <3>1, <3>2, StockIs, StockIsNext DEF Outcome, StockOK
  <2>3. Distinct(history')
    BY <2>2, SpotFacts DEF Once, StockRead
  <2>4. ASSUME NEW x \in Hands \ OfDoomed PROVE x \in Hands' \cup Elems(history') \cup refused'
    <3>1. PICK p \in Spots : x \in Elems(Stock[p])
      BY <2>2, <2>4, HandsAreStock DEF InStock
    <3>2. x \in refused' \/ \E q \in Spots : x \in Elems(Stock'[q])
      BY <2>2, <2>4, <3>1 DEF Carried
    <3>3. \A q \in Spots : Elems(Stock'[q]) \subseteq Hands' \cup Elems(history')
      BY <1>0, <2>2 DEF InStock
    <3> QED BY <3>2, <3>3
  <2> QED BY <2>3, <2>4 DEF Distinct
<1>2. Spec => [][Step]_vars
  BY <1>1, ItemsInvariance, PTL DEF Spec
<1> QED BY <1>2 DEF ItemsKept
=============================================================================
