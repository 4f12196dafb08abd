---------------------------- MODULE TurnPolling ----------------------------
(***************************************************************************)
(* The page follows a turn (CodexBackend.ets, pollTurnUntilCompleted): it  *)
(* takes the host's events and applies them one after the other, and every *)
(* half second polls for the whole state and merges it.  Whichever shows a *)
(* terminal status first ends the loop; then the page polls and reads a    *)
(* few more times for what comes late (finalizeTerminalTurnSnapshot).      *)
(*                                                                         *)
(* Meanwhile the loop of another conversation may handle this turn's       *)
(* notifications, and the user may come back to the conversation, which    *)
(* makes the page read its history (refreshActiveThreadSnapshot).          *)
(*                                                                         *)
(* The model begins when turn/start has returned.  Whether the deadline    *)
(* has passed, the half second is over, and late updates are still wanted  *)
(* is left open.                                                           *)
(***************************************************************************)
EXTENDS TurnEvents

CONSTANTS MaxReads,  \* bound: returns of the user to the conversation
          MaxDrains  \* bound: polls and reads after the end (3 of each kind)

ASSUME ReadsAssumption == MaxReads \in Nat /\ MaxDrains \in Nat

VARIABLES
  pc,         \* where the loop waits
  reply,      \* what its last native call returned
  pageText, pagePast,  \* the answer on the page: as streamed, as in the history
  pageStatus, \* thread.lastTurnStatus
  drains,     \* counter
  outcome,    \* the status of the turn's result
  reader,     \* the read of a returning user: "no", "asked" or "read"
  found,      \* its payload
  reads,      \* counter
  cause       \* history: why the page ended the turn by itself

pageVars == <<pc, reply, pageText, pagePast, pageStatus, drains, outcome, cause>>
readVars == <<reader, found, reads>>
vars == <<stream, serverVars, nativeVars, pageVars, readVars>>

Nothing == [events |-> <<>>, status |-> "", text |-> <<>>, past |-> FALSE]
Answer(payload) == [Nothing EXCEPT !.status = payload.status, !.text = payload.text, !.past = payload.past]

Init == /\ stream = <<Note("turnStarted", <<>>, "inProgress")>>
        /\ said = 0 /\ itemDone = FALSE /\ ended = "inProgress"
        /\ progress = 0 /\ errors = 0
        /\ connected = TRUE
        /\ lock = "none" /\ handled = FALSE
        /\ turn = Started /\ text = <<>> /\ past = FALSE
        /\ pc = "top" /\ reply = Nothing
        /\ pageText = <<>> /\ pagePast = FALSE /\ pageStatus = "inProgress"
        /\ drains = 0 /\ outcome = "inProgress"
        /\ reader = "no" /\ found = Nothing /\ reads = 0
        /\ cause = "none"

-----------------------------------------------------------------------------
\* Merging what comes with what is there

Last(s, k) == SubSeq(s, Len(s) - k + 1, Len(s))
First(s, k) == SubSeq(s, 1, k)
StartsWith(s, t) == Len(t) <= Len(s) /\ First(s, Len(t)) = t
Holds(s, t) == \E i \in 0..Len(s) : StartsWith(Last(s, i), t)

\* messageContentOverlapSize
Overlap(s, t) == LET both == {k \in 0..Len(t) : k <= Len(s) /\ Last(s, k) = First(t, k)}
                 IN CHOOSE k \in both : \A other \in both : other <= k

\* mergeThreadMessageContent
Merged(old, new) ==
  IF StartsWith(new, old) THEN new
  ELSE IF Holds(old, new) THEN old
  ELSE IF Overlap(old, new) > 0 THEN old \o Last(new, Len(new) - Overlap(old, new))
  ELSE IF Len(new) >= Len(old) THEN new ELSE old

Page == [status |-> pageStatus, text |-> pageText, past |-> pagePast]

EventApplied(page, event) ==
  CASE event.kind = "status"   -> [page EXCEPT !.status = event.status]
    [] event.kind = "started"  -> [page EXCEPT !.text = Merged(@, event.text)]
    [] event.kind = "delta"    -> [page EXCEPT !.text = @ \o event.text]
    [] event.kind = "replaced" -> [page EXCEPT !.text = event.text]
    [] event.kind = "snapshot" -> [page EXCEPT !.text = Merged(@, event.text), !.past = @ \/ event.past]

\* applyTurnEventBatch
BatchApplied(page, events) ==
  LET after[k \in 0..Len(events)] == IF k = 0 THEN page ELSE EventApplied(after[k - 1], events[k])
  IN after[Len(events)]

\* applyTurnPollResult
PollApplied(payload) == [status |-> payload.status,
                         text |-> Merged(pageText, payload.text),
                         past |-> pagePast \/ payload.past]

\* ensureThreadRecordFromReadPayload
ReadApplied(payload) == [status |-> payload.status, text |-> payload.text, past |-> payload.past]

Show(page) == /\ pageText' = page.text
              /\ pagePast' = page.past
              /\ pageStatus' = page.status

-----------------------------------------------------------------------------
\* Native calls.  A call that handles notifications holds the runtime while it
\* does; what it returns is read from the state afterwards.

Calls == {"events", "poll", "drain"}

Acquire(call) == /\ lock = "none" /\ connected
                 /\ lock' = call
                 /\ handled' = FALSE
                 /\ UNCHANGED <<stream, serverVars, turn, text, past, pageVars, readVars>>

CallHandles == pc \in Calls /\ Acquire(pc)

\* turn_events or turn_poll for another turn: the target is not looked at.
OtherHandles == stream # <<>> /\ pc # "done" /\ Acquire("other")

HandleOne == HandleNext /\ pc # "done" /\ UNCHANGED <<pageVars, readVars>>

Back(call) == CASE call = "events" -> "taking" [] call = "poll" -> "polled" [] call = "drain" -> "drained"

\* Nothing has come, or the limit on events or time is reached.
Release == /\ lock # "none"
           /\ stream = <<>> \/ handled
           /\ lock' = "none"
           /\ handled' = FALSE
           /\ pc' = IF lock = "other" THEN pc ELSE Back(lock)
           /\ UNCHANGED <<stream, serverVars, turn, text, past, readVars>>
           /\ UNCHANGED <<reply, pageText, pagePast, pageStatus, drains, outcome, cause>>

\* drain_turn_events
TakeEvents == /\ pc = "taking"
              /\ reply' = [Nothing EXCEPT !.events = turn.events]
              /\ turn' = [turn EXCEPT !.events = <<>>]
              /\ pc' = "batch"
              /\ UNCHANGED <<stream, serverVars, lock, handled, text, past, readVars>>
              /\ UNCHANGED <<pageText, pagePast, pageStatus, drains, outcome, cause>>

TakePayload == /\ \/ pc = "polled" /\ pc' = "snapshot"
                  \/ pc = "drained" /\ pc' = "late"
               /\ reply' = Answer(PollPayload)
               /\ UNCHANGED <<stream, serverVars, nativeVars, readVars>>
               /\ UNCHANGED <<pageText, pagePast, pageStatus, drains, outcome, cause>>

\* No client: no events, or a payload of a failed turn.
CallFails == /\ ~connected
             /\ \/ pc = "events" /\ pc' = "batch" /\ reply' = Nothing
                \/ pc = "poll" /\ pc' = "snapshot" /\ reply' = [Nothing EXCEPT !.status = "failed"]
                \/ pc = "drain" /\ pc' = "late" /\ reply' = [Nothing EXCEPT !.status = "failed"]
             /\ UNCHANGED <<stream, serverVars, nativeVars, readVars>>
             /\ UNCHANGED <<pageText, pagePast, pageStatus, drains, outcome, cause>>

-----------------------------------------------------------------------------
\* The loop

Quiet == UNCHANGED <<stream, serverVars, nativeVars, readVars>>

Finish(status) == pc' = "done" /\ outcome' = status

AskEvents == /\ pc = "top"
             /\ pc' = "events"
             /\ Quiet
             /\ UNCHANGED <<reply, pageText, pagePast, pageStatus, drains, outcome, cause>>

Interrupted == /\ pc = "top"
               /\ Finish("interrupted")
               /\ pageStatus' = "interrupted"
               /\ cause' = "stop"
               /\ Quiet
               /\ UNCHANGED <<reply, pageText, pagePast, drains>>

Deadline == /\ pc = "top"
            /\ Finish("failed")
            /\ pageStatus' = "failed"
            /\ cause' = "deadline"
            /\ Quiet
            /\ UNCHANGED <<reply, pageText, pagePast, drains>>

\* A terminal status leads to finalizeTerminalTurnSnapshot.
Follow(status, next) == IF status = "inProgress" THEN pc' \in next /\ UNCHANGED outcome
                        ELSE pc' = "final" /\ outcome' = status

\* Wrong on purpose: only the first event of a batch is applied.
ApplyFirstEvent ==
  /\ pc = "batch"
  /\ LET events == IF reply.events = <<>> THEN <<>> ELSE <<Head(reply.events)>>
         page == BatchApplied(Page, events)
     IN Show(page) /\ Follow(IF events = <<>> THEN "inProgress" ELSE page.status, {"poll", "top"})
  /\ reply' = Nothing
  /\ Quiet
  /\ UNCHANGED <<drains, cause>>

\* An empty batch is not looked at; poll if the half second is over.
ApplyBatch ==
  /\ pc = "batch"
  /\ LET page == BatchApplied(Page, reply.events)
     IN Show(page) /\ Follow(IF reply.events = <<>> THEN "inProgress" ELSE page.status, {"poll", "top"})
  /\ reply' = Nothing
  /\ Quiet
  /\ UNCHANGED <<drains, cause>>

ApplySnapshot == /\ pc = "snapshot"
                 /\ Show(PollApplied(reply))
                 /\ Follow(reply.status, {"top"})
                 /\ reply' = Nothing
                 /\ Quiet
                 /\ UNCHANGED <<drains, cause>>

\* The task pool fails: the page turns to the thread's history.
PollLost == /\ pc = "poll" /\ lock # "poll"
            /\ pc' = "recover"
            /\ cause' = "native"
            /\ Quiet
            /\ UNCHANGED <<reply, pageText, pagePast, pageStatus, drains, outcome>>

\* The page's own thread_read: to recover, or for a late diff.
PageReads == /\ \/ pc = "recover" /\ pc' = "recovered"
                \/ pc = "history" /\ pc' = "reread"
             /\ lock = "none" /\ connected
             /\ ReadThread
             /\ reply' = Answer(ReadPayload)
             /\ UNCHANGED <<stream, serverVars, lock, handled, readVars>>
             /\ UNCHANGED <<pageText, pagePast, pageStatus, drains, outcome, cause>>

\* The read fails: the turn is given up, or the status is left as it is.
PageReadFails == /\ pc \in {"recover", "history"} /\ ~connected
                 /\ Finish(IF pc = "recover" THEN "failed" ELSE outcome)
                 /\ pageStatus' = IF pc = "recover" THEN "failed" ELSE pageStatus
                 /\ Quiet
                 /\ UNCHANGED <<reply, pageText, pagePast, drains, cause>>

\* recoverTurnFromThreadHistory
ApplyRecovered ==
  /\ pc = "recovered"
  /\ Show([ReadApplied(reply) EXCEPT !.status = IF @ = "inProgress" THEN "failed" ELSE @])
  /\ IF reply.status = "inProgress" THEN Finish("failed") ELSE pc' = "final" /\ outcome' = reply.status
  /\ reply' = Nothing
  /\ Quiet
  /\ UNCHANGED <<drains, cause>>

-----------------------------------------------------------------------------
\* finalizeTerminalTurnSnapshot: polls, then reads, while something is missing.

DrainLate == /\ pc = "final" /\ drains < MaxDrains
             /\ pc' = "drain"
             /\ drains' = drains + 1
             /\ Quiet
             /\ UNCHANGED <<reply, pageText, pagePast, pageStatus, outcome, cause>>

\* drainLateTurnUpdates, drainLateTokenUsage
ApplyLate == /\ pc = "late"
             /\ Show(PollApplied(reply))
             /\ outcome' = reply.status
             /\ pc' = "final"
             /\ reply' = Nothing
             /\ Quiet
             /\ UNCHANGED <<drains, cause>>

\* recoverDiffFromThreadHistory
RecoverDiff == /\ pc = "final"
               /\ pc' = "history"
               /\ Quiet
               /\ UNCHANGED <<reply, pageText, pagePast, pageStatus, drains, outcome, cause>>

ApplyReread == /\ pc = "reread"
               /\ Show(ReadApplied(reply))
               /\ Finish(reply.status)
               /\ reply' = Nothing
               /\ Quiet
               /\ UNCHANGED <<drains, cause>>

Finalize == /\ pc = "final"
            /\ Finish(outcome)
            /\ Quiet
            /\ UNCHANGED <<reply, pageText, pagePast, pageStatus, drains, cause>>

-----------------------------------------------------------------------------
\* The user comes back to the conversation

\* setActiveThread: refreshActiveThreadSnapshot
ComeBack == /\ reader = "no" /\ reads < MaxReads /\ pc # "done"
            /\ reader' = "asked"
            /\ reads' = reads + 1
            /\ UNCHANGED <<stream, serverVars, nativeVars, pageVars, found>>

ReaderReads == /\ reader = "asked" /\ lock = "none" /\ connected
               /\ ReadThread
               /\ found' = Answer(ReadPayload)
               /\ reader' = "read"
               /\ UNCHANGED <<stream, serverVars, lock, handled, pageVars, reads>>

ReaderFails == /\ reader = "asked" /\ ~connected
               /\ reader' = "no"
               /\ UNCHANGED <<stream, serverVars, nativeVars, pageVars, found, reads>>

\* The page does not pause between the last answer and what follows from it.
ReaderApplies == /\ reader = "read" /\ pc # "final"
                 /\ Show(ReadApplied(found))
                 /\ reader' = "no" /\ found' = Nothing
                 /\ UNCHANGED <<stream, serverVars, nativeVars, reads>>
                 /\ UNCHANGED <<pc, reply, drains, outcome, cause>>

-----------------------------------------------------------------------------
Native == HandleOne \/ Release
Loop == \/ CallHandles \/ TakeEvents \/ TakePayload \/ CallFails
        \/ AskEvents \/ Interrupted \/ ApplyBatch \/ ApplySnapshot
        \/ PageReads \/ PageReadFails \/ ApplyRecovered
        \/ ApplyLate \/ ApplyReread \/ Finalize
Reader == ReaderReads \/ ReaderFails \/ ReaderApplies

Next == \/ Server /\ pc # "done" /\ UNCHANGED <<pageVars, readVars>>
        \/ OtherHandles \/ Native
        \/ Loop \/ Deadline \/ PollLost \/ DrainLate \/ RecoverDiff
        \/ ComeBack \/ Reader

Spec == Init /\ [][Next]_vars

\* Every call has a limit on events and time, and the page's continuations are
\* run by its event loop.  Nothing is assumed of the server, the user, the
\* deadline and the other conversations.
FairSpec == Spec /\ WF_vars(Native \/ Loop \/ Reader)

-----------------------------------------------------------------------------
\* Properties

\* The page reports an end only for the reason it names: the status the turn
\* has at the server; or the user's stop, the deadline, a failed native call
\* or a lost connection.  What else it can report has been seen: a failure
\* when the model's stream broke off and was tried again (lib.rs:4068), and
\* "in progress" for a turn that is over, when such a failure or a late report
\* reopened it (lib.rs:3776) or a read of the thread dropped it (lib.rs:5063).
EndHasReason ==
  pc = "done" => \/ outcome = ended
                 \/ outcome = "interrupted" /\ cause = "stop"
                 \/ outcome = "failed" /\ (cause \in {"deadline", "native"} \/ ~connected \/ errors > 0)
                 \/ outcome = "inProgress" /\ (errors > 0 \/ progress > 0 \/ reads > 0 \/ cause = "native")

\* What a page that reads no history has of the answer, with what it is yet to
\* be given, lacks no chunk the host has: however events and snapshots overlap,
\* nothing is skipped (CodexBackend.ets:3507, 3646, 3946).
InOrder(part, whole) ==
  \E at \in [1..Len(part) -> 1..Len(whole)] :
    /\ \A i \in 1..Len(part) : whole[at[i]] = part[i]
    /\ \A i, j \in 1..Len(part) : i < j => at[i] < at[j]
ToCome == LET polled == IF pc \in {"snapshot", "late"} THEN PollApplied(reply) ELSE Page
          IN BatchApplied(polled, reply.events \o turn.events)
NothingSkipped ==
  reads = 0 /\ pc \notin {"recovered", "history", "reread", "done"} => InOrder(text, ToCome.text)

\* When events end the loop of such a page and the turn is completed, the page
\* shows the answer exactly (lib.rs:4045, "权威终态").
EventEndIsExact ==
  [][pc = "batch" /\ pc' = "final" /\ outcome' = "completed" /\ reads = 0 => pageText' = Whole]_vars

\* When the page reports that the turn is completed, it shows the whole answer,
\* as it was streamed or as the history has it, whatever was read meanwhile; or
\* some of it twice, when an event repeated what a snapshot had brought and the
\* longer text was kept (CodexBackend.ets:3668).
Repeats(part) == \E i, j \in 1..Len(part) : i # j /\ part[i] = part[j]
CompletedIsShown ==
  [][pc # "done" /\ pc' = "done" /\ outcome' = "completed" /\ connected
       => pagePast' \/ InOrder(Whole, pageText') \/ Repeats(pageText')]_vars

\* What the comments say: the page of a completed turn holds the final text,
\* whatever events it has missed (lib.rs:4044).
CompletedIsWhole ==
  [][pc # "done" /\ pc' = "done" /\ outcome' = "completed" /\ connected => pagePast' \/ InOrder(Whole, pageText')]_vars

\* Once the turn is over at the server, the page comes to an end, unless the
\* connection is lost, a late report reopens the turn at the host, or a reader
\* of the thread drops it (CodexBackend.ets:3083).
Reopened == turn.known /\ turn.status = "inProgress" /\ progress > 0
EndIsSeen == ended # "inProgress" ~> (pc = "done" \/ ~connected \/ Reopened \/ ~turn.known)

\* What the protocol says: an error that will be retried does not end a turn
\* (app-server-protocol/src/protocol/v2.rs:3747).
RetryDoesNotEnd ==
  pc = "done" /\ outcome = "failed" => \/ ended = "failed"
                                       \/ cause \in {"deadline", "native"}
                                       \/ ~connected
=============================================================================
