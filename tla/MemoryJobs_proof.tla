-------------------------- MODULE MemoryJobs_proof --------------------------
(***************************************************************************)
(* Proofs about MemoryJobs, for any threads, workers, limits and bounds.   *)
(***************************************************************************)
EXTENDS MemoryJobs, FiniteSetTheorems, TLAPS

Stage1At == {"listed", "claimed", "sampled"}
Phase2At == {"consolidating", "picked"}

(***************************************************************************)
(* The inductive invariant.  A running row has a retry to lose, a worker   *)
(* of phase 1 has a thread, and no update is later than the clock.         *)
(***************************************************************************)
Typed == /\ JobsTypeOK
         /\ \A t \in Threads : jobs[t].status = "running" => jobs[t].retries > 0
         /\ global.status = "running" => global.retries > 0
         /\ \A w \in Workers : task[w].at \in Stage1At => task[w].thread \in Threads
         /\ \A t \in Threads : updated[t] <= clock

\* A token in use has been given, so that the next one is nobody's.
TokensGiven == /\ \A t \in Threads : jobs[t].token <= tokens
               /\ global.token <= tokens
               /\ \A w \in Workers : task[w].token <= tokens

\* What a worker of phase 1 holds: the row is as it left it as long as it owns it.
Stage1Held ==
  \A w \in Workers :
    /\ task[w].at \in Stage1At => task[w].mark <= updated[task[w].thread]
    /\ task[w].at = "sampled" => task[w].mark <= task[w].read
    /\ task[w].at \in {"claimed", "sampled"} /\ Owns(jobs[task[w].thread], task[w].token)
         => task[w].mark = jobs[task[w].thread].input /\ task[w].epoch = clears

\* The watermarks of the global row.
Watermarks == /\ global.success <= global.input
              /\ global.status = "running" => global.success < global.input
              /\ \A t \in Threads : out[t].source <= global.input

\* What the owner of the global row holds: whatever came after it had read the
\* outputs has moved the watermark past its own.
Phase2Held ==
  \A w \in Workers : task[w].at \in Phase2At /\ Owns(global, task[w].token) =>
    /\ task[w].mark <= global.input
    /\ task[w].at = "picked" /\ task[w].read < changes => task[w].mark < global.input
    /\ task[w].at = "picked" =>
         \A t \in Threads : task[w].picked[t] > 0 /\ mode[t] = "polluted"
                              => t \in late \/ task[w].mark < global.input

IInv == /\ Typed /\ TokensGiven
        /\ Stage1Held /\ SuccessCoversInput /\ ClearIsFinal
        /\ Watermarks /\ Phase2Held /\ ConsolidationNotLost /\ PollutedIsForgotten

-----------------------------------------------------------------------------
(* Rows *)

LEMMA ClaimedRow ==
  ASSUME NEW row \in Row, NEW token \in Nat
  PROVE  /\ Claimed(row, token) \in Row
         /\ Claimed(row, token).status = "running" /\ Claimed(row, token).token = token
         /\ Claimed(row, token).input = row.input /\ Claimed(row, token).success = row.success
         /\ Claimed(row, token).retries = row.retries
BY DEF Claimed, Row

LEMMA DoneRow ==
  ASSUME NEW row \in Row, NEW watermark \in Nat
  PROVE  /\ Done(row, watermark) \in Row
         /\ Done(row, watermark).status = "done" /\ Done(row, watermark).token = row.token
         /\ Done(row, watermark).input = row.input /\ Done(row, watermark).success = watermark
BY DEF Done, Row

LEMMA FailedRow ==
  ASSUME NEW row \in Row, row.retries > 0
  PROVE  /\ Failed(row) \in Row
         /\ Failed(row).status = "error" /\ Failed(row).token = row.token
         /\ Failed(row).input = row.input /\ Failed(row).success = row.success
<1>1. ASSUME NEW left \in Nat
      PROVE  [row EXCEPT !.status = "error", !.fresh = FALSE, !.backoff = TRUE, !.retries = left] \in Row
  BY DEF Row
<1>2. row.retries - 1 \in Nat
  BY DEF Row
<1>3. Failed(row) \in Row
  BY <1>1, <1>2 DEF Failed
<1> QED BY <1>3 DEF Failed, Row

\* However old the source, the watermark advances, at least to it.
LEMMA EnqueuedRow ==
  ASSUME NEW row \in Row, NEW mark \in Nat
  PROVE  /\ Enqueued(row, mark) \in Row
         /\ Enqueued(row, mark).status = "running" <=> row.status = "running"
         /\ Enqueued(row, mark).token = row.token
         /\ Enqueued(row, mark).success = row.success
         /\ Enqueued(row, mark).input > row.input /\ Enqueued(row, mark).input >= mark
         /\ Enqueued(row, mark).retries > 0
<1> DEFINE status == IF row.status = "running" THEN row.status ELSE "pending"
           backoff == IF row.status = "running" THEN row.backoff ELSE FALSE
           retries == Larger(row.retries, Retries)
           input == IF mark > row.input THEN mark ELSE row.input + 1
           new(s, b, r, i) == [row EXCEPT !.status = s, !.backoff = b, !.retries = r, !.input = i]
<1>1. ASSUME NEW s \in {"none", "pending", "running", "done", "error"}, NEW b \in BOOLEAN, NEW r \in Nat, NEW i \in Nat
      PROVE  /\ new(s, b, r, i) \in Row
             /\ new(s, b, r, i).status = s /\ new(s, b, r, i).token = row.token
             /\ new(s, b, r, i).success = row.success
             /\ new(s, b, r, i).retries = r /\ new(s, b, r, i).input = i
  BY DEF Row
<1>2. backoff \in BOOLEAN
  BY DEF Row
<1>3. status \in {"none", "pending", "running", "done", "error"} /\ (status = "running" <=> row.status = "running")
  BY DEF Row
<1>4. retries \in Nat /\ retries > 0
  BY LimitsAssumption DEF Row, Larger
<1>5. input \in Nat /\ input > row.input /\ input >= mark
  BY DEF Row
<1>6. Enqueued(row, mark) = new(status, backoff, retries, input)
  BY DEF Enqueued
<1> HIDE DEF status, backoff, retries, input, new
<1> QED BY <1>1, <1>2, <1>3, <1>4, <1>5, <1>6

-----------------------------------------------------------------------------
(* Steps *)

\* A worker gives up, or finds that its job is another's.
LEMMA TaskEnds ==
  ASSUME IInv, NEW w \in Workers, To(w, Idle),
         UNCHANGED <<clock, updated, mode, jobs, global, out, tokens, clears, history>>
  PROVE  IInv'
<1>1. Typed'
  BY DEF IInv, history, Typed, JobsTypeOK, To, Task, Idle, NonePicked, Stage1At
<1>2. TokensGiven'
  BY <1>1 DEF IInv, history, Typed, JobsTypeOK, TokensGiven, To, Task, Idle, NonePicked
<1>3. Stage1Held'
  BY <1>1 DEF IInv, history, Typed, JobsTypeOK, Stage1Held, Stage1At, Owns, To, Task, Idle, NonePicked
<1>4. SuccessCoversInput' /\ ClearIsFinal'
  BY <1>1 DEF IInv, history, Typed, JobsTypeOK, SuccessCoversInput, ClearIsFinal, To, Task, Idle, NonePicked
<1>5. Watermarks'
  BY <1>1 DEF IInv, history, Typed, JobsTypeOK, Watermarks, To, Task, Idle, NonePicked
<1>6. Phase2Held'
  BY <1>1 DEF IInv, history, Typed, JobsTypeOK, Phase2Held, Phase2At, Owns, To, Task, Idle, NonePicked
<1>7. ConsolidationNotLost' /\ PollutedIsForgotten'
  BY <1>1 DEF IInv, history, Typed, JobsTypeOK, ConsolidationNotLost, PollutedIsForgotten, Dirty, To, Task, Idle, NonePicked
<1> QED BY <1>1, <1>2, <1>3, <1>4, <1>5, <1>6, <1>7 DEF IInv

\* A worker of phase 1 goes on without touching the tables.
LEMMA ListKeeps ==
  ASSUME IInv, NEW w \in Workers, NEW t \in Threads, List(w, t)
  PROVE  IInv'
<1>1. Typed'
  BY DEF IInv, history, Typed, JobsTypeOK, List, To, Task, Idle, NonePicked, Stage1At
<1>2. TokensGiven'
  BY <1>1 DEF IInv, history, Typed, JobsTypeOK, TokensGiven, List, To, Task, Idle, NonePicked
<1>3. Stage1Held'
  BY <1>1 DEF IInv, history, Typed, JobsTypeOK, Stage1Held, Stage1At, Owns, List, To, Task, Idle, NonePicked
<1>4. SuccessCoversInput' /\ ClearIsFinal'
  BY <1>1 DEF IInv, history, Typed, JobsTypeOK, SuccessCoversInput, ClearIsFinal, List, To, Task, Idle, NonePicked
<1>5. Watermarks'
  BY <1>1 DEF IInv, history, Typed, JobsTypeOK, Watermarks, List, To, Task, Idle, NonePicked
<1>6. Phase2Held'
  BY <1>1 DEF IInv, history, Typed, JobsTypeOK, Phase2Held, Phase2At, Owns, List, To, Task, Idle, NonePicked
<1>7. ConsolidationNotLost' /\ PollutedIsForgotten'
  BY <1>1 DEF IInv, history, Typed, JobsTypeOK, ConsolidationNotLost, PollutedIsForgotten, Dirty, List, To, Task, Idle, NonePicked
<1> QED BY <1>1, <1>2, <1>3, <1>4, <1>5, <1>6, <1>7 DEF IInv

LEMMA SampleKeeps ==
  ASSUME IInv, NEW w \in Workers, Sample(w)
  PROVE  IInv'
<1>1. Typed'
  BY ZenonT(60) DEF IInv, history, Typed, JobsTypeOK, Sample, To, Task, Stage1At
<1>2. TokensGiven'
  BY <1>1 DEF IInv, history, Typed, JobsTypeOK, TokensGiven, Sample, To, Task
<1>3. Stage1Held'
  BY <1>1 DEF IInv, history, Typed, JobsTypeOK, Stage1Held, Stage1At, Owns, Sample, To, Task
<1>4. SuccessCoversInput' /\ ClearIsFinal'
  BY <1>1 DEF IInv, history, Typed, JobsTypeOK, SuccessCoversInput, ClearIsFinal, Sample, To, Task
<1>5. Watermarks'
  BY <1>1 DEF IInv, history, Typed, JobsTypeOK, Watermarks, Sample, To, Task
<1>6. Phase2Held'
  BY <1>1 DEF IInv, history, Typed, JobsTypeOK, Phase2Held, Phase2At, Owns, Sample, To, Task
<1>7. ConsolidationNotLost' /\ PollutedIsForgotten'
  BY <1>1 DEF IInv, history, Typed, JobsTypeOK, ConsolidationNotLost, PollutedIsForgotten, Dirty, Sample, To, Task
<1> QED BY <1>1, <1>2, <1>3, <1>4, <1>5, <1>6, <1>7 DEF IInv

LEMMA ClaimStage1Keeps ==
  ASSUME IInv, NEW w \in Workers, ClaimStage1(w)
  PROVE  IInv'
<1> DEFINE t == task[w].thread
           row == [Claimed(jobs[t], tokens') EXCEPT !.input = task[w].mark,
                     !.retries = IF task[w].mark > jobs[t].input THEN Retries ELSE jobs[t].retries]
           me == [task[w] EXCEPT !.at = "claimed", !.token = tokens', !.epoch = clears]
<1>a. t \in Threads /\ tokens \in Nat /\ tokens' = tokens + 1 /\ task[w] \in Task /\ jobs[t] \in Row
  BY DEF IInv, Typed, JobsTypeOK, ClaimStage1, Stage1At
<1>b. /\ row.status = "running" /\ row.token = tokens'
      /\ row.input = task[w].mark /\ row.success = jobs[t].success
      /\ row.retries > 0 /\ row \in Row
  <2>1. ASSUME NEW mark \in Nat, NEW left \in Nat, NEW claimed \in Row
        PROVE  [claimed EXCEPT !.input = mark, !.retries = left] \in Row
    BY DEF Row
  <2>2. Claimed(jobs[t], tokens') \in Row /\ Claimed(jobs[t], tokens').retries = jobs[t].retries
    BY <1>a, ClaimedRow
  <2>3. jobs[t].retries > 0 \/ task[w].mark > jobs[t].input
    BY DEF ClaimStage1, Claimable
  <2>4. (IF task[w].mark > jobs[t].input THEN Retries ELSE jobs[t].retries) \in Nat \ {0}
    BY <1>a, <2>3, LimitsAssumption DEF Row
  <2>5. row \in Row
    BY <1>a, <2>1, <2>2, <2>4 DEF Task
  <2> QED BY <1>a, <2>2, <2>4, <2>5, ClaimedRow DEF Row
<1>c. /\ me \in Task /\ me.at = "claimed" /\ me.token = tokens' /\ me.epoch = clears
      /\ me.thread = t /\ me.mark = task[w].mark
  <2>1. clears \in Nat /\ tokens' \in Nat
    BY <1>a DEF IInv, Typed, JobsTypeOK
  <2> QED BY <1>a, <2>1 DEF Task
<1>d. /\ jobs' = [jobs EXCEPT ![t] = row] /\ task' = [task EXCEPT ![w] = me]
      /\ task[w].at = "listed"
      /\ UNCHANGED <<clock, updated, mode, global, out, clears, history>>
  <2>1. jobs' = [jobs EXCEPT ![t] = row]
    BY DEF ClaimStage1
  <2> QED BY <2>1 DEF ClaimStage1, To
<1> HIDE DEF t, row, me
<1>1. Typed'
  BY <1>a, <1>b, <1>c, <1>d DEF IInv, history, Typed, JobsTypeOK, Stage1At
<1>2. TokensGiven'
  BY <1>a, <1>b, <1>c, <1>d, <1>1 DEF IInv, history, Typed, JobsTypeOK, TokensGiven, Row, Task
<1>3. Stage1Held'
  <2>1. ASSUME NEW v \in Workers, v # w
        PROVE  /\ task'[v] = task[v] /\ task[v].token < tokens'
               /\ task[v].at \in Stage1At => task[v].thread \in Threads
    BY <1>a, <1>d, <2>1 DEF IInv, Typed, JobsTypeOK, TokensGiven, Task
  <2>2. task'[w] = me
    BY <1>d DEF IInv, Typed, JobsTypeOK
  <2>3. jobs'[t] = row /\ \A u \in Threads : u # t => jobs'[u] = jobs[u]
    BY <1>a, <1>d DEF IInv, Typed, JobsTypeOK
  <2>4. task[w].mark <= updated[t]
    BY <1>d DEF IInv, Stage1Held, Stage1At, t
  <2> QED BY <1>a, <1>b, <1>c, <1>d, <2>1, <2>2, <2>3, <2>4 DEF IInv, Stage1Held, Stage1At, Owns
<1>4. SuccessCoversInput' /\ ClearIsFinal'
  BY <1>a, <1>b, <1>c, <1>d, <1>1 DEF IInv, history, Typed, JobsTypeOK, SuccessCoversInput, ClearIsFinal
<1>5. Watermarks'
  BY <1>a, <1>b, <1>c, <1>d, <1>1 DEF IInv, history, Typed, JobsTypeOK, Watermarks
<1>6. Phase2Held'
  BY <1>a, <1>b, <1>c, <1>d, <1>1 DEF IInv, history, Typed, JobsTypeOK, Phase2Held, Phase2At, Owns
<1>7. ConsolidationNotLost' /\ PollutedIsForgotten'
  BY <1>a, <1>b, <1>c, <1>d, <1>1 DEF IInv, history, Typed, JobsTypeOK, ConsolidationNotLost, PollutedIsForgotten, Dirty
<1> QED BY <1>1, <1>2, <1>3, <1>4, <1>5, <1>6, <1>7 DEF IInv

LEMMA Stage1SucceedsKeeps ==
  ASSUME IInv, NEW w \in Workers, Stage1Succeeds(w), Owns(jobs[task[w].thread], task[w].token)
  PROVE  IInv'
<1> DEFINE t == task[w].thread
           row == Done(jobs[t], jobs[t].input)
           mark == task[w].mark
<1>a. /\ t \in Threads /\ task[w] \in Task /\ jobs[t] \in Row /\ mark \in Nat /\ out[t].source \in Nat
      /\ jobs[t].input \in Nat /\ global \in Row
      /\ jobs[t].input = mark /\ task[w].epoch = clears /\ mark <= task[w].read
  BY DEF IInv, Typed, JobsTypeOK, Stage1Succeeds, Stage1At, Stage1Held, Task, Row, Owns
<1>b. /\ row \in Row /\ row.status = "done" /\ row.token = jobs[t].token
      /\ row.input = jobs[t].input /\ row.success = mark
  BY <1>a, DoneRow
<1>c. /\ jobs' = [jobs EXCEPT ![t] = row] /\ task' = [task EXCEPT ![w] = Idle]
      /\ covered' = [covered EXCEPT ![t] = task[w].read]
      /\ UNCHANGED <<clock, updated, mode, tokens, clears, consolidated, late>>
  BY DEF Stage1Succeeds, Accept, To
<1>d. /\ out' = IF mark >= out[t].source THEN [out EXCEPT ![t].source = mark] ELSE out
      /\ madeIn' = [madeIn EXCEPT ![t] = task[w].epoch]
      /\ global' = Enqueued(global, mark) /\ changes' = changes + 1
  BY DEF Stage1Succeeds, To
<1>e. /\ global' \in Row
      /\ global'.status = "running" <=> global.status = "running"
      /\ global'.token = global.token /\ global'.success = global.success
      /\ \/ /\ changes' = changes + 1 /\ global'.input > global.input /\ global'.input >= mark /\ global'.retries > 0
         \/ FALSE
  BY <1>a, <1>d, EnqueuedRow
<1>f. /\ out' \in [Threads -> [source : Nat, selected : BOOLEAN]]
      /\ \A u \in Threads : /\ out'[u].source \in {out[u].source, mark}
                            /\ (out'[u].selected => out[u].selected)
                            /\ (u # t => out'[u] = out[u])
  BY <1>a, <1>d DEF IInv, Typed, JobsTypeOK, NoOutput
<1> HIDE DEF t, row, mark
<1>1. Typed'
  BY <1>a, <1>b, <1>c, <1>d, <1>e, <1>f DEF IInv, history, Typed, JobsTypeOK, Task, Idle, NonePicked, NoOutput, Stage1At
<1>2. TokensGiven'
  BY <1>a, <1>b, <1>c, <1>d, <1>e, <1>f, <1>1 DEF IInv, history, Typed, JobsTypeOK, TokensGiven, Task, Idle, NonePicked, NoOutput
<1>3. Stage1Held'
  BY <1>a, <1>b, <1>c, <1>d, <1>e, <1>f, <1>1 DEF IInv, history, Typed, JobsTypeOK, Stage1Held, Stage1At, Owns, Task, Idle, NonePicked, NoOutput
<1>4. SuccessCoversInput' /\ ClearIsFinal'
  BY <1>a, <1>b, <1>c, <1>d, <1>e, <1>f, <1>1 DEF IInv, history, Typed, JobsTypeOK, SuccessCoversInput, ClearIsFinal, Task, Idle, NonePicked, NoOutput
<1>5. Watermarks'
  <2>1. /\ global'.success <= global'.input
        /\ global'.status = "running" => global'.success < global'.input
    BY <1>a, <1>e DEF IInv, Watermarks, Row
  <2>2. ASSUME NEW u \in Threads
        PROVE  out'[u].source <= global'.input
    <3>1. out[u].source <= global.input /\ out[u].source \in Nat
      BY DEF IInv, Typed, JobsTypeOK, Watermarks
    <3> QED BY <1>a, <1>e, <1>f, <3>1 DEF Row
  <2> QED BY <2>1, <2>2 DEF Watermarks
<1>6. Phase2Held'
  BY <1>a, <1>b, <1>c, <1>d, <1>e, <1>f, <1>1 DEF IInv, history, Typed, JobsTypeOK, Phase2Held, Phase2At, Owns, Task, Idle, NonePicked, NoOutput, Row
<1>7. ConsolidationNotLost' /\ PollutedIsForgotten'
  <2>1. changes' > changes => Dirty'
    BY <1>a, <1>e, <1>1 DEF IInv, Typed, JobsTypeOK, Watermarks, Dirty, Row
  <2>2. changes' = changes => UNCHANGED <<global, changes>>
    BY <1>e DEF IInv, Typed, JobsTypeOK
  <2>3. changes' > changes \/ changes' = changes
    BY <1>e DEF IInv, Typed, JobsTypeOK
  <2>4. CASE Dirty'
    BY <2>4 DEF ConsolidationNotLost, PollutedIsForgotten
  <2>5. CASE changes' = changes
    <3>1. ConsolidationNotLost'
      BY <1>c, <2>2, <2>5 DEF IInv, ConsolidationNotLost, Dirty
    <3>2. ASSUME NEW u \in Threads, mode[u] = "polluted", out'[u].selected
          PROVE  Dirty' \/ u \in late
      BY <1>f, <2>2, <2>5, <3>2 DEF IInv, PollutedIsForgotten, Dirty
    <3> QED BY <1>c, <3>1, <3>2 DEF PollutedIsForgotten
  <2> QED BY <2>1, <2>3, <2>4, <2>5
<1> QED BY <1>1, <1>2, <1>3, <1>4, <1>5, <1>6, <1>7 DEF IInv

LEMMA Stage1SucceedsWithoutKeeps ==
  ASSUME IInv, NEW w \in Workers, Stage1SucceedsWithout(w), Owns(jobs[task[w].thread], task[w].token)
  PROVE  IInv'
<1> DEFINE t == task[w].thread
           row == Done(jobs[t], jobs[t].input)
           mark == task[w].mark
<1>a. /\ t \in Threads /\ task[w] \in Task /\ jobs[t] \in Row /\ mark \in Nat /\ out[t].source \in Nat
      /\ jobs[t].input \in Nat /\ global \in Row
      /\ jobs[t].input = mark /\ task[w].epoch = clears /\ mark <= task[w].read
  BY DEF IInv, Typed, JobsTypeOK, Stage1SucceedsWithout, Stage1At, Stage1Held, Task, Row, Owns
<1>b. /\ row \in Row /\ row.status = "done" /\ row.token = jobs[t].token
      /\ row.input = jobs[t].input /\ row.success = mark
  BY <1>a, DoneRow
<1>c. /\ jobs' = [jobs EXCEPT ![t] = row] /\ task' = [task EXCEPT ![w] = Idle]
      /\ covered' = [covered EXCEPT ![t] = task[w].read]
      /\ UNCHANGED <<clock, updated, mode, tokens, clears, consolidated, late>>
  BY DEF Stage1SucceedsWithout, Accept, To
<1>d. /\ out' = [out EXCEPT ![t] = NoOutput] /\ UNCHANGED madeIn
      /\ \/ global' = Enqueued(global, mark) /\ changes' = changes + 1
         \/ UNCHANGED <<global, changes>>
  BY <1>a DEF Stage1SucceedsWithout, To
<1>e. /\ global' \in Row
      /\ global'.status = "running" <=> global.status = "running"
      /\ global'.token = global.token /\ global'.success = global.success
      /\ \/ /\ changes' = changes + 1 /\ global'.input > global.input /\ global'.input >= mark /\ global'.retries > 0
         \/ UNCHANGED <<global, changes>>
  <2>1. CASE UNCHANGED <<global, changes>>
    BY <1>a, <2>1
  <2>2. CASE global' = Enqueued(global, mark) /\ changes' = changes + 1
    BY <1>a, <2>2, EnqueuedRow
  <2> QED BY <1>d, <2>1, <2>2
<1>f. /\ out' \in [Threads -> [source : Nat, selected : BOOLEAN]]
      /\ \A u \in Threads : /\ out'[u].source \in {out[u].source, 0}
                            /\ (out'[u].selected => out[u].selected)
                            /\ (u # t => out'[u] = out[u])
  BY <1>a, <1>d DEF IInv, Typed, JobsTypeOK, NoOutput
<1> HIDE DEF t, row, mark
<1>1. Typed'
  BY <1>a, <1>b, <1>c, <1>d, <1>e, <1>f DEF IInv, history, Typed, JobsTypeOK, Task, Idle, NonePicked, NoOutput, Stage1At
<1>2. TokensGiven'
  BY <1>a, <1>b, <1>c, <1>d, <1>e, <1>f, <1>1 DEF IInv, history, Typed, JobsTypeOK, TokensGiven, Task, Idle, NonePicked, NoOutput
<1>3. Stage1Held'
  BY <1>a, <1>b, <1>c, <1>d, <1>e, <1>f, <1>1 DEF IInv, history, Typed, JobsTypeOK, Stage1Held, Stage1At, Owns, Task, Idle, NonePicked, NoOutput
<1>4. SuccessCoversInput' /\ ClearIsFinal'
  BY <1>a, <1>b, <1>c, <1>d, <1>e, <1>f, <1>1 DEF IInv, history, Typed, JobsTypeOK, SuccessCoversInput, ClearIsFinal, Task, Idle, NonePicked, NoOutput
<1>5. Watermarks'
  <2>1. /\ global'.success <= global'.input
        /\ global'.status = "running" => global'.success < global'.input
    BY <1>a, <1>e DEF IInv, Watermarks, Row
  <2>2. ASSUME NEW u \in Threads
        PROVE  out'[u].source <= global'.input
    <3>1. out[u].source <= global.input /\ out[u].source \in Nat
      BY DEF IInv, Typed, JobsTypeOK, Watermarks
    <3> QED BY <1>a, <1>e, <1>f, <3>1 DEF Row
  <2> QED BY <2>1, <2>2 DEF Watermarks
<1>6. Phase2Held'
  BY <1>a, <1>b, <1>c, <1>d, <1>e, <1>f, <1>1 DEF IInv, history, Typed, JobsTypeOK, Phase2Held, Phase2At, Owns, Task, Idle, NonePicked, NoOutput, Row
<1>7. ConsolidationNotLost' /\ PollutedIsForgotten'
  <2>1. changes' > changes => Dirty'
    BY <1>a, <1>e, <1>1 DEF IInv, Typed, JobsTypeOK, Watermarks, Dirty, Row
  <2>2. changes' = changes => UNCHANGED <<global, changes>>
    BY <1>e DEF IInv, Typed, JobsTypeOK
  <2>3. changes' > changes \/ changes' = changes
    BY <1>e DEF IInv, Typed, JobsTypeOK
  <2>4. CASE Dirty'
    BY <2>4 DEF ConsolidationNotLost, PollutedIsForgotten
  <2>5. CASE changes' = changes
    <3>1. ConsolidationNotLost'
      BY <1>c, <2>2, <2>5 DEF IInv, ConsolidationNotLost, Dirty
    <3>2. ASSUME NEW u \in Threads, mode[u] = "polluted", out'[u].selected
          PROVE  Dirty' \/ u \in late
      BY <1>f, <2>2, <2>5, <3>2 DEF IInv, PollutedIsForgotten, Dirty
    <3> QED BY <1>c, <3>1, <3>2 DEF PollutedIsForgotten
  <2> QED BY <2>1, <2>3, <2>4, <2>5
<1> QED BY <1>1, <1>2, <1>3, <1>4, <1>5, <1>6, <1>7 DEF IInv

LEMMA Stage1FailsKeeps ==
  ASSUME IInv, NEW w \in Workers, Stage1Fails(w), Owns(jobs[task[w].thread], task[w].token)
  PROVE  IInv'
<1> DEFINE t == task[w].thread
           row == Failed(jobs[t])
<1>a. t \in Threads /\ jobs[t] \in Row /\ jobs[t].retries > 0
  BY DEF IInv, Typed, JobsTypeOK, Stage1Fails, Stage1At, Owns
<1>b. /\ row \in Row /\ row.status = "error" /\ row.token = jobs[t].token
      /\ row.input = jobs[t].input /\ row.success = jobs[t].success
  BY <1>a, FailedRow
<1>c. /\ jobs' = [jobs EXCEPT ![t] = row] /\ task' = [task EXCEPT ![w] = Idle]
      /\ UNCHANGED <<clock, updated, mode, global, out, tokens, clears, history>>
  BY DEF Stage1Fails, To
<1> HIDE DEF t, row
<1>1. Typed'
  BY <1>a, <1>b, <1>c DEF IInv, history, Typed, JobsTypeOK, Task, Idle, NonePicked, Stage1At
<1>2. TokensGiven'
  BY <1>a, <1>b, <1>c, <1>1 DEF IInv, history, Typed, JobsTypeOK, TokensGiven, Task, Idle, NonePicked
<1>3. Stage1Held'
  BY <1>a, <1>b, <1>c, <1>1 DEF IInv, history, Typed, JobsTypeOK, Stage1Held, Stage1At, Owns, Task, Idle, NonePicked
<1>4. SuccessCoversInput' /\ ClearIsFinal'
  BY <1>a, <1>b, <1>c, <1>1 DEF IInv, history, Typed, JobsTypeOK, SuccessCoversInput, ClearIsFinal, Task, Idle, NonePicked
<1>5. Watermarks'
  BY <1>a, <1>b, <1>c, <1>1 DEF IInv, history, Typed, JobsTypeOK, Watermarks, Task, Idle, NonePicked
<1>6. Phase2Held'
  BY <1>a, <1>b, <1>c, <1>1 DEF IInv, history, Typed, JobsTypeOK, Phase2Held, Phase2At, Owns, Task, Idle, NonePicked
<1>7. ConsolidationNotLost' /\ PollutedIsForgotten'
  BY <1>a, <1>b, <1>c, <1>1 DEF IInv, history, Typed, JobsTypeOK, ConsolidationNotLost, PollutedIsForgotten, Dirty, Task, Idle, NonePicked
<1> QED BY <1>1, <1>2, <1>3, <1>4, <1>5, <1>6, <1>7 DEF IInv

LEMMA ClaimGlobalKeeps ==
  ASSUME IInv, NEW w \in Workers, ClaimGlobal(w)
  PROVE  IInv'
<1> DEFINE row == Claimed(global, tokens')
           me == [Idle EXCEPT !.at = "consolidating", !.token = tokens', !.mark = global.input, !.epoch = clears]
<1>a. /\ tokens \in Nat /\ tokens' = tokens + 1 /\ global \in Row /\ clears \in Nat
      /\ global.input > global.success /\ global.retries > 0
  BY DEF IInv, Typed, JobsTypeOK, ClaimGlobal
<1>b. /\ row \in Row /\ row.status = "running" /\ row.token = tokens' /\ row.input = global.input
      /\ row.success = global.success /\ row.retries = global.retries
  BY <1>a, ClaimedRow
<1>c. me \in Task /\ me.at = "consolidating" /\ me.token = tokens' /\ me.mark = global.input
  <2>1. Idle \in Task
    BY DEF Task, Idle, NonePicked
  <2>2. ASSUME NEW i \in Task, NEW a \in Nat, NEW b \in Nat, NEW c \in Nat
        PROVE  [i EXCEPT !.at = "consolidating", !.token = a, !.mark = b, !.epoch = c] \in Task
    BY DEF Task
  <2>3. tokens' \in Nat /\ global.input \in Nat /\ clears \in Nat
    BY <1>a DEF Row
  <2>4. me \in Task
    BY <2>1, <2>2, <2>3
  <2> QED BY <2>4 DEF Idle
<1>d. /\ global' = row /\ task' = [task EXCEPT ![w] = me]
      /\ UNCHANGED <<clock, updated, mode, jobs, out, clears, history>>
  BY DEF ClaimGlobal, To
<1> HIDE DEF row, me
<1>1. Typed'
  BY <1>a, <1>b, <1>c, <1>d DEF IInv, history, Typed, JobsTypeOK, Stage1At
<1>2. TokensGiven'
  BY <1>a, <1>b, <1>c, <1>d, <1>1 DEF IInv, history, Typed, JobsTypeOK, TokensGiven, Row, Task
<1>3. Stage1Held'
  BY <1>a, <1>b, <1>c, <1>d, <1>1 DEF IInv, history, Typed, JobsTypeOK, Stage1Held, Stage1At, Owns
<1>4. SuccessCoversInput' /\ ClearIsFinal'
  BY <1>a, <1>b, <1>c, <1>d, <1>1 DEF IInv, history, Typed, JobsTypeOK, SuccessCoversInput, ClearIsFinal
<1>5. Watermarks'
  BY <1>a, <1>b, <1>c, <1>d, <1>1 DEF IInv, history, Typed, JobsTypeOK, Watermarks, Row
<1>6. Phase2Held'
  <2>1. ASSUME NEW v \in Workers, v # w
        PROVE  task'[v] = task[v] /\ task[v].token < tokens'
    BY <1>a, <1>d, <2>1 DEF IInv, Typed, JobsTypeOK, TokensGiven, Task
  <2>2. task'[w] = me
    BY <1>d DEF IInv, Typed, JobsTypeOK
  <2> QED BY <1>a, <1>b, <1>c, <1>d, <2>1, <2>2 DEF Phase2Held, Phase2At, Owns, Row
<1>7. ConsolidationNotLost' /\ PollutedIsForgotten'
  BY <1>a, <1>b, <1>c, <1>d, <1>1 DEF IInv, history, Typed, JobsTypeOK, ConsolidationNotLost, PollutedIsForgotten, Dirty, Row
<1> QED BY <1>1, <1>2, <1>3, <1>4, <1>5, <1>6, <1>7 DEF IInv

LEMMA PickKeeps ==
  ASSUME IInv, NEW w \in Workers, Pick(w)
  PROVE  IInv'
<1>s. PICK selection \in SUBSET {t \in Threads : out[t].source > 0 /\ mode[t] = "enabled"} :
        \E mark \in {task[w].mark} \cup {out[t].source : t \in selection} :
           To(w, [task[w] EXCEPT !.at = "picked", !.mark = mark, !.read = changes,
                                 !.picked = [t \in Threads |-> IF t \in selection THEN out[t].source ELSE 0]])
  BY DEF Pick
<1>a. PICK mark \in {task[w].mark} \cup {out[t].source : t \in selection} :
        To(w, [task[w] EXCEPT !.at = "picked", !.mark = mark, !.read = changes,
                              !.picked = [t \in Threads |-> IF t \in selection THEN out[t].source ELSE 0]])
  BY <1>s
<1>u. /\ UNCHANGED <<clock, updated, mode, jobs, global, out, tokens, clears, history>>
      /\ task[w].at = "consolidating"
  BY DEF Pick
<1> DEFINE picked == [t \in Threads |-> IF t \in selection THEN out[t].source ELSE 0]
           me == [task[w] EXCEPT !.at = "picked", !.mark = mark, !.read = changes, !.picked = picked]
<1>b. /\ picked \in [Threads -> Nat]
      /\ \A t \in Threads : picked[t] > 0 => mode[t] = "enabled"
  BY DEF IInv, Typed, JobsTypeOK
<1>c. mark \in Nat /\ changes \in Nat /\ task[w] \in Task
  BY <1>a DEF IInv, Typed, JobsTypeOK, Task
<1>d. Owns(global, task[w].token) => mark <= global.input
  BY <1>a, <1>u DEF IInv, Phase2Held, Phase2At, Watermarks
<1> HIDE DEF picked
<1>e. /\ me \in Task /\ me.at = "picked" /\ me.token = task[w].token
      /\ me.mark = mark /\ me.read = changes /\ me.picked = picked
  BY <1>b, <1>c DEF Task
<1>f. /\ task' = [task EXCEPT ![w] = me]
      /\ UNCHANGED <<clock, updated, mode, jobs, global, out, tokens, clears, history>>
      /\ task[w].at = "consolidating"
  BY <1>a, <1>u DEF To, picked
<1> HIDE DEF me
<1>1. Typed'
  BY <1>b, <1>c, <1>d, <1>e, <1>f DEF IInv, history, Typed, JobsTypeOK, Stage1At
<1>2. TokensGiven'
  BY <1>b, <1>c, <1>d, <1>e, <1>f, <1>1 DEF IInv, history, Typed, JobsTypeOK, TokensGiven
<1>3. Stage1Held'
  BY <1>b, <1>c, <1>d, <1>e, <1>f, <1>1 DEF IInv, history, Typed, JobsTypeOK, Stage1Held, Stage1At, Owns
<1>4. SuccessCoversInput' /\ ClearIsFinal'
  BY <1>b, <1>c, <1>d, <1>e, <1>f, <1>1 DEF IInv, history, Typed, JobsTypeOK, SuccessCoversInput, ClearIsFinal
<1>5. Watermarks'
  BY <1>b, <1>c, <1>d, <1>e, <1>f, <1>1 DEF IInv, history, Typed, JobsTypeOK, Watermarks
<1>6. Phase2Held'
  <2>1. task'[w] = me /\ \A v \in Workers : v # w => task'[v] = task[v]
    BY <1>f DEF IInv, Typed, JobsTypeOK
  <2> QED BY <1>b, <1>c, <1>d, <1>e, <1>f, <2>1 DEF IInv, Phase2Held, Phase2At, Owns, history
<1>7. ConsolidationNotLost' /\ PollutedIsForgotten'
  BY <1>b, <1>c, <1>d, <1>e, <1>f, <1>1 DEF IInv, history, Typed, JobsTypeOK, ConsolidationNotLost, PollutedIsForgotten, Dirty
<1> QED BY <1>1, <1>2, <1>3, <1>4, <1>5, <1>6, <1>7 DEF IInv

LEMMA HeartbeatKeeps ==
  ASSUME IInv, NEW w \in Workers, Heartbeat(w), Owns(global, task[w].token)
  PROVE  IInv'
<1>a. /\ global' = [global EXCEPT !.fresh = TRUE] /\ global \in Row
      /\ UNCHANGED <<clock, updated, mode, jobs, out, task, tokens, clears, history>>
  BY DEF Heartbeat, IInv, Typed, JobsTypeOK
<1>b. /\ global' \in Row /\ global'.status = global.status /\ global'.token = global.token
      /\ global'.input = global.input /\ global'.success = global.success /\ global'.retries = global.retries
  BY <1>a DEF Row
<1>1. Typed'
  BY <1>a, <1>b DEF IInv, history, Typed, JobsTypeOK, Stage1At
<1>2. TokensGiven'
  BY <1>a, <1>b, <1>1 DEF IInv, history, Typed, JobsTypeOK, TokensGiven
<1>3. Stage1Held'
  BY <1>a, <1>b, <1>1 DEF IInv, history, Typed, JobsTypeOK, Stage1Held, Stage1At, Owns
<1>4. SuccessCoversInput' /\ ClearIsFinal'
  BY <1>a, <1>b, <1>1 DEF IInv, history, Typed, JobsTypeOK, SuccessCoversInput, ClearIsFinal
<1>5. Watermarks'
  BY <1>a, <1>b, <1>1 DEF IInv, history, Typed, JobsTypeOK, Watermarks
<1>6. Phase2Held'
  BY <1>a, <1>b, <1>1 DEF IInv, history, Typed, JobsTypeOK, Phase2Held, Phase2At, Owns
<1>7. ConsolidationNotLost' /\ PollutedIsForgotten'
  BY <1>a, <1>b, <1>1 DEF IInv, history, Typed, JobsTypeOK, ConsolidationNotLost, PollutedIsForgotten, Dirty
<1> QED BY <1>1, <1>2, <1>3, <1>4, <1>5, <1>6, <1>7 DEF IInv

LEMMA GlobalSucceedsKeeps ==
  ASSUME IInv, NEW w \in Workers, GlobalSucceeds(w), Owns(global, task[w].token)
  PROVE  IInv'
<1> DEFINE mark == task[w].mark
           success == Larger(global.success, mark)
           row == Done(global, success)
<1>a. global \in Row /\ task[w] \in Task /\ mark \in Nat /\ success \in Nat /\ task[w].read \in Nat
  BY DEF IInv, Typed, JobsTypeOK, Task, Row, Larger
<1>b. /\ row \in Row /\ row.status = "done" /\ row.token = global.token
      /\ row.input = global.input /\ row.success = success
  BY <1>a, DoneRow
<1>c. /\ global' = row /\ task' = [task EXCEPT ![w] = Idle] /\ consolidated' = task[w].read
      /\ out' = Selected(task[w].picked) /\ task[w].at = "picked"
      /\ UNCHANGED <<clock, updated, mode, jobs, tokens, clears, covered, madeIn, changes, late>>
  BY DEF GlobalSucceeds, To
<1>d. /\ mark <= global.input /\ global.success < global.input
      /\ task[w].read < changes => mark < global.input
      /\ \A t \in Threads : task[w].picked[t] > 0 /\ mode[t] = "polluted" => t \in late \/ mark < global.input
  BY <1>c DEF IInv, Phase2Held, Phase2At, Watermarks, Owns
<1>e. success <= global.input /\ (mark < global.input => success < global.input)
  BY <1>a, <1>d DEF Larger, Row
<1>f. /\ out' \in [Threads -> [source : Nat, selected : BOOLEAN]]
      /\ \A t \in Threads : /\ out'[t].source = out[t].source
                            /\ (out'[t].selected => task[w].picked[t] > 0)
  <2>1. ASSUME NEW t \in Threads
        PROVE  /\ out'[t] \in [source : Nat, selected : BOOLEAN]
               /\ out'[t].source = out[t].source
               /\ (out'[t].selected => task[w].picked[t] > 0)
    <3> DEFINE picked == out[t].source > 0 /\ task[w].picked[t] = out[t].source
    <3>1. out[t] \in [source : Nat, selected : BOOLEAN]
      BY DEF IInv, Typed, JobsTypeOK
    <3>2. out'[t] = [out[t] EXCEPT !.selected = picked]
      BY <1>c DEF Selected
    <3>3. picked \in BOOLEAN /\ (picked => task[w].picked[t] > 0)
      OBVIOUS
    <3> HIDE DEF picked
    <3> QED BY <3>1, <3>2, <3>3
  <2>2. out' = [t \in Threads |-> out'[t]]
    BY <1>c DEF Selected
  <2> QED BY <2>1, <2>2
<1> HIDE DEF mark, success, row
<1>1. Typed'
  BY <1>a, <1>b, <1>c, <1>d, <1>e, <1>f DEF IInv, history, Typed, JobsTypeOK, Task, Idle, NonePicked, Stage1At
<1>2. TokensGiven'
  BY <1>a, <1>b, <1>c, <1>d, <1>e, <1>f, <1>1 DEF IInv, history, Typed, JobsTypeOK, TokensGiven, Task, Idle, NonePicked
<1>3. Stage1Held'
  BY <1>a, <1>b, <1>c, <1>d, <1>e, <1>f, <1>1 DEF IInv, history, Typed, JobsTypeOK, Stage1Held, Stage1At, Owns, Task, Idle, NonePicked
<1>4. SuccessCoversInput' /\ ClearIsFinal'
  BY <1>a, <1>b, <1>c, <1>d, <1>e, <1>f, <1>1 DEF IInv, history, Typed, JobsTypeOK, SuccessCoversInput, ClearIsFinal, Task, Idle, NonePicked
<1>5. Watermarks'
  BY <1>a, <1>b, <1>c, <1>d, <1>e, <1>f, <1>1 DEF IInv, history, Typed, JobsTypeOK, Watermarks, Task, Idle, NonePicked
<1>6. Phase2Held'
  BY <1>a, <1>b, <1>c, <1>d, <1>e, <1>f, <1>1 DEF IInv, history, Typed, JobsTypeOK, Phase2Held, Phase2At, Owns, Task, Idle, NonePicked
<1>7. ConsolidationNotLost' /\ PollutedIsForgotten'
  BY <1>a, <1>b, <1>c, <1>d, <1>e, <1>f, <1>1 DEF IInv, history, Typed, JobsTypeOK, ConsolidationNotLost, PollutedIsForgotten, Dirty, Task, Idle, NonePicked
<1> QED BY <1>1, <1>2, <1>3, <1>4, <1>5, <1>6, <1>7 DEF IInv

LEMMA GlobalFailsKeeps ==
  ASSUME IInv, NEW w \in Workers, GlobalFails(w), global' = Failed(global), global.status = "running"
  PROVE  IInv'
<1>a. global \in Row /\ global.retries > 0
  BY DEF IInv, Typed, JobsTypeOK
<1>b. /\ global' \in Row /\ global'.status = "error" /\ global'.token = global.token
      /\ global'.input = global.input /\ global'.success = global.success
  BY <1>a, FailedRow
<1>c. /\ task' = [task EXCEPT ![w] = Idle]
      /\ UNCHANGED <<clock, updated, mode, jobs, out, tokens, clears, history>>
  BY DEF GlobalFails, To
<1>1. Typed'
  BY <1>a, <1>b, <1>c DEF IInv, history, Typed, JobsTypeOK, Task, Idle, NonePicked, Stage1At
<1>2. TokensGiven'
  BY <1>a, <1>b, <1>c, <1>1 DEF IInv, history, Typed, JobsTypeOK, TokensGiven, Task, Idle, NonePicked
<1>3. Stage1Held'
  BY <1>a, <1>b, <1>c, <1>1 DEF IInv, history, Typed, JobsTypeOK, Stage1Held, Stage1At, Owns, Task, Idle, NonePicked
<1>4. SuccessCoversInput' /\ ClearIsFinal'
  BY <1>a, <1>b, <1>c, <1>1 DEF IInv, history, Typed, JobsTypeOK, SuccessCoversInput, ClearIsFinal, Task, Idle, NonePicked
<1>5. Watermarks'
  BY <1>a, <1>b, <1>c, <1>1 DEF IInv, history, Typed, JobsTypeOK, Watermarks, Task, Idle, NonePicked
<1>6. Phase2Held'
  BY <1>a, <1>b, <1>c, <1>1 DEF IInv, history, Typed, JobsTypeOK, Phase2Held, Phase2At, Owns, Task, Idle, NonePicked
<1>7. ConsolidationNotLost' /\ PollutedIsForgotten'
  BY <1>a, <1>b, <1>c, <1>1 DEF IInv, history, Typed, JobsTypeOK, ConsolidationNotLost, PollutedIsForgotten, Dirty, Task, Idle, NonePicked
<1> QED BY <1>1, <1>2, <1>3, <1>4, <1>5, <1>6, <1>7 DEF IInv

\* The users and the clock.
LEMMA UpdateThreadKeeps ==
  ASSUME IInv, NEW t \in Threads, UpdateThread(t)
  PROVE  IInv'
<1>a. /\ clock \in Nat /\ clock' = clock + 1 /\ updated' = [updated EXCEPT ![t] = clock']
      /\ UNCHANGED <<mode, jobs, global, out, task, tokens, clears, history>>
  BY DEF UpdateThread, IInv, Typed, JobsTypeOK
<1>b. \A u \in Threads : updated[u] \in Nat /\ updated'[u] \in Nat /\ updated[u] <= updated'[u]
  BY <1>a DEF IInv, Typed, JobsTypeOK
<1>c. \A w \in Workers : /\ task[w].mark \in Nat
                         /\ task[w].at \in Stage1At => task[w].thread \in Threads
  BY DEF IInv, Typed, JobsTypeOK, Task
<1>1. Typed'
  BY <1>a, <1>b, <1>c DEF IInv, history, Typed, JobsTypeOK, Stage1At
<1>2. TokensGiven'
  BY <1>a, <1>b, <1>c, <1>1 DEF IInv, history, Typed, JobsTypeOK, TokensGiven
<1>3. Stage1Held'
  <2>1. ASSUME NEW w \in Workers, task[w].at \in Stage1At
        PROVE  task[w].mark <= updated'[task[w].thread]
    <3> DEFINE u == task[w].thread
    <3>1. task[w].mark <= updated[u] /\ task[w].mark \in Nat
      BY <1>c, <2>1 DEF IInv, Stage1Held
    <3>2. u \in Threads
      BY <1>c, <2>1
    <3> HIDE DEF u
    <3>3. updated[u] \in Nat /\ updated'[u] \in Nat /\ updated[u] <= updated'[u]
      BY <1>b, <3>2
    <3>4. task[w].mark <= updated'[u]
      BY <3>1, <3>3
    <3> QED BY <3>4 DEF u
  <2> QED BY <1>a, <2>1 DEF IInv, Stage1Held, Owns, history
<1>4. SuccessCoversInput' /\ ClearIsFinal'
  BY <1>a, <1>b, <1>c, <1>1 DEF IInv, history, Typed, JobsTypeOK, SuccessCoversInput, ClearIsFinal
<1>5. Watermarks'
  BY <1>a, <1>b, <1>c, <1>1 DEF IInv, history, Typed, JobsTypeOK, Watermarks
<1>6. Phase2Held'
  BY <1>a, <1>b, <1>c, <1>1 DEF IInv, history, Typed, JobsTypeOK, Phase2Held, Phase2At, Owns
<1>7. ConsolidationNotLost' /\ PollutedIsForgotten'
  BY <1>a, <1>b, <1>c, <1>1 DEF IInv, history, Typed, JobsTypeOK, ConsolidationNotLost, PollutedIsForgotten, Dirty
<1> QED BY <1>1, <1>2, <1>3, <1>4, <1>5, <1>6, <1>7 DEF IInv

LEMMA PolluteKeeps ==
  ASSUME IInv, NEW t \in Threads, Pollute(t)
  PROVE  IInv'
<1>a. /\ mode' = [mode EXCEPT ![t] = "polluted"]
      /\ late' = IF ~out[t].selected /\ PickedNow(t) THEN late \cup {t} ELSE late
      /\ UNCHANGED <<clock, updated, jobs, out, task, tokens, clears, covered, madeIn, changes, consolidated>>
  BY DEF Pollute
<1>b. /\ global' \in Row /\ global'.token = global.token /\ global'.success = global.success
      /\ global'.status = "running" <=> global.status = "running"
      /\ global'.input >= global.input
      /\ global.retries > 0 => global'.retries > 0
      /\ out[t].selected => global'.input > global.input
  <2>1. CASE out[t].selected
    <3>1. global' = Enqueued(global, clock) /\ global \in Row /\ clock \in Nat
      BY <2>1 DEF Pollute, IInv, Typed, JobsTypeOK
    <3>2. global.input \in Nat /\ global'.input \in Nat
      BY <3>1, EnqueuedRow DEF Row
    <3> DEFINE new == Enqueued(global, clock)
    <3>3. /\ new \in Row /\ new.token = global.token /\ new.success = global.success
          /\ (new.status = "running" <=> global.status = "running")
          /\ new.input > global.input /\ new.retries > 0
      BY <3>1, EnqueuedRow
    <3> HIDE DEF new
    <3> QED BY <3>1, <3>2, <3>3 DEF new
  <2>2. CASE ~out[t].selected
    BY <2>2 DEF Pollute, IInv, Typed, JobsTypeOK, Row
  <2> QED BY <2>1, <2>2
<1>c. late \subseteq late' /\ late' \subseteq Threads /\ (~out[t].selected /\ PickedNow(t) => t \in late')
  BY <1>a DEF IInv, Typed, JobsTypeOK
<1>d. /\ global \in Row /\ global.input \in Nat /\ global'.input \in Nat /\ global.success \in Nat
      /\ \A v \in Workers : task[v].mark \in Nat
  BY <1>b DEF IInv, Typed, JobsTypeOK, Task, Row
<1>1. Typed'
  BY <1>a, <1>b, <1>c, <1>d DEF IInv, history, Typed, JobsTypeOK, Stage1At
<1>2. TokensGiven'
  BY <1>a, <1>b, <1>c, <1>d, <1>1 DEF IInv, history, Typed, JobsTypeOK, TokensGiven
<1>3. Stage1Held'
  BY <1>a, <1>b, <1>c, <1>d, <1>1 DEF IInv, history, Typed, JobsTypeOK, Stage1Held, Stage1At, Owns
<1>4. SuccessCoversInput' /\ ClearIsFinal'
  BY <1>a, <1>b, <1>c, <1>d, <1>1 DEF IInv, history, Typed, JobsTypeOK, SuccessCoversInput, ClearIsFinal
<1>5. Watermarks'
  BY <1>a, <1>b, <1>c, <1>d, <1>1 DEF IInv, history, Typed, JobsTypeOK, Watermarks
<1>6. Phase2Held'
  <2> SUFFICES ASSUME NEW v \in Workers, task[v].at \in Phase2At, Owns(global, task[v].token)
               PROVE  /\ task[v].mark <= global'.input
                      /\ task[v].at = "picked" /\ task[v].read < changes => task[v].mark < global'.input
                      /\ task[v].at = "picked" =>
                           \A u \in Threads : task[v].picked[u] > 0 /\ mode'[u] = "polluted"
                                                 => u \in late' \/ task[v].mark < global'.input
    BY <1>a, <1>b DEF Phase2Held, Owns
  <2>1. /\ task[v].mark <= global'.input
        /\ task[v].at = "picked" /\ task[v].read < changes => task[v].mark < global'.input
    BY <1>b, <1>d DEF IInv, Phase2Held
  <2>2. ASSUME NEW u \in Threads, task[v].at = "picked", task[v].picked[u] > 0, mode'[u] = "polluted"
        PROVE  u \in late' \/ task[v].mark < global'.input
    <3>1. CASE u # t
      BY <1>a, <1>b, <1>c, <1>d, <2>2, <3>1 DEF IInv, Typed, JobsTypeOK, Phase2Held
    <3>2. CASE u = t /\ out[t].selected
      BY <1>b, <1>d, <3>2 DEF IInv, Phase2Held
    <3>3. CASE u = t /\ ~out[t].selected
      BY <1>c, <2>2, <3>3 DEF PickedNow
    <3> QED BY <3>1, <3>2, <3>3
  <2> QED BY <2>1, <2>2
<1>7. ConsolidationNotLost' /\ PollutedIsForgotten'
  <2>1. ConsolidationNotLost'
    BY <1>a, <1>b, <1>d DEF IInv, ConsolidationNotLost, Dirty
  <2>2. ASSUME NEW u \in Threads, mode'[u] = "polluted", out[u].selected
        PROVE  Dirty' \/ u \in late'
    <3>1. CASE u = t
      BY <1>b, <1>d, <2>2, <3>1 DEF IInv, Watermarks, Dirty
    <3>2. CASE u # t
      BY <1>a, <1>b, <1>c, <1>d, <2>2, <3>2 DEF IInv, Typed, JobsTypeOK, PollutedIsForgotten, Dirty
    <3> QED BY <3>1, <3>2
  <2> QED BY <1>a, <2>1, <2>2 DEF PollutedIsForgotten
<1> QED BY <1>1, <1>2, <1>3, <1>4, <1>5, <1>6, <1>7 DEF IInv

LEMMA PruneKeeps ==
  ASSUME IInv, NEW t \in Threads, Prune(t)
  PROVE  IInv'
<1>a. /\ out' = [out EXCEPT ![t] = NoOutput]
      /\ UNCHANGED <<clock, updated, mode, jobs, global, task, tokens, clears, history>>
  BY DEF Prune
<1>1. Typed'
  BY <1>a DEF IInv, history, Typed, JobsTypeOK, NoOutput, Stage1At
<1>2. TokensGiven'
  BY <1>a, <1>1 DEF IInv, history, Typed, JobsTypeOK, TokensGiven, NoOutput
<1>3. Stage1Held'
  BY <1>a, <1>1 DEF IInv, history, Typed, JobsTypeOK, Stage1Held, Stage1At, Owns, NoOutput
<1>4. SuccessCoversInput' /\ ClearIsFinal'
  BY <1>a, <1>1 DEF IInv, history, Typed, JobsTypeOK, SuccessCoversInput, ClearIsFinal, NoOutput
<1>5. Watermarks'
  BY <1>a, <1>1 DEF IInv, history, Typed, JobsTypeOK, Watermarks, NoOutput, Row
<1>6. Phase2Held'
  BY <1>a, <1>1 DEF IInv, history, Typed, JobsTypeOK, Phase2Held, Phase2At, Owns, NoOutput
<1>7. ConsolidationNotLost' /\ PollutedIsForgotten'
  BY <1>a, <1>1 DEF IInv, history, Typed, JobsTypeOK, ConsolidationNotLost, PollutedIsForgotten, Dirty, NoOutput
<1> QED BY <1>1, <1>2, <1>3, <1>4, <1>5, <1>6, <1>7 DEF IInv

LEMMA ClearKeeps ==
  ASSUME IInv, Clear
  PROVE  IInv'
<1>1. Typed'
  BY DEF IInv, history, Typed, JobsTypeOK, Clear, NoRow, NoOutput, Row, Stage1At
<1>2. TokensGiven'
  BY <1>1 DEF IInv, history, Typed, JobsTypeOK, TokensGiven, Clear, NoRow, NoOutput, Row
<1>3. Stage1Held'
  BY <1>1 DEF IInv, history, Typed, JobsTypeOK, Stage1Held, Stage1At, Owns, Clear, NoRow, NoOutput, Row
<1>4. SuccessCoversInput' /\ ClearIsFinal'
  BY <1>1 DEF IInv, history, Typed, JobsTypeOK, SuccessCoversInput, ClearIsFinal, Clear, NoRow, NoOutput, Row
<1>5. Watermarks'
  BY <1>1 DEF IInv, history, Typed, JobsTypeOK, Watermarks, Clear, NoRow, NoOutput, Row
<1>6. Phase2Held'
  BY <1>1 DEF IInv, history, Typed, JobsTypeOK, Phase2Held, Phase2At, Owns, Clear, NoRow, NoOutput, Row
<1>7. ConsolidationNotLost' /\ PollutedIsForgotten'
  BY <1>1 DEF IInv, history, Typed, JobsTypeOK, ConsolidationNotLost, PollutedIsForgotten, Dirty, Clear, NoRow, NoOutput, Row
<1> QED BY <1>1, <1>2, <1>3, <1>4, <1>5, <1>6, <1>7 DEF IInv

LEMMA ElapsedRow ==
  ASSUME NEW row \in Row, NEW next, Elapsed(row, next)
  PROVE  /\ next \in Row /\ next.status = row.status /\ next.token = row.token
         /\ next.input = row.input /\ next.success = row.success /\ next.retries = row.retries
<1>1. [row EXCEPT !.fresh = FALSE] \in Row /\ [row EXCEPT !.backoff = FALSE] \in Row
  BY DEF Row
<1> QED BY <1>1 DEF Elapsed, Row

LEMMA TimePassesKeeps ==
  ASSUME IInv, TimePasses
  PROVE  IInv'
<1>a. /\ global' \in Row /\ global'.status = global.status /\ global'.token = global.token
      /\ global'.input = global.input /\ global'.success = global.success /\ global'.retries = global.retries
  <2>1. CASE Elapsed(global, global')
    BY <2>1, ElapsedRow DEF IInv, Typed, JobsTypeOK
  <2>2. CASE global' = global
    BY <2>2 DEF IInv, Typed, JobsTypeOK
  <2> QED BY <2>1, <2>2 DEF TimePasses
<1>b. /\ jobs' \in [Threads -> Row]
      /\ \A t \in Threads :
           /\ jobs'[t].status = jobs[t].status /\ jobs'[t].token = jobs[t].token
           /\ jobs'[t].input = jobs[t].input /\ jobs'[t].success = jobs[t].success /\ jobs'[t].retries = jobs[t].retries
  <2>1. ASSUME NEW u \in Threads, NEW next, Elapsed(jobs[u], next), jobs' = [jobs EXCEPT ![u] = next]
        PROVE  <1>b!1 /\ <1>b!2
    BY <2>1, ElapsedRow DEF IInv, Typed, JobsTypeOK
  <2>2. CASE jobs' = jobs
    BY <2>2 DEF IInv, Typed, JobsTypeOK
  <2> QED BY <2>1, <2>2 DEF TimePasses
<1>c. UNCHANGED <<clock, updated, mode, out, task, tokens, clears, history>>
  BY DEF TimePasses
<1>1. Typed'
  BY <1>a, <1>b, <1>c DEF IInv, history, Typed, JobsTypeOK, Stage1At
<1>2. TokensGiven'
  BY <1>a, <1>b, <1>c, <1>1 DEF IInv, history, Typed, JobsTypeOK, TokensGiven
<1>3. Stage1Held'
  BY <1>a, <1>b, <1>c, <1>1 DEF IInv, history, Typed, JobsTypeOK, Stage1Held, Stage1At, Owns
<1>4. SuccessCoversInput' /\ ClearIsFinal'
  BY <1>a, <1>b, <1>c, <1>1 DEF IInv, history, Typed, JobsTypeOK, SuccessCoversInput, ClearIsFinal
<1>5. Watermarks'
  BY <1>a, <1>b, <1>c, <1>1 DEF IInv, history, Typed, JobsTypeOK, Watermarks
<1>6. Phase2Held'
  BY <1>a, <1>b, <1>c, <1>1 DEF IInv, history, Typed, JobsTypeOK, Phase2Held, Phase2At, Owns
<1>7. ConsolidationNotLost' /\ PollutedIsForgotten'
  BY <1>a, <1>b, <1>c, <1>1 DEF IInv, history, Typed, JobsTypeOK, ConsolidationNotLost, PollutedIsForgotten, Dirty
<1> QED BY <1>1, <1>2, <1>3, <1>4, <1>5, <1>6, <1>7 DEF IInv

LEMMA InitIInv == JobsInit => IInv
BY DEF JobsInit, IInv, Typed, JobsTypeOK, TokensGiven, Stage1Held, Stage1At, SuccessCoversInput, ClearIsFinal, Watermarks, Phase2Held,
       Phase2At, ConsolidationNotLost, PollutedIsForgotten, Dirty, Owns, NoRow, NoOutput, Idle, NonePicked, Row, Task

LEMMA NextIInv == IInv /\ [JobsNext]_jobsVars => IInv'
<1> SUFFICES ASSUME IInv, [JobsNext]_jobsVars
             PROVE  IInv'
  OBVIOUS
<1>1. CASE UNCHANGED jobsVars
  BY <1>1 DEF jobsVars, history, IInv, Typed, JobsTypeOK, TokensGiven, Stage1Held, SuccessCoversInput, ClearIsFinal, Watermarks,
              Phase2Held, ConsolidationNotLost, PollutedIsForgotten, Dirty, Owns
<1>2. ASSUME NEW w \in Workers, Stage1(w)
      PROVE  IInv'
  <2>1. ASSUME NEW t \in Threads, List(w, t)
        PROVE  IInv'
    BY <2>1, ListKeeps
  <2>2. CASE ClaimStage1(w)
    BY <2>2, ClaimStage1Keeps
  <2>3. CASE SkipStage1(w)
    BY <2>3, TaskEnds DEF SkipStage1
  <2>4. CASE Sample(w)
    BY <2>4, SampleKeeps
  <2>5. CASE Stage1Succeeds(w)
    <3>1. CASE Owns(jobs[task[w].thread], task[w].token)
      BY <2>5, <3>1, Stage1SucceedsKeeps
    <3>2. CASE ~Owns(jobs[task[w].thread], task[w].token)
      BY <2>5, <3>2, TaskEnds DEF Stage1Succeeds, history
    <3> QED BY <3>1, <3>2
  <2>6. CASE Stage1SucceedsWithout(w)
    <3>1. CASE Owns(jobs[task[w].thread], task[w].token)
      BY <2>6, <3>1, Stage1SucceedsWithoutKeeps
    <3>2. CASE ~Owns(jobs[task[w].thread], task[w].token)
      BY <2>6, <3>2, TaskEnds DEF Stage1SucceedsWithout, history
    <3> QED BY <3>1, <3>2
  <2>7. CASE Stage1Fails(w)
    <3>1. CASE Owns(jobs[task[w].thread], task[w].token)
      BY <2>7, <3>1, Stage1FailsKeeps
    <3>2. CASE ~Owns(jobs[task[w].thread], task[w].token)
      BY <2>7, <3>2, TaskEnds DEF Stage1Fails
    <3> QED BY <3>1, <3>2
  <2> QED BY <1>2, <2>1, <2>2, <2>3, <2>4, <2>5, <2>6, <2>7 DEF Stage1
<1>3. ASSUME NEW w \in Workers, Phase2(w)
      PROVE  IInv'
  <2>1. CASE ClaimGlobal(w)
    BY <2>1, ClaimGlobalKeeps
  <2>2. CASE Pick(w)
    BY <2>2, PickKeeps
  <2>3. CASE Heartbeat(w)
    <3>1. CASE Owns(global, task[w].token)
      BY <2>3, <3>1, HeartbeatKeeps
    <3>2. CASE ~Owns(global, task[w].token)
      BY <2>3, <3>2, TaskEnds DEF Heartbeat
    <3> QED BY <3>1, <3>2
  <2>4. CASE GlobalSucceeds(w)
    <3>1. CASE Owns(global, task[w].token)
      BY <2>4, <3>1, GlobalSucceedsKeeps
    <3>2. CASE ~Owns(global, task[w].token)
      BY <2>4, <3>2, TaskEnds DEF GlobalSucceeds, history
    <3> QED BY <3>1, <3>2
  <2>5. CASE GlobalFails(w)
    <3>1. CASE Owns(global, task[w].token) \/ Owns(global, 0)
      BY <2>5, <3>1, GlobalFailsKeeps DEF GlobalFails, Owns
    <3>2. CASE ~(Owns(global, task[w].token) \/ Owns(global, 0))
      BY <2>5, <3>2, TaskEnds DEF GlobalFails
    <3> QED BY <3>1, <3>2
  <2> QED BY <1>3, <2>1, <2>2, <2>3, <2>4, <2>5 DEF Phase2
<1>4. ASSUME NEW w \in Workers, Die(w)
      PROVE  IInv'
  BY <1>4, TaskEnds DEF Die
<1>5. ASSUME NEW t \in Threads, UpdateThread(t) \/ Pollute(t) \/ Prune(t)
      PROVE  IInv'
  BY <1>5, UpdateThreadKeeps, PolluteKeeps, PruneKeeps
<1>6. CASE Clear
  BY <1>6, ClearKeeps
<1>7. CASE TimePasses
  BY <1>7, TimePassesKeeps
<1> QED BY <1>1, <1>2, <1>3, <1>4, <1>5, <1>6, <1>7 DEF JobsNext

-----------------------------------------------------------------------------
(* Theorems *)

\* The tables and the workers keep their types; in particular no job loses a
\* retry it does not have (memories.rs:888, 1162).
THEOREM TypeCorrect == JobsSpec => []JobsTypeOK
<1>1. IInv => JobsTypeOK
  BY DEF IInv, Typed
<1> QED BY <1>1, InitIInv, NextIInv, PTL DEF JobsSpec

\* The success watermark of a thread never passes what the accepted result had
\* read, whoever else had claimed the job meanwhile (memories.rs:743).
THEOREM SuccessCovered == JobsSpec => []SuccessCoversInput
<1>1. IInv => SuccessCoversInput
  BY DEF IInv
<1> QED BY <1>1, InitIInv, NextIInv, PTL DEF JobsSpec

\* An output that no successful consolidation has read leaves the global job
\* dirty (memories.rs:1230).
THEOREM NoConsolidationLost == JobsSpec => []ConsolidationNotLost
<1>1. IInv => ConsolidationNotLost
  BY DEF IInv
<1> QED BY <1>1, InitIInv, NextIInv, PTL DEF JobsSpec

\* A polluted thread that is part of the last consolidation leaves the global
\* job dirty, but for those polluted during it (memories.rs:478).
THEOREM PollutedForgotten == JobsSpec => []PollutedIsForgotten
<1>1. IInv => PollutedIsForgotten
  BY DEF IInv
<1> QED BY <1>1, InitIInv, NextIInv, PTL DEF JobsSpec

\* Memories that were dropped are not brought back by a worker that had claimed
\* its job before (memories.rs:47, 743).
THEOREM ClearedForGood == JobsSpec => []ClearIsFinal
<1>1. IInv => ClearIsFinal
  BY DEF IInv
<1> QED BY <1>1, InitIInv, NextIInv, PTL DEF JobsSpec

-----------------------------------------------------------------------------
(* The limit on running jobs *)

RunningNow == {t \in Threads : Running(jobs[t])}

\* Every other step leaves no more jobs running.
LEMMA FewerRunning ==
  ASSUME RunningCapped, jobs' \in [Threads -> Row],
         \A t \in Threads : Running(jobs'[t]) => Running(jobs[t])
  PROVE  RunningCapped'
<1>1. RunningNow' \subseteq RunningNow
  BY DEF RunningNow, Running
<1>2. IsFiniteSet(RunningNow)
  BY ThreadsAssumption, FS_Subset DEF RunningNow
<1>3. Cardinality(RunningNow') <= Cardinality(RunningNow)
  BY <1>1, <1>2, FS_Subset
<1>4. Cardinality(RunningNow') \in Nat /\ Cardinality(RunningNow) \in Nat
  BY <1>1, <1>2, FS_Subset, FS_CardinalityType
<1> QED BY <1>3, <1>4, LimitsAssumption DEF RunningCapped, RunningNow

LEMMA ClaimRunning ==
  ASSUME IInv, RunningCapped, NEW w \in Workers, ClaimStage1(w)
  PROVE  RunningCapped'
<1> DEFINE t == task[w].thread
           others == {u \in Threads \ {t} : Running(jobs[u])}
<1>1. t \in Threads /\ jobs \in [Threads -> Row]
  BY DEF IInv, Typed, JobsTypeOK, ClaimStage1, Stage1At
<1>2. Cardinality(others) < MaxRunning
  BY DEF ClaimStage1, Claimable, OthersRunning
<1>3. RunningNow' \subseteq others \cup {t}
  BY <1>1 DEF RunningNow, Running, ClaimStage1
<1>4. IsFiniteSet(others) /\ t \notin others
  BY ThreadsAssumption, FS_Subset
<1>5. IsFiniteSet(others \cup {t}) /\ Cardinality(others \cup {t}) = Cardinality(others) + 1
  BY <1>4, FS_AddElement
<1>6. Cardinality(RunningNow') <= Cardinality(others \cup {t}) /\ IsFiniteSet(RunningNow')
  BY <1>3, <1>5, FS_Subset
<1>7. Cardinality(RunningNow') \in Nat /\ Cardinality(others) \in Nat
  BY <1>4, <1>6, FS_CardinalityType
<1> HIDE DEF others
<1> QED BY <1>2, <1>5, <1>6, <1>7, LimitsAssumption DEF RunningCapped, RunningNow

LEMMA NextRunning == IInv /\ IInv' /\ RunningCapped /\ [JobsNext]_jobsVars => RunningCapped'
<1> SUFFICES ASSUME IInv, IInv', RunningCapped, [JobsNext]_jobsVars
             PROVE  RunningCapped'
  OBVIOUS
<1>t. jobs \in [Threads -> Row] /\ jobs' \in [Threads -> Row]
  BY DEF IInv, Typed, JobsTypeOK
<1>1. ASSUME UNCHANGED jobs
      PROVE  RunningCapped'
  BY <1>1 DEF RunningCapped
<1>2. ASSUME NEW t \in Threads, NEW row, jobs' = [jobs EXCEPT ![t] = row],
             Running(row) => Running(jobs[t])
      PROVE  RunningCapped'
  BY <1>2, <1>t, FewerRunning DEF Running
<1>3. ASSUME NEW w \in Workers, Stage1(w)
      PROVE  RunningCapped'
  <2>1. CASE ClaimStage1(w)
    BY <2>1, ClaimRunning
  <2>2. CASE (\E t \in Threads : List(w, t)) \/ SkipStage1(w) \/ Sample(w)
    BY <1>1, <2>2 DEF List, SkipStage1, Sample
  <2>3. CASE Stage1Succeeds(w) \/ Stage1SucceedsWithout(w) \/ Stage1Fails(w)
    <3>1. task[w].thread \in Threads
      BY <2>3 DEF IInv, Typed, Stage1At, Stage1Succeeds, Stage1SucceedsWithout, Stage1Fails
    <3>2. /\ ~Running(Done(jobs[task[w].thread], jobs[task[w].thread].input))
          /\ ~Running(Failed(jobs[task[w].thread]))
      BY <1>t, <3>1 DEF Done, Failed, Running, Row
    <3> QED BY <1>1, <1>2, <2>3, <3>1, <3>2 DEF Stage1Succeeds, Stage1SucceedsWithout, Stage1Fails, Accept
  <2> QED BY <1>3, <2>1, <2>2, <2>3 DEF Stage1
<1>4. ASSUME NEW w \in Workers, Phase2(w) \/ Die(w)
      PROVE  RunningCapped'
  BY <1>1, <1>4 DEF Phase2, Die, ClaimGlobal, Pick, Heartbeat, GlobalSucceeds, GlobalFails
<1>5. ASSUME NEW t \in Threads, UpdateThread(t) \/ Pollute(t) \/ Prune(t)
      PROVE  RunningCapped'
  BY <1>1, <1>5 DEF UpdateThread, Pollute, Prune
<1>6. CASE Clear
  <2>1. \A t \in Threads : ~Running(jobs'[t])
    BY <1>6 DEF Clear, NoRow, Running
  <2> QED BY <1>t, <2>1, FewerRunning
<1>7. CASE TimePasses
  <2>1. ASSUME NEW t \in Threads, NEW row, Elapsed(jobs[t], row)
        PROVE  Running(row) => Running(jobs[t])
    BY <1>t, <2>1 DEF Elapsed, Running, Row
  <2> QED BY <1>1, <1>2, <1>7, <2>1 DEF TimePasses
<1>8. CASE UNCHANGED jobsVars
  BY <1>1, <1>8 DEF jobsVars
<1> QED BY <1>3, <1>4, <1>5, <1>6, <1>7, <1>8 DEF JobsNext

\* The jobs of phase 1 under a lease never exceed the limit (memories.rs:628).
THEOREM RunningLimited == JobsSpec => []RunningCapped
<1>1. JobsInit => RunningCapped
  <2>1. ASSUME JobsInit PROVE {t \in Threads : Running(jobs[t])} = {}
    BY <2>1 DEF JobsInit, NoRow, Running
  <2> QED BY <2>1, FS_EmptySet, LimitsAssumption DEF RunningCapped
<1> QED BY <1>1, InitIInv, NextIInv, NextRunning, PTL DEF JobsSpec
=============================================================================
