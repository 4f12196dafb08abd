----------------------------- MODULE MemoryJobs -----------------------------
(***************************************************************************)
(* The memory pipeline of the agent: jobs with leases and ownership tokens *)
(* in SQLite (codex-rs/state/src/runtime/memories.rs), and the two phases  *)
(* that claim them when a session starts (core/src/memories/phase1.rs,     *)
(* phase2.rs).                                                             *)
(*                                                                         *)
(* Phase 1 reads the history of one conversation ("thread") and stores an  *)
(* output; phase 2 consolidates the outputs of all of them under one       *)
(* global job, which every new output makes dirty again.  Sessions are in  *)
(* several processes; a transaction is one step, what a worker holds       *)
(* between two transactions may be stale, its lease may run out while it   *)
(* works, and it may die.                                                  *)
(*                                                                         *)
(* Times are numbers of the clock that dates a thread's updates; leases    *)
(* and retry delays run out at any moment.  Age limits, the size of a      *)
(* selection and the usage counts leave any subset of the outputs.         *)
(***************************************************************************)
EXTENDS Naturals, FiniteSets

CONSTANTS Threads,     \* conversations
          Workers,     \* tasks of any session: one stage-1 job or one consolidation
          None,        \* no thread
          MaxRunning,  \* max_running_jobs
          Retries,     \* DEFAULT_RETRY_REMAINING
          MaxClock,    \* bound: updates of threads
          MaxTokens,   \* bound: claims
          MaxClears    \* bound: times the memories are dropped

ASSUME ThreadsAssumption == IsFiniteSet(Threads) /\ None \notin Threads
ASSUME LimitsAssumption == MaxRunning \in Nat \ {0} /\ Retries \in Nat \ {0}
ASSUME JobsAssumption == MaxClock \in Nat /\ MaxTokens \in Nat /\ MaxClears \in Nat

VARIABLES
  clock,    \* the time of the latest update
  updated,  \* threads.updated_at
  mode,     \* threads.memory_mode
  jobs,     \* the row (memory_stage1, t) for each thread t
  global,   \* the row (memory_consolidate_global, 'global')
  out,      \* stage1_outputs: source_updated_at, 0 for no row; selected_for_phase2
  task,     \* what each worker does
  tokens,   \* the last ownership token given
  clears,   \* counter
  covered,  \* history: the update up to which the accepted result had read t
  madeIn,   \* history: the clears its worker had claimed after
  changes,  \* history: outputs stored or deleted by phase 1
  consolidated,  \* history: those the last successful consolidation had read
  late      \* history: threads polluted while a consolidation had picked them

history == <<covered, madeIn, changes, consolidated, late>>
jobsVars == <<clock, updated, mode, jobs, global, out, task, tokens, clears, history>>

NoRow == [status |-> "none", token |-> 0, fresh |-> FALSE, backoff |-> FALSE,
          retries |-> 0, input |-> 0, success |-> 0]
NoOutput == [source |-> 0, selected |-> FALSE]
NonePicked == [t \in Threads |-> 0]
Idle == [at |-> "idle", thread |-> None, token |-> 0, mark |-> 0, read |-> 0,
         epoch |-> 0, picked |-> NonePicked]

JobsInit == /\ clock = 1
        /\ updated = [t \in Threads |-> 1]
        /\ mode = [t \in Threads |-> "enabled"]
        /\ jobs = [t \in Threads |-> NoRow]
        /\ global = NoRow
        /\ out = [t \in Threads |-> NoOutput]
        /\ task = [w \in Workers |-> Idle]
        /\ tokens = 0 /\ clears = 0
        /\ covered = [t \in Threads |-> 0]
        /\ madeIn = [t \in Threads |-> 0]
        /\ changes = 0 /\ consolidated = 0
        /\ late = {}

-----------------------------------------------------------------------------
\* Rows of the table jobs.  fresh: lease_until > now; backoff: retry_at > now.

Running(row) == row.status = "running" /\ row.fresh

\* Wrong on purpose: a running row is anybody's.
OwnsAny(row, token) == row.status = "running"

Owns(row, token) == row.status = "running" /\ row.token = token

Claimed(row, token) ==
  [row EXCEPT !.status = "running", !.token = token, !.fresh = TRUE, !.backoff = FALSE]

Done(row, watermark) ==
  [row EXCEPT !.status = "done", !.fresh = FALSE, !.success = watermark]

Failed(row) ==
  [row EXCEPT !.status = "error", !.fresh = FALSE, !.backoff = TRUE, !.retries = @ - 1]

Larger(a, b) == IF a > b THEN a ELSE b

\* Wrong on purpose: an older source does not advance the watermark.
EnqueuedAtMost(row, mark) ==
  [row EXCEPT !.status = IF @ = "running" THEN @ ELSE "pending",
              !.backoff = IF row.status = "running" THEN @ ELSE FALSE,
              !.retries = Larger(@, Retries),
              !.input = Larger(@, mark)]

\* enqueue_global_consolidation_with_executor
Enqueued(row, mark) ==
  [row EXCEPT !.status = IF @ = "running" THEN @ ELSE "pending",
              !.backoff = IF row.status = "running" THEN @ ELSE FALSE,
              !.retries = Larger(@, Retries),
              !.input = IF mark > @ THEN mark ELSE @ + 1]

-----------------------------------------------------------------------------
\* Phase 1

To(w, next) == task' = [task EXCEPT ![w] = next]

\* claim_stage1_jobs_for_startup lists the stale threads...
List(w, t) ==
  /\ task[w].at = "idle"
  /\ mode[t] = "enabled"
  /\ out[t].source < updated[t] /\ jobs[t].success < updated[t]
  /\ To(w, [Idle EXCEPT !.at = "listed", !.thread = t, !.mark = updated[t]])
  /\ UNCHANGED <<clock, updated, mode, jobs, global, out, tokens, clears, history>>

UpToDate(t, source) == out[t].source >= source \/ jobs[t].success >= source

OthersRunning(t) == Cardinality({u \in Threads \ {t} : Running(jobs[u])})

\* Wrong on purpose: the cap is on the jobs before this one.
ClaimableOver(t, source) ==
  LET newer == source > jobs[t].input
  IN /\ ~Running(jobs[t])
     /\ ~jobs[t].backoff \/ newer
     /\ jobs[t].retries > 0 \/ newer
     /\ OthersRunning(t) <= MaxRunning

Claimable(t, source) ==
  LET newer == source > jobs[t].input
  IN /\ ~Running(jobs[t])
     /\ ~jobs[t].backoff \/ newer
     /\ jobs[t].retries > 0 \/ newer
     /\ OthersRunning(t) < MaxRunning

\* ... and try_claim_stage1_job claims them one by one.
ClaimStage1(w) ==
  LET t == task[w].thread
      source == task[w].mark
  IN /\ task[w].at = "listed"
     /\ ~UpToDate(t, source) /\ Claimable(t, source)
     /\ tokens < MaxTokens
     /\ tokens' = tokens + 1
     /\ jobs' = [jobs EXCEPT ![t] =
                   [Claimed(jobs[t], tokens') EXCEPT
                      !.input = source,
                      !.retries = IF source > jobs[t].input THEN Retries ELSE jobs[t].retries]]
     /\ To(w, [task[w] EXCEPT !.at = "claimed", !.token = tokens', !.epoch = clears])
     /\ UNCHANGED <<clock, updated, mode, global, out, clears, history>>

SkipStage1(w) ==
  /\ task[w].at = "listed"
  /\ UpToDate(task[w].thread, task[w].mark) \/ ~Claimable(task[w].thread, task[w].mark)
  /\ To(w, Idle)
  /\ UNCHANGED <<clock, updated, mode, jobs, global, out, tokens, clears, history>>

\* job::sample reads the rollout and asks the model.
Sample(w) ==
  /\ task[w].at = "claimed"
  /\ To(w, [task[w] EXCEPT !.at = "sampled", !.read = updated[task[w].thread]])
  /\ UNCHANGED <<clock, updated, mode, jobs, global, out, tokens, clears, history>>

\* mark_stage1_job_succeeded, mark_stage1_job_succeeded_no_output
Accept(w) ==
  LET t == task[w].thread
  IN /\ jobs' = [jobs EXCEPT ![t] = Done(@, @.input)]
     /\ covered' = [covered EXCEPT ![t] = task[w].read]

Stage1Succeeds(w) ==
  LET t == task[w].thread
  IN /\ task[w].at = "sampled"
     /\ IF Owns(jobs[t], task[w].token)
        THEN /\ Accept(w)
             /\ out' = IF task[w].mark >= out[t].source THEN [out EXCEPT ![t].source = task[w].mark] ELSE out
             /\ madeIn' = [madeIn EXCEPT ![t] = task[w].epoch]
             /\ global' = Enqueued(global, task[w].mark)
             /\ changes' = changes + 1
        ELSE UNCHANGED <<jobs, covered, out, madeIn, global, changes>>
     /\ To(w, Idle)
     /\ UNCHANGED <<clock, updated, mode, tokens, clears, consolidated, late>>

Stage1SucceedsWithout(w) ==
  LET t == task[w].thread
  IN /\ task[w].at = "sampled"
     /\ IF Owns(jobs[t], task[w].token)
        THEN /\ Accept(w)
             /\ out' = [out EXCEPT ![t] = NoOutput]
             /\ IF out[t].source > 0
                THEN global' = Enqueued(global, jobs[t].input) /\ changes' = changes + 1
                ELSE UNCHANGED <<global, changes>>
        ELSE UNCHANGED <<jobs, covered, out, global, changes>>
     /\ To(w, Idle)
     /\ UNCHANGED <<clock, updated, mode, tokens, clears, madeIn, consolidated, late>>

Stage1Fails(w) ==
  LET t == task[w].thread
  IN /\ task[w].at \in {"claimed", "sampled"}
     /\ jobs' = IF Owns(jobs[t], task[w].token) THEN [jobs EXCEPT ![t] = Failed(@)] ELSE jobs
     /\ To(w, Idle)
     /\ UNCHANGED <<clock, updated, mode, global, out, tokens, clears, history>>

-----------------------------------------------------------------------------
\* Phase 2

\* try_claim_global_phase2_job
ClaimGlobal(w) ==
  /\ task[w].at = "idle"
  /\ global.input > global.success
  /\ global.retries > 0 /\ ~global.backoff /\ ~Running(global)
  /\ tokens < MaxTokens
  /\ tokens' = tokens + 1
  /\ global' = Claimed(global, tokens')
  /\ To(w, [Idle EXCEPT !.at = "consolidating", !.token = tokens', !.mark = global.input, !.epoch = clears])
  /\ UNCHANGED <<clock, updated, mode, jobs, out, clears, history>>

\* get_phase2_input_selection; get_watermark
Pick(w) ==
  /\ task[w].at = "consolidating"
  /\ \E selection \in SUBSET {t \in Threads : out[t].source > 0 /\ mode[t] = "enabled"} :
     \E mark \in {task[w].mark} \cup {out[t].source : t \in selection} :
       /\ mark >= task[w].mark
       /\ \A t \in selection : mark >= out[t].source
       /\ To(w, [task[w] EXCEPT !.at = "picked", !.mark = mark, !.read = changes,
                                !.picked = [t \in Threads |-> IF t \in selection THEN out[t].source ELSE 0]])
  /\ UNCHANGED <<clock, updated, mode, jobs, global, out, tokens, clears, history>>

\* loop_agent, heartbeat_global_phase2_job; without the row the agent is given up.
Heartbeat(w) ==
  /\ task[w].at = "picked"
  /\ IF Owns(global, task[w].token)
     THEN global' = [global EXCEPT !.fresh = TRUE] /\ UNCHANGED task
     ELSE To(w, Idle) /\ UNCHANGED global
  /\ UNCHANGED <<clock, updated, mode, jobs, out, tokens, clears, history>>

\* Only the exact snapshots are marked.
Selected(picked) ==
  [t \in Threads |-> [out[t] EXCEPT !.selected = out[t].source > 0 /\ picked[t] = out[t].source]]

\* mark_global_phase2_job_succeeded
GlobalSucceeds(w) ==
  /\ task[w].at = "picked"
  /\ IF Owns(global, task[w].token)
     THEN /\ global' = Done(global, Larger(global.success, task[w].mark))
          /\ out' = Selected(task[w].picked)
          /\ consolidated' = task[w].read
     ELSE UNCHANGED <<global, out, consolidated>>
  /\ To(w, Idle)
  /\ UNCHANGED <<clock, updated, mode, jobs, tokens, clears, covered, madeIn, changes, late>>

\* mark_global_phase2_job_failed, then mark_global_phase2_job_failed_if_unowned
GlobalFails(w) ==
  /\ task[w].at \in {"consolidating", "picked"}
  /\ global' = IF Owns(global, task[w].token) \/ Owns(global, 0) THEN Failed(global) ELSE global
  /\ To(w, Idle)
  /\ UNCHANGED <<clock, updated, mode, jobs, out, tokens, clears, history>>

-----------------------------------------------------------------------------
\* The users, the clock, and deaths

\* The thread is resumed and goes on.
UpdateThread(t) ==
  /\ clock < MaxClock
  /\ clock' = clock + 1
  /\ updated' = [updated EXCEPT ![t] = clock']
  /\ UNCHANGED <<mode, jobs, global, out, task, tokens, clears, history>>

PickedNow(t) == \E w \in Workers : /\ task[w].at = "picked" /\ task[w].picked[t] > 0
                                   /\ Owns(global, task[w].token)

\* Wrong on purpose: consolidation is left for the next output.
PolluteOnly(t) ==
  /\ mode[t] # "polluted"
  /\ mode' = [mode EXCEPT ![t] = "polluted"]
  /\ global' = global
  /\ late' = IF ~out[t].selected /\ PickedNow(t) THEN late \cup {t} ELSE late
  /\ UNCHANGED <<clock, updated, jobs, out, task, tokens, clears, covered, madeIn, changes, consolidated>>

\* mark_thread_memory_mode_polluted
Pollute(t) ==
  /\ mode[t] # "polluted"
  /\ mode' = [mode EXCEPT ![t] = "polluted"]
  /\ global' = IF out[t].selected THEN Enqueued(global, clock) ELSE global
  /\ late' = IF ~out[t].selected /\ PickedNow(t) THEN late \cup {t} ELSE late
  /\ UNCHANGED <<clock, updated, jobs, out, task, tokens, clears, covered, madeIn, changes, consolidated>>

\* prune_stage1_outputs_for_retention, of an output that is old enough
Prune(t) ==
  /\ out[t].source > 0 /\ ~out[t].selected
  /\ out' = [out EXCEPT ![t] = NoOutput]
  /\ UNCHANGED <<clock, updated, mode, jobs, global, task, tokens, clears, history>>

\* Wrong on purpose: the jobs of phase 1 are left.
ClearOutputsOnly ==
  /\ clears < MaxClears
  /\ clears' = clears + 1
  /\ out' = [t \in Threads |-> NoOutput]
  /\ jobs' = jobs
  /\ global' = NoRow
  /\ mode' = [t \in Threads |-> IF mode[t] = "enabled" THEN "disabled" ELSE mode[t]]
  /\ consolidated' = changes
  /\ UNCHANGED <<clock, updated, task, tokens, covered, madeIn, changes, late>>

\* clear_memory_data_inner, with or without disabling the threads there are
Clear ==
  /\ clears < MaxClears
  /\ clears' = clears + 1
  /\ out' = [t \in Threads |-> NoOutput]
  /\ jobs' = [t \in Threads |-> NoRow]
  /\ global' = NoRow
  /\ \/ mode' = [t \in Threads |-> IF mode[t] = "enabled" THEN "disabled" ELSE mode[t]]
     \/ UNCHANGED mode
  /\ consolidated' = changes
  /\ UNCHANGED <<clock, updated, task, tokens, covered, madeIn, changes, late>>

Elapsed(row, next) == \/ Running(row) /\ next = [row EXCEPT !.fresh = FALSE]
                      \/ row.backoff /\ next = [row EXCEPT !.backoff = FALSE]

TimePasses ==
  /\ \/ Elapsed(global, global') /\ UNCHANGED jobs
     \/ /\ \E t \in Threads : \E next \in {[jobs[t] EXCEPT !.fresh = FALSE], [jobs[t] EXCEPT !.backoff = FALSE]} :
             Elapsed(jobs[t], next) /\ jobs' = [jobs EXCEPT ![t] = next]
        /\ UNCHANGED global
  /\ UNCHANGED <<clock, updated, mode, out, task, tokens, clears, history>>

Die(w) ==
  /\ task[w].at # "idle"
  /\ To(w, Idle)
  /\ UNCHANGED <<clock, updated, mode, jobs, global, out, tokens, clears, history>>

Stage1(w) == \/ \E t \in Threads : List(w, t)
             \/ ClaimStage1(w) \/ SkipStage1(w) \/ Sample(w)
             \/ Stage1Succeeds(w) \/ Stage1SucceedsWithout(w) \/ Stage1Fails(w)
Phase2(w) == ClaimGlobal(w) \/ Pick(w) \/ Heartbeat(w) \/ GlobalSucceeds(w) \/ GlobalFails(w)

JobsNext == \/ \E w \in Workers : Stage1(w) \/ Phase2(w) \/ Die(w)
        \/ \E t \in Threads : UpdateThread(t) \/ Pollute(t) \/ Prune(t)
        \/ Clear \/ TimePasses

JobsSpec == JobsInit /\ [][JobsNext]_jobsVars

-----------------------------------------------------------------------------
\* Properties

Row == [status : {"none", "pending", "running", "done", "error"}, token : Nat,
        fresh : BOOLEAN, backoff : BOOLEAN, retries : Nat, input : Nat, success : Nat]
Task == [at : {"idle", "listed", "claimed", "sampled", "consolidating", "picked"},
         thread : Threads \cup {None}, token : Nat, mark : Nat, read : Nat, epoch : Nat,
         picked : [Threads -> Nat]]

JobsTypeOK == /\ clock \in Nat /\ tokens \in Nat /\ clears \in Nat
          /\ updated \in [Threads -> Nat]
          /\ mode \in [Threads -> {"enabled", "polluted", "disabled"}]
          /\ jobs \in [Threads -> Row] /\ global \in Row
          /\ out \in [Threads -> [source : Nat, selected : BOOLEAN]]
          /\ task \in [Workers -> Task]
          /\ covered \in [Threads -> Nat] /\ madeIn \in [Threads -> Nat]
          /\ changes \in Nat /\ consolidated \in Nat
          /\ late \subseteq Threads

(***************************************************************************)
(* However claims, thefts of expired leases and failures of several        *)
(* sessions interleave, the jobs of phase 1 under a lease never exceed the *)
(* limit (memories.rs:628).                                                *)
(***************************************************************************)
RunningCapped == Cardinality({t \in Threads : Running(jobs[t])}) <= MaxRunning

(***************************************************************************)
(* last_success_watermark, which keeps a thread from being processed       *)
(* again, never passes what the accepted result had read of the thread,    *)
(* also when the worker has lost its lease to another (memories.rs:743).   *)
(***************************************************************************)
SuccessCoversInput == \A t \in Threads : jobs[t].success > 0 => jobs[t].success <= covered[t]

Dirty == global.input > global.success

(***************************************************************************)
(* As long as an output was stored or deleted that the last successful     *)
(* consolidation had not read, the global job is dirty, so that the next   *)
(* session consolidates again; whatever its source's age and whichever     *)
(* consolidation was under way (memories.rs:1230, phase2.rs:456).          *)
(***************************************************************************)
ConsolidationNotLost == consolidated < changes => Dirty

(***************************************************************************)
(* A thread that is polluted while its output is part of the last          *)
(* successful consolidation is consolidated away: until then the global    *)
(* job is dirty (memories.rs:478).  Not so if a consolidation has picked   *)
(* it but is not finished: it counts as unselected, and its selection is   *)
(* recorded afterwards.                                                    *)
(***************************************************************************)
PollutedIsForgotten ==
  \A t \in Threads : mode[t] = "polluted" /\ out[t].selected => Dirty \/ t \in late

(***************************************************************************)
(* When memories are dropped (memories.rs:47), no worker that had claimed  *)
(* its job before brings one back.                                         *)
(***************************************************************************)
ClearIsFinal == \A t \in Threads : out[t].source > 0 => madeIn[t] = clears
=============================================================================
