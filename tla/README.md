# A formal model of ArkPilot

ArkPilot is a HarmonyOS app (`src/Agent`, ArkTS) that runs the Rust agent of
`src/codex-main/codex-rs` inside its own process: `ohos-host` starts the app-server on a
loopback websocket, connects to it with `app-server-client`, and offers the app C functions
that block the calling thread. The parts that are hard to get right lie between these layers:
who holds the only client across an `await`, what happens to events and approvals when a
channel is full, which session a turn runs in when threads are closed and resumed around it,
and what is left on disk after a kill.

These modules model that core in TLA+. TLC checks small instances; TLAPS proves the theorems
listed below for every value of the constants. Paths are relative to
`src/codex-main/codex-rs` or, for `.ets` files, to `src/Agent/entry/src/main/ets`.

    tlc -config RemoteClient.cfg MCRemoteClient     # a run: see the table of runs
    tlapm RemoteClient_proof.tla                    # a proof

## The system

| Component | State | Operations | Interacts with |
|---|---|---|---|
| Remote client, `app-server-client/src/remote.rs` | command channel, event channel, `pending_requests`, `skipped_events` | request, notify, resolve/reject, shutdown, next_event; the worker task | app-server by websocket, host by two channels |
| Host conversation state, `ohos-host/src/lib.rs` | runtime mutex, `state.client`, `pending_approval`, threads, turns | about 40 FFI calls | the client it takes and puts back; the app's main and taskpool threads |
| Host lifecycle, `ohos-host/src/lib.rs` 903-924, 1297-1406 | `HOST_STATE.running`, a thread per server | start, ready probe, report of the server's end | the app's `onCreate`, the embedded app-server |
| Thread refresh, `lib.rs` 5243-5381, `backend/CodexBackend.ets`, `app-server/src/codex_message_processor.rs` | loaded session, subscribers, `pending_thread_unloads`, watch status, listener queue | resume, unsubscribe, read, turn/start, closing tasks | host by requests and `ThreadClosed`, sessions of `core` |
| Prompts registry, `ohos-host/src/prompts_registry.rs`, `prompts/*.ets` | `prompts-registry.json`, `AGENTS.md`, the page's copy, a marker file | load, enable, disable, save, delete, first import | the settings page; the agent, which edits `AGENTS.md` |
| Turn state and events, `lib.rs` 3738-4090, 4846-5063 | turns with their status, messages, diffs and pending events | a handler per notification; taking the events, the whole state, the history | host conversation, the page's loop |
| Token ledger and snapshots, `lib.rs` 256-380, 4092-4189, and the sessions' totals, `core/src/codex.rs` 3716-3824 | `token-usage.json`, `thread-context.json` | load, update, save, archive | turn events |
| Memory jobs, `state/src/runtime/memories.rs`, `core/src/memories` | `jobs` and `stage1_outputs` in SQLite, memory files | claim, heartbeat, succeed, fail, consolidate, pollute, prune, clear | workers of every session, agent threads |
| Session turns, `core/src/codex.rs`, `core/src/tasks`, `core/src/state/turn.rs` | `active_turn` with pending input and approvals, mailbox, tasks | user input, steering, compaction, mail, notes, interrupt, answers; the task of a turn | app-server, other threads, agents that send mail |
| Turn polling, `backend/CodexBackend.ets` 1710-2310, 2960-3120 | `PendingTurnState`, what the page shows, approval timer, compaction loop | start, poll, drain, interrupt, reconnect | FFI calls |
| MCP refresh, `lib.rs` 821-900 | cached server list, refresh in flight | background refresh | client's request handle |
| Skills registry, `ohos-host/src/skills_registry.rs`, `skills/*.ets` | `skills-registry.json`, directories | install, import, uninstall, enable, reconcile, bundled skills | settings page; `config.toml`, which the agent reads |
| Provider configuration, `backend/ProviderConfigStore.ets`, `lib.rs` | `config.toml`, credentials, catalogue | save, activate, sync | thread refresh |
| Pages, stores, account, provenance labels (ArkTS) | preferences, page state | user actions | backend |
| codex-rs beyond the app: `core`, `app-server`, `state`, `login`, `network-proxy`, `exec-server`, `tui`, `cli`, ... | sessions, jobs with leases, tokens, terminals | the agent itself | app-server |

What makes each of the modelled ones correct, and what is hard about it:

* **Remote client.** The worker serves commands and the stream from one loop, so an event that
  must not be lost blocks it when the consumer is slow, and then it serves no command either.
  Other events are dropped and replaced by a `Lagged(n)` marker, which may itself find no room.
  Correct means: every event is delivered in order or counted; none of the lossless tier is
  dropped; a server request is handed over or rejected, never forgotten; no caller waits on a
  worker that has gone.
* **Host conversation.** A call takes the client out of the shared state, awaits, and puts it
  back. Calls that do not hold the runtime mutex look at the state meanwhile. Correct means: only
  the holder of the mutex is inside, the client is neither lost nor doubled over errors and
  reconnects, the user's decision on an approval becomes one answer to that approval, calls return.
* **Host lifecycle.** The flag is read in one critical section and written in another, and the
  server reports its end in a third. Correct means: one server at a time, none disowned, every
  start returns.
* **Thread refresh.** A loaded thread keeps its configuration, so before each turn the host
  unsubscribes, waits for `ThreadClosed` and resumes. The notification may be dropped, the closing
  task may time out, requests are abandoned after 15 seconds but still handled, and the listener
  subscribes after it has answered. Correct means: no thread stays "closing", and the turn runs
  with the saved configuration, in a session that lives, on a connection that hears of it.
* **Prompts registry.** Two files and a copy in the page, written one after the other. Correct
  means: one prompt in force, not hidden by the page, no text lost or emptied.
* **Turns.** The page gets an answer three ways: as a stream of events, as the whole state of the
  turn, polled every half second, and as the thread's history. They overlap, another
  conversation's loop may handle the notifications, a returning user makes the page read the
  history, and the host forgets an ended turn that was read. Correct means: no part of the answer
  is passed over, a turn shown as completed shows all of it, and a turn that ended does end on the
  page, for a reason.
* **Session turns.** The submission loop starts a turn by spawning its task, drains the mailbox, and only
  then puts the turn in `active_turn`; the task takes it out again itself. Steering, notes and mail
  go to whatever turn is there. Correct means: one task works at a time, input is neither lost nor recorded
  twice, a call that waits for an approval can be answered, every turn is reported as ended.
* **Memory jobs.** Workers of several processes share a table of jobs by leases that run out; a late
  one may still write. Threads are updated, polluted and cleared meanwhile. Correct means: the limit on
  running jobs holds, no watermark passes what was read, an output nobody has consolidated leaves
  its job dirty, and what was polluted or cleared does not come back.
* **Skills.** A registry, directories and `config.toml`, written one after the other; installs and
  imports await in between, and the page shows a list it has loaded from the registry. Correct means: what
  the user was told is so, also after a kill and the next start, and what the page lists as off is off for the
  agent, which reads `config.toml`.
* **Token ledger.** Totals are reported again, dropped, replaced by an estimate after a compaction, and shrink
  when a kill loses the end of a rollout. Correct means: no rise of a total is counted twice and no total of a
  thread is missing in the days.

## Modules

| Module | Models | State and actions |
|---|---|---|
| `EventStream` | abstract: what a consumer of events is promised | `Emit`, `Receive`, `Skip` of events outside the lossless tier |
| `RemoteClient` | `remote.rs` and the tiers of `lib.rs` | `commands`, `eventQ`, `pending`, `skipped` are the channels, map and counter of the code; `TakeRequest` .. `CommandsClosed` the branches on a command, `Receive*`, `DropBestEffort` and `StreamEnds` those on the stream, `FlushMarker` and `SendHeld` the two waits inside `deliver_event`, `Call` .. `GiveUp` the callers |
| `ApprovalDesk` | abstract: decisions and answers per approval | `Ask`, `Decide`, `Answer` |
| `HostConversation` | the FFI calls over `NATIVE_CONVERSATION_STATE` | `lock` is the runtime mutex, `client`/`taken` where the client is, `pending` the approval slot; a call goes through `pc` from `lock` to its awaits (`rpc`, `handshake`, `next`, `ack`) and back. Its client is `RemoteClient` reduced to a channel, a worker that may block and a disconnect |
| `HostLifecycle` | `start_host`, `wait_until_ready`, the server thread | `running` is the flag, `stage` where each call is, `server` the thread it spawned; every access of the mutex is a step |
| `ThreadRefresh` | startTurn, turn_start and the app-server's side of them | `inbox` holds each connection's requests, `wanted` whether their caller still waits; `jobs` the listener's queue, `closers` the tasks that close the thread, `sessions`/`loaded` the thread manager, `host` the call of startTurn |
| `PromptsRegistry` | registry, `AGENTS.md`, page | an operation computes its writes (`todo`) from what it reads when it begins and does them one by one; `WriteFails` and `Restart` cut it short |
| `TurnEvents` | the turn in the host: notification handlers, event queue, payloads | `stream` is what is on its way to the host, `turn`, `text` and `past` what the host keeps; `Say` .. `EndTurn` are the server, one action per kind of notification, `Pruned` the turns a read forgets |
| `SessionTasks` | `active_turn`, the submission loop's handlers, a task from spawning to `TurnComplete` | `loop` is what the loop keeps while it serves an operation (`TakeActive` .. `Install`), `task` where the task of each turn is and the items in its hands (`Enter` .. `Complete`); `cancelled` and `killed` are its token and its abort handle, `Steer` and `Inject` other threads |
| `TurnPolling` | `pollTurnUntilCompleted` and the read of a returning user | `pc` is where the loop awaits; `pageText`, `pagePast`, `pageStatus` the page; the merge of overlapping texts is an operator on sequences of numbered pieces |
| `MemoryJobs` | the jobs table and its two kinds of workers | `jobs` and `global` are rows, `out` the outputs, `task` each worker, with the token it claimed by; `TimePasses` ends leases and backoffs, `Die` a worker; histories `covered`, `consolidated` and `madeIn` say what the watermarks stand for |
| `SkillsRegistry` | registry, directories, `config.toml`, bundled skills | a native call computes its `writes` and does them one by one; `flow` holds the installs and imports that await; `installedStore` is the facade's list (`LoadInstalled`, `listed`), from which the user picks; `told` is what the user was told, which no restart and no load changes |
| `TokenLedger` | the two JSON files | a notification has the files it still has to write in `saving`; `totals` are the totals of each thread's session in the order of its rollout (`Spend`, `Recompute`, `Resumed`), `reported` the last one the host was sent |
| `MC*` | instances for TLC | `MCHostCalls` puts conversation and lifecycle side by side, `MCHostFiles` prompts, skills and ledger, `MCBackground` the refresh of a thread and the memory jobs: they share no state, and a behaviour exercises one of them |
| `*_proof` | theorems | see Proofs |

Operators whose comment says "Wrong on purpose" are variants of the one below them, as a
plausible bug would have it; each shows that a property can fail.

`RemoteClient` implements `EventStream` (`StreamRefined`, checked and proved), `HostConversation`
implements `ApprovalDesk` on the approvals (`DeskRefined`, checked and proved). `HostConversation` and
`ThreadRefresh` each replace the module below them by the little they feel of it: a bounded
channel that drops, a request that fails or times out.

## Runs

| Run | Question | Instance |
|---|---|---|
| `remote_client` | Is every event accounted for, every lossless one delivered, every server request handed over or rejected, and no caller forgotten; is it an `EventStream`; do calls settle and does backpressure end? | 2 calls, 1 id, channels of 1, 3 events |
| `host_conversation` | Are mutex, custody of the client and approvals right over a reconnect? | main thread and 1 taskpool thread, 2 approvals, 2 connections |
| `host_live` | Does every call return, but for the wedge? Is there one server, none disowned, and does every start return? | 1 approval, 1 request the host answers itself; 2 starts |
| `host_wedge` | Does every call return? No | 1 such request, 2 notifications, channel of 2 |
| `host_interrupt` | Does an interrupt reach a live connection? No | 1 taskpool thread |
| `turn_pipeline` | Is nothing of the answer skipped, a completed turn whole or some of it repeated, one ended by an event exact, and every end seen on the page? | 2 pieces of text, 1 report or error, 2 notifications on their way, 1 return of the user, 1 late poll |
| `turn_retry` | Does an error the server will retry leave the turn going? No | 1 piece, 1 error |
| `turn_doubled` | Does the page of a completed turn hold the whole answer? No | 4 pieces, 1 notification on its way |
| `background` | Refresh: fresh configuration, live session, events heard, no thread closing for ever? Memory jobs: does the limit hold, do watermarks keep behind what was read, is nothing lost or resurrected? | 3 connections, 2 turns, 1 change of the configuration; 2 threads, 2 workers, limit of 1, 3 claims, 2 updates, 1 clear |
| `host_files` | Prompts: one in force, page agrees, nothing emptied or lost without a halt? Skills: is it as the user was told, and off when listed as off? Ledger: balanced? | 3 prompts, 3 texts, 2 writes by the agent, 2 halts; 2 directories, 1 bundled skill, 1 repository, an install and an import (of a ZIP) at once, 1 halt; 1 thread, totals up to 2, 4 of them in a rollout, 2 kills |
| `session_tasks` | One task at work, asks answerable, no item lost or recorded twice, every turn reported, but for the one that cuts itself off? | 1 message, 1 note, 1 mail that is to start a turn, 2 turns, 1 follow-up, approval or failed compaction |
| `session_ends` | Is every turn reported as ended? No | the same |

Why the bounds are enough. Two calls on one id give the collision and a late answer beside a new
call; a channel of one is full with a marker still to send, one event in hand and one more
arriving, and of three events one may be dropped with its marker; the proofs cover any capacity. One taskpool thread
and the main thread make every pair of calls that can overlap (the mutex admits one inside);
two approvals compete for the slot, the second connection replays. Two starts let a late report meet the start that follows; the proof covers any number. A refresh that goes wrong leaves its debris to the second turn,
and with three connections the app may lose one before and one during it; what more turns could
leave behind is covered by the proof. Two pieces of text are enough for a snapshot that holds one
of them to meet the event of either, and one late poll for what comes after the end; a second one
repeats the first. A doubled text outgrows the answer only with four, which is what `turn_doubled` is
for; what the other safety properties of turns say of longer answers, more reports and more reads is proved. Of two turns of a session one is started while the other ends or is aborted, with the mail, the note
and the message for either; `OneWorker`, `AskKept` and `ItemsKept` are proved for any number.
In the memory jobs, with three claims a job is taken over from a late worker and once more after it.
Three prompts make the enabled, the next and a bystander. Of two directories one may be the bundled
skill's and both be wanted by the install and the import; an import from a folder differs from that of a ZIP only in its
source. One halt is a kill or a failure at each place; after two the proof speaks. `SkillsRegistry` is explored up to the first
list saved out of date (`Unspoiled`), after which its properties say nothing. Four totals of a thread make a usage, an estimate
below or above it, a report that is dropped and one that comes again after a kill; the sum over more threads is left to the proof.

Deadlock checking is off: the bounds exhaust, and then nothing is left to do. All events are
sent and calls made, all starts returned and servers gone, all turns and connections used, the
turn is over, all claims and clears are spent, all tokens counted, all items sent.

## Fairness

`RemoteClient.FairSpec`: the worker is a task of a running tokio runtime (weak fairness of its
steps), `select!` polls both branches, `REQUEST_TIMEOUT` and `SHUTDOWN_TIMEOUT` elapse, and the
consumer keeps asking for events, which the host's polling loop does. Nothing is assumed of the
server. `HostConversation.FairSpec`: a call that waits for the mutex gets it (strong fairness:
the app's loops sleep between calls), awaits that are under a timeout end, polling passes
reach their limits, the approval timer fires. `TurnPolling.FairSpec`: the page's loop, the native call it
waits for and the read of a returning user go on (one weak fairness for the three: the main thread and the taskpool serve
whoever is ready); nothing is assumed of the server, the user, the deadline or another conversation's loop.
`MCHostCalls.HostCallsSpec` adds to `HostConversation`'s that a start runs on; nothing is
assumed of the server thread, whose failure to come up is what the deadline is for.
`SessionTasks.FairSpec`: the submission loop's handlers and the task of each turn run on, since requests to
the model end; nobody has to send, answer or interrupt anything.

The liveness properties are about every call, with one exception named in them: `Wedged`, a call
that waits for the worker without a timeout while it holds the client that could unblock
the worker. `host_wedge` shows that the exception is real.
`EveryTurnEndsUnlessCutOff` names two: a turn waits for an answer nobody gives, or its task is cut off at
its end, which `session_ends` shows to be real. `EndIsSeen` names three: the connection is lost, a late report sets the host's turn back to
`inProgress` (`Reopened`), or a read has made the host forget it.

## Proofs

Each proof module extends its component and TLAPS and is checked from nothing by `tlapm`. The only
assumptions are those on the constants: capacities are positive, bounds are natural numbers, the
main thread is not a worker, `None` is no event, thread or request. Symmetric instances,
the bounds of the runs and the fairness play no part. The theorems named like a property of a run
say for every value of the constants what the run says of one.

**`RemoteClient_proof`.** `TypeOK` alone is not inductive: that the worker sends the event it holds
needs to know that it holds one. `TypeOK /\ HeldOK` is, and gives `TypeCorrect`.
`EveryEventAccountedFor` adds up the consumer's position, the queue, `skipped_events` and the event in hand;
its step needs `PhaseOK` (nothing is skipped before the worker runs, nor between a marker and the
event it goes before) and gives `NothingLostSilently`. `LosslessEventsSurvive` follows once each `Lagged`
marker is known to stand only for events of the best-effort tier. `ImplementsEventStream` maps
each step to `Emit`, `Receive`, `Skip` or a stutter of `EventStream`.

The requests are a second invariant, `RequestsOK`. Its parts `CommandsOK` and `PendingOK` say of each place a
command or an id can be in whose it is: a command in the channel belongs to a call that waits and to one only, an
id in `pending_requests` to the call that used it last. `ArgsOK` and `AnswersOK` do so for the ids of the server's
requests and the answers to them, `QueuesOK` and `StreamOK` for the requests in the two queues and in hand, which
are each in one place and were made. From it follow `NoCallerForgotten` and, with `NoneUnanswered`, `RequestsAnsweredOnce`.

**`HostConversation_proof`.** `IInv == Typed /\ Custody`. `Custody` says where the client is at each
place of each call: in the state, taken by the one call at an await, or gone with its worker.
Without it `ClientNeverLost` is not inductive: a call that puts a client back must know that the state
has none, and whoever finds the mutex free that nobody is between take and put back. `Typed`
alone gives `TypeCorrect`, both give `MutexHolds` and `ClientKept`.
The approvals need more: `DeskInv` joins `IInv` with `CallsOK` (where a call is tells what it has in hand),
`InboxOK` (a request is in the event channel once, and only if it was made), `CountsOK` and `SlotOK`. `CountsOK` is the argument:
what was made or replayed bounds what is in the channel, in the slot or being decided, and what was decided bounds
the answers sent and the one that still may be. It gives `ApprovalsAnswered`, and with it every
step maps to `Ask`, `Decide`, `Answer` or a stutter (`ImplementsApprovalDesk`).

**`HostLifecycle_proof`.** `IInv == LifecycleTypeOK /\ (~overlapped => Orderly)`. `Orderly` relates the place
of the one call that may be under way to the server it spawned and to the flag; `overlapped` is
a history of calls that were inside together, where the properties fail (see below). It gives
`TypeCorrect`, `AtMostOneServer` and `ServerOwned`.

**`ThreadRefresh_proof`.** `IInv == Typed /\ ClosingEnds /\ CalmOK /\ Outcome`.
`Typed` adds to the types that at most one request is wanted, which is the last of its connection
and of the kind the host waits for; a wanted resume in the listener's queue excludes one on
its way. So an answer reaches the host only at the place it asked from. `CalmOK` follows a refresh
that began `Settled`: everything on its way is its own, nobody else subscribes, at most one closing
task is at work, and none that could remove a session is left once the host resumes. The
answer to `turn/start` is then given in the session the refresh loaded, which is `Outcome`.
It gives `TypeCorrect`, `NoEndlessClosing`, `RefreshedIsFresh`, `RefreshedIsAlive` and
`RefreshedIsHeard`.

**`MemoryJobs_proof`.** `IInv` joins the properties with `Typed` (the types; a running row has tries left,
no thread is newer than the clock), `TokensGiven` (every token in a row or with a worker was given
out, so the next one is nobody's), `Stage1Held` (a worker of phase 1 that still owns its
row holds the row's watermark and has read that much), `Watermarks` (every output is covered by the
global input, and a running consolidation has something to do) and `Phase2Held` (what arrives after a
consolidation has read the outputs moves the watermark past its own). Ownership by token is
what makes it inductive: a late worker whose row has another token changes nothing. It gives
`TypeCorrect`, `SuccessCovered`, `NoConsolidationLost`, `PollutedForgotten` and `ClearedForGood`.
`RunningLimited` is an invariant by itself: a claim counts the others first, and the rest is the cardinality
of finite sets.

**`SessionTasks_proof`.** `IInv == TypeOK /\ StepTypes /\ Places`. `Places` is the argument: between taking
a turn out and putting the next one in the loop leaves `active_turn` empty (`Emptied`); so every
working task is that of the active turn, of the turn about to be put there, or of the one about to be
cancelled (`WorksThere`), and a waiting call's sender is in the table of that turn, or with the loop
(`AsksThere`). The handlers that start a turn check nothing: `OneWorker` rests on the order of their steps.
`StepTypes` adds whom the loop aborts, and that `run_turn` is entered
with nothing but the user's input. It gives `TypeCorrect`, `OneTaskWorks` and `AsksAnswerable`.
For the items, `ItemsInv` adds `StockOK`: over all that the tasks, the loop, the turn, the mailbox, the session and
the history hold, no item occurs twice (`Once`). `LoopHands` and `TaskHands` say when hands are empty, so that a step that fills
them overwrites nothing. Each step moves a part of one sequence of the stock to the end of another, or drops exactly the part
that `ItemsKept` lets it (`Carried`); that gives `NoItemVanishes`.

**`TurnPolling_proof`.** A batch of events is applied by a fold, so what it does to a page is proved by taking the first
place of the batch at which a claim fails. `ReasonOK` gives `EndsHaveReasons`: `HostOK` and `PageOK` trace
every terminal status, in a notification, an event, a reply or on the page, to the server's end, an error or
a break; `PlacesOK` says what each place of the loop knows; and `CalmOK` that with no report, error or
read nothing undoes an end, so a loop that calls its turn unfinished had one of them. `WholeOK` adds `OrderOK` (the item comes after its deltas and
before the end, once), `ShownOK` (with a completed status there is, on the page or in what the loop will apply, the
whole answer) and `ExactOK` (as long as no history was read, what follows the event that brings the whole text
leaves it alone). A merge shows what either text showed or repeats a part: of two
texts the longer is kept, and one that is longer than the answer has a piece twice, by the pigeonhole principle. They give
`CompletedShown` and `EventEndExact`. `NothingIsSkipped` rests on `RisesOK` (pieces come in order), `KnownOK` (an unknown turn has no
events) and `SkipOK`: the events not yet applied lead from a text that the page's covers to the host's (`Covered`), which
a notification prolongs and a batch consumes, whatever the overlap of a merge was taken for.

**`HostFiles_proof`.** For the prompts, `PromptsInv` joins the properties with what each write still to do will leave on the disk if it is the
last (`TodoOK`), so that cutting an operation short anywhere is safe; with `TornOK` and
`PageOK`, which relate a half-written registry and the page's copy to the next write; and with `KeptOK` for the text an
operation replaces. It gives `PromptsTypeCorrect`, `PromptInForce`, `PageShowsPrompt`, `PromptsKeepText` and `PromptIsKept`.
For the ledger, a report not yet made may be any later total of the thread, and a kill may take the session back to any of them. So
`LedgerInv` speaks of every choice of one point in each thread's rollout that has not been passed by the reports: the days, with what the
ledger would add if just these totals were reported next, never exceed what the totals had risen by then. A report moves one point on, an
estimate adds one, a kill copies one to the end; each keeps the bound because a later total exceeds an earlier one by no more than what the
thread's total rose in between. With what is being saved tied to the last report it gives `LedgerStaysBalanced`. Sums over the
threads are those of `MapThenSumSet`, whose recursion is shown to exist, by induction over the threads as a well-founded order; they
grow with their parts, and change by as much as one part does.
For the skills, what is true while an operation runs is a matter of what it has still to write, so `SkillsInv` speaks of the plan. As long as
nothing is `spoiled`, `DiskOK` says: what was told has its `SKILL.md` (`Made`); the registry, if it can be read, has one entry for each
directory told of (`Apart`, `HasTold`), and if it cannot, the directories are known to be `lost` (`RegistryOK`); what it has as off is off in
`config.toml`, or `halved`, or the flag that the running operation is setting (`OffIn`, `Half`), and so is what the page lists (`ListOK`); the
steps left are in the order files, registry, flags, telling (`InTurn`), and each finds what it needs and leads to what the user will be told
(`PlanOK`). While a flag is being set the user may be told either, which is why cutting the operation short anywhere is no lie. `FlowsOK`
says that a flow whose list is not out of date holds the registry as it is, has copied only to directories that no
entry names, and that those still have their files. Neither is inductive without the other: a flow's save is right because
its list is, and a step of another operation makes a list `stale` just when it could make it wrong. Each operation keeps it by a lemma on
the plan it makes (`ReconcilePlan`, `TellBegins`, `ToggleBegins`), each kind of step by one on the plan without its first step
(`StepDone`), a rollback and a kill by `RolledBackDisk` and `RestartDisk`. With the type invariant (`SkillsTypeCorrect`) it gives `ToldIsSo`
and `ToldOffIsOff`, which state `AsTold` and `OffIsOff`.

The type invariants of the modules with a proof module are in no run: they are proved.

Only model-checked: the liveness properties (`CallsSettle`, `BackpressureEnds`,
`CallsReturnUnlessWedged`, `StartReturns`, `EndIsSeen`, `EveryTurnEndsUnlessCutOff`), since TLAPS does not prove liveness under fairness or
reason about `ENABLED`. Every invariant that a passing run checks has a theorem. Where an argument goes through the length of a text, a batch
or a set of threads, the induction is spelled out on a set of numbers or sets with a least element, since the induction theorems
of the library take operators. No module declares a `RECURSIVE` operator.

## What the runs refute

* `host_wedge` (`lib.rs:4327`): answering a server request awaits the worker's acknowledgement
  under the runtime mutex and without a timeout; a worker blocked on a full event channel never
  gives it. The comment at `remote.rs:58` gives that freeze as the reason for the request timeout.
* `host_interrupt` (`lib.rs:2660`): `turn_interrupt` finds no client while a poll has it, and drops
  the interrupt; the app says the turn was interrupted.
* `turn_retry` (`lib.rs:4068`): the handler of `Error` fails the turn without looking at
  `will_retry`, and the page's loop takes that for the end while the server goes on.
  `app-server-protocol/src/protocol/v2.rs:3747` says "If true, this will not interrupt a turn."
* `turn_doubled` (`CodexBackend.ets:3668`): a poll brings the whole text so far while its deltas are still to be
  taken as events, and these are then appended again. If the next poll shows the end of the turn, the merge keeps
  the longer of the two texts, which is the doubled one and may lack the end of the answer; the events that would correct it
  are not taken any more. `lib.rs:4044` calls the final text authoritative.
* `session_ends` (`core/src/tasks/mod.rs:328`): `on_task_finished` runs inside the task it removes, and dropping
  the `RunningTask` drops the only `AbortOnDropHandle` of that task (`core/src/state/turn.rs:53`). The task
  lives on until an `await` has to wait, for a `UserPromptSubmit` hook of leftover input or a full rollout
  channel; then that input is lost and `TurnComplete` is never sent. `core/src/tasks/mod.rs:223` says "Emit completion
  uniformly from spawn site so all tasks share the same lifecycle." The tests call `on_task_finished` from
  outside the task (`core/src/codex_tests.rs:4478`).

Seen in the models but not kept as runs, because no text of the repository promises otherwise or
the schedule is remote:

* A stopped server reports `running = false` before its runtime is dropped, so that the next
  start sets the process environment beside the old runtime's threads (`lib.rs:1370`; the safety
  comment at `lib.rs:1836` assumes it comes first).
* A report of a stopped server between the answered probe and the write of `running = true`
  (`lib.rs:1381`) leaves the flag true with no server.
* `FreshConfig`, `AcceptedAlive` and `Heard` are stated for refreshes that begin with nothing left
  of earlier ones (`Settled`). Without that, TLC finds a stale `ThreadClosed` that was never read
  after the 12 second deadline and is taken for the present one; a watch status that disagrees
  because `finalize_thread_teardown` raced a closing task; two closing tasks because the listener
  subscribed late; and abandoned requests that are handled after all.
* A second approval overwrites the first before it was shown (`lib.rs:3129`).
* A kill between `AGENTS.md` and the registry loses a text (`prompts_registry.rs:156`), although the
  comments at lines 101 and 163 call the operation atomic; saving an edit of the prompt in force does
  not reach `AGENTS.md` (`prompts_registry.rs:119`).
* A report that follows `TurnCompleted` sets the turn back to `inProgress` (`lib.rs:3776`).
* A thread polluted between the selection and the success of a consolidation stays in the memory
  files until the next change (`memories.rs:478`); clearing does not wait for a consolidation
  under way (`memories.rs:47`).
* A kill that truncates `skills-registry.json` (`skills_registry.rs:68`) loses every skill's source and flag:
  `reconcile_skills` makes local, enabled entries of the directories, and a skill the user had turned off is shown as on. `AsTold` allows
  for it, as `lost`.
* A kill between the registry and `config.toml`, in the rollback, or a rollback whose result is an error nobody looks at
  (`lib.rs:1164`), leaves a skill off in the page's list and on for the agent; no start and no load of the page repairs it, only the
  next change of its flag. `OffIsOff` allows for it, as `halved`.
* Installing a disabled skill again from its repository turns it on in the registry and not in
  `config.toml` (`SkillsBackendService.ets:572`): the page shows it on, the agent leaves it off.
* An import saves the list it read before its copies (`SkillsBackendService.ets:1125`) and undoes what
  was saved meanwhile; when a later source of it fails, the directories it has copied stay
  unregistered, and block a second try, until the next start.
* `install_skill_from_dir` looks for another owner only if the directory exists
  (`skills_registry.rs:275`): after an uninstall whose save failed, two entries own one directory.
* A kill during the first `installBundledSkills` lets the next start's reconciliation register what was
  copied; the registry is then not empty and the other bundled skills never come (`BundledSkills.ets:835`).
* A rolled back toggle writes the opposite of what was asked for, not what was there (`lib.rs:1167`).
* After a compaction a thread's total is an estimate of its context (`core/src/codex.rs:3745`); what the days add when it exceeds the
  last total, or when usage makes it grow again, was not all used. `LedgerBalanced` bounds the days by what the totals rose, not by
  what was used.
* A `token-usage.json` cut short by a kill does not parse and is never updated again (`lib.rs:313`),
  while a `thread-context.json` that does not parse is started anew (`lib.rs:362`).
* With `Recovers = FALSE`, a compaction before the request that keeps failing while input is pending keeps
  `RegularTask::run` in its loop (`core/src/tasks/regular.rs:66`, `core/src/codex.rs:5616`).
* Mail that is to start a turn and comes after the task has looked for pending input for the last time finds
  the turn still active (`core/src/tasks/mod.rs:286`), and nothing wakes the session when it ends; mail that a
  compaction or a finishing task drains is recorded but answered by no turn.
* A task may finish before `start_task` puts its turn in `active_turn` (`core/src/tasks/mod.rs:262`), which then
  stays, with nobody to read what is steered into it, until a compaction or an interrupt takes it out; an approval it asks for before is denied at once. A
  cancelled task that ends in time is reported as complete and as aborted, and one that is killed may
  have drained the next turn's input.
* A thread known to have no messages is not refreshed (`lib.rs:2486`) and keeps the configuration
  it was created with; after a reconnect its resume fails, which `resumeThread` does not notice,
  and its turn goes unheard.

## Plan

Done: `EventStream`, `RemoteClient`, `ApprovalDesk`, `HostConversation`, `HostLifecycle`,
`PromptsRegistry`, `ThreadRefresh`, `TurnEvents`, `TurnPolling`, `MemoryJobs`, `SkillsRegistry`,
`TokenLedger`, `SessionTasks`. Next, in this order:

| Module | Of | Abstract specification | Properties, bounds | Theorems |
|---|---|---|---|---|
| `Compaction` | `compactThread`, its loop, automatic compaction before a turn | one compaction at a time | a compaction ends by its own turn, no turn of the user is taken for it. 2 threads, 1 compaction each | - |
| `McpRefresh` | `McpBackgroundManager`, its cache | the list last read | a failed refresh over a good list | - |
| `InProcessClient` | `app-server-client/src/lib.rs`, `app-server/src/in_process.rs` | `EventStream` again | same as `RemoteClient` | refinement |
| `OutputBuffer`, `Readiness` | `unified_exec` head/tail buffer, `utils/readiness` | a bounded prefix and suffix; a latch | what is kept is what was written; no wake-up is missed | the buffer's bounds |
| `SessionTasks`, more of it | review, undo and user shell tasks, shutdown, forks in `thread_manager.rs` | - | the same properties with more kinds of tasks | the same |

Every invariant and action property of the modules above that a passing run checks is proved, but for those named under Proofs. A later module may take the place of a run that refutes something once the code
is repaired.

## Not modelled

What a message, a patch, a prompt or a configuration says; time other than that a timeout may
pass while the code waits; more than one thread of conversation or one client in `ThreadRefresh`;
the FFI calls that neither take the client nor touch the approval slot. The remaining components of
the table, in the plan or left out because they are I/O, parsing or user interface, are listed with
their reason in `PROJECT.json`. Third-party and vendored code is modelled only by what the code
here relies on: a tokio channel of bounded capacity, a mutex, a renamed file.
