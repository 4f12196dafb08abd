---------------------------- MODULE HostLifecycle ----------------------------
(***************************************************************************)
(* HOST_STATE.running of codex-rs/ohos-host/src/lib.rs, between the calls  *)
(* of codex_ohos_host_start and the threads of the embedded app-server.    *)
(* Each access of HOST_STATE takes its mutex, but a call reads the flag in *)
(* one critical section and writes it in another, and the server thread    *)
(* reports its end in a third: every such access is a step of its own.     *)
(*                                                                         *)
(* The listen url and codex_home are left out: the app has one of each     *)
(* (EntryAbility.ets).                                                     *)
(***************************************************************************)
EXTENDS Naturals

CONSTANT MaxStarts  \* bound: calls of codex_ohos_host_start

ASSUME StartsAssumption == MaxStarts \in Nat

Starts == 1..MaxStarts

VARIABLES running,  \* HOST_STATE.running
          stage,    \* where each call of codex_ohos_host_start is
          server,   \* the thread each call may have spawned
          overlapped  \* history: a start began while another had not returned

lifecycleVars == <<running, stage, server, overlapped>>

LifecycleInit ==
  /\ running = FALSE
  /\ stage = [s \in Starts |-> "new"]
  /\ server = [s \in Starts |-> "none"]
  /\ overlapped = FALSE

Go(s, from, to) == stage[s] = from /\ stage' = [stage EXCEPT ![s] = to]

Returned(s) == stage[s] \in {"ok", "error"}

\* Calls are numbered in the order they are made.
MayBegin(s) == /\ \A r \in Starts : r < s => stage[r] # "new"
               /\ overlapped' = (overlapped \/ \E r \in Starts : r < s /\ ~Returned(r))

-----------------------------------------------------------------------------
\* start_host

\* Wrong on purpose: always starts a server.
StartAnew(s) ==
  /\ MayBegin(s)
  /\ Go(s, "new", "prepare")
  /\ UNCHANGED <<running, server>>

Start(s) ==
  /\ MayBegin(s)
  /\ Go(s, "new", IF running THEN "already" ELSE "prepare")
  /\ UNCHANGED <<running, server>>

\* "already running": the lock was released in between.
Already(s) ==
  /\ Go(s, "already", "ok")
  /\ running' = TRUE
  /\ UNCHANGED <<server, overlapped>>

\* create_dir_all, ensure_provider_config, from_listen_url
PrepareFails(s) ==
  /\ Go(s, "prepare", "failed")
  /\ UNCHANGED <<running, server, overlapped>>

\* configure_environment sets CODEX_HOME, HOME, ... of the process.
Configure(s) ==
  /\ Go(s, "prepare", "announce")
  /\ UNCHANGED <<running, server, overlapped>>

Announce(s) ==
  /\ Go(s, "announce", "spawn")
  /\ running' = TRUE
  /\ UNCHANGED <<server, overlapped>>

Spawn(s) ==
  /\ \/ Go(s, "spawn", "wait") /\ server' = [server EXCEPT ![s] = "starting"]
     \/ Go(s, "spawn", "failed") /\ UNCHANGED <<server, overlapped>>
  /\ UNCHANGED <<running, overlapped>>

\* wait_until_ready: whoever listens on the address answers the probe.
ProbeAnswered(s) ==
  /\ \E r \in Starts : server[r] = "serving"
  /\ Go(s, "wait", "ready")
  /\ UNCHANGED <<running, server, overlapped>>

ProbeStops(s) ==
  /\ ~running
  /\ Go(s, "wait", "gaveUp")
  /\ UNCHANGED <<running, server, overlapped>>

\* Wrong on purpose: the wait has no deadline.
NoDeadline(s) == FALSE /\ UNCHANGED lifecycleVars

\* READY_TIMEOUT
DeadlinePasses(s) ==
  /\ Go(s, "wait", "gaveUp")
  /\ UNCHANGED <<running, server, overlapped>>

Ready(s) ==
  /\ Go(s, "ready", "ok")
  /\ running' = TRUE
  /\ UNCHANGED <<server, overlapped>>

\* Wrong on purpose: a server that is slow to start counts as failed.
GiveUpOnSlow(s) ==
  /\ Go(s, "gaveUp", "failed")
  /\ UNCHANGED <<running, server, overlapped>>

\* still_running
GiveUp(s) ==
  /\ Go(s, "gaveUp", IF running THEN "slow" ELSE "failed")
  /\ UNCHANGED <<running, server, overlapped>>

StillStarting(s) ==
  /\ Go(s, "slow", "ok")
  /\ running' = TRUE
  /\ UNCHANGED <<server, overlapped>>

\* codex_ohos_host_start, on any error
Fail(s) ==
  /\ Go(s, "failed", "error")
  /\ running' = FALSE
  /\ UNCHANGED <<server, overlapped>>

Caller(s) == \/ Already(s) \/ PrepareFails(s) \/ Configure(s) \/ Announce(s) \/ Spawn(s)
             \/ ProbeAnswered(s) \/ ProbeStops(s) \/ DeadlinePasses(s)
             \/ Ready(s) \/ GiveUp(s) \/ StillStarting(s) \/ Fail(s)

-----------------------------------------------------------------------------
\* The thread codex-ohos-host

Turns(s, from, to) == server[s] = from /\ server' = [server EXCEPT ![s] = to]

\* run_main_with_transport binds the address; two listeners exclude each other.
Bind(s) ==
  /\ \A r \in Starts : server[r] # "serving"
  /\ Turns(s, "starting", "serving")
  /\ UNCHANGED <<running, stage, overlapped>>

\* No runtime, an error before or in bind, or the server stops.
End(s) ==
  /\ Turns(s, "starting", "ended") \/ Turns(s, "serving", "ended")
  /\ UNCHANGED <<running, stage, overlapped>>

Report(s) ==
  /\ Turns(s, "ended", "reported")
  /\ running' = FALSE
  /\ UNCHANGED <<stage, overlapped>>

\* The closure returns and drops its runtime, whose threads end only now.
DropRuntime(s) ==
  /\ Turns(s, "reported", "gone")
  /\ UNCHANGED <<running, stage, overlapped>>

Thread(s) == Bind(s) \/ End(s) \/ Report(s) \/ DropRuntime(s)

LifecycleNext == \E s \in Starts : Start(s) \/ Caller(s) \/ Thread(s)

LifecycleSpec == LifecycleInit /\ [][LifecycleNext]_lifecycleVars

\* Calls run on; nothing is assumed of the server.
LifecycleFairSpec == LifecycleSpec /\ \A s \in Starts : WF_lifecycleVars(Caller(s))

-----------------------------------------------------------------------------
Callers == {"new", "already", "prepare", "announce", "spawn", "wait", "ready",
            "gaveUp", "slow", "failed", "ok", "error"}

LifecycleTypeOK ==
  /\ running \in BOOLEAN
  /\ stage \in [Starts -> Callers]
  /\ server \in [Starts -> {"none", "starting", "serving", "ended", "reported", "gone"}]
  /\ overlapped \in BOOLEAN

Live(s) == server[s] \in {"starting", "serving"}
Unreported(s) == Live(s) \/ server[s] = "ended"
Quiet == \A s \in Starts : stage[s] = "new" \/ Returned(s)

(***************************************************************************)
(* The app has one embedded server at a time: as long as starts have not   *)
(* overlapped, none is spawned while an earlier one lives, however late    *)
(* threads report and however slowly servers come up.  (Overlapping starts *)
(* may both read running = false; the loser cannot bind the address.)      *)
(***************************************************************************)
OneServer == ~overlapped => \A r, s \in Starts : Unreported(r) /\ Unreported(s) => r = s

(***************************************************************************)
(* A server is not disowned: when all starts have returned, one after      *)
(* another, and the flag says not running, none is starting or serving; so *)
(* the next start may bind the address.                                    *)
(***************************************************************************)
NeverDisowned == ~overlapped /\ Quiet /\ ~running => \A s \in Starts : ~Live(s)

(***************************************************************************)
(* Every start returns, whatever the server does or fails to do.           *)
(***************************************************************************)
StartReturns == \A s \in Starts : stage[s] # "new" ~> Returned(s)
=============================================================================
