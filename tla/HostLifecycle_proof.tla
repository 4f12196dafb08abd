-------------------------- MODULE HostLifecycle_proof --------------------------
(***************************************************************************)
(* Whatever the number of starts, and whenever the server threads end and  *)
(* report: as long as starts have not overlapped, there is one embedded    *)
(* server at a time and the flag disowns none.                             *)
(***************************************************************************)
EXTENDS HostLifecycle, TLAPS

\* Starts follow one another.
InTurn == \A r, s \in Starts : r < s /\ stage[s] # "new" => Returned(r)

Single == \A r, s \in Starts : Unreported(r) /\ Unreported(s) => r = s

NoneUnreported == \A r \in Starts : ~Unreported(r)

(***************************************************************************)
(* The flag is false only when no thread has yet to report: that is what a *)
(* start reads before it prepares, and nothing can change it until the     *)
(* start has spawned its own thread.                                       *)
(***************************************************************************)
Heeded == /\ ~running => NoneUnreported
          /\ \A s \in Starts : stage[s] \in {"prepare", "announce", "spawn", "failed"} => NoneUnreported
          /\ \A s \in Starts : stage[s] = "spawn" => running

Orderly == LifecycleTypeOK /\ InTurn /\ Single /\ Heeded

IInv == LifecycleTypeOK /\ (~overlapped => Orderly)

-----------------------------------------------------------------------------
\* The initial states satisfy the invariant.
LEMMA InitIInv == LifecycleInit => IInv
  BY DEF LifecycleInit, IInv, Orderly, LifecycleTypeOK, Callers, InTurn, Single, Heeded, NoneUnreported, Unreported, Live

\* The type invariant does not depend on how starts follow one another.
LEMMA NextTypeOK == LifecycleTypeOK /\ [LifecycleNext]_lifecycleVars => LifecycleTypeOK'
  <1> SUFFICES ASSUME LifecycleTypeOK, [LifecycleNext]_lifecycleVars PROVE LifecycleTypeOK'
    OBVIOUS
  <1>1. ASSUME NEW s \in Starts, Start(s) PROVE LifecycleTypeOK'
    <2>1. overlapped' \in BOOLEAN
      BY <1>1 DEF Start, MayBegin
    <2> QED BY <1>1, <2>1 DEF Start, Go, LifecycleTypeOK, Callers
  <1>2. ASSUME NEW s \in Starts, Caller(s) PROVE LifecycleTypeOK'
    <2>1. running' = running \/ running' = TRUE \/ running' = FALSE
      BY <1>2 DEF Caller, Already, PrepareFails, Configure, Announce, Spawn, ProbeAnswered,
           ProbeStops, DeadlinePasses, Ready, GiveUp, StillStarting, Fail
    <2>2. running' \in BOOLEAN
      BY <2>1 DEF LifecycleTypeOK
    <2> QED BY <1>2, <2>2 DEF Caller, Already, PrepareFails, Configure, Announce, Spawn, ProbeAnswered,
              ProbeStops, DeadlinePasses, Ready, GiveUp, StillStarting, Fail, Go, LifecycleTypeOK, Callers
  <1>3. ASSUME NEW s \in Starts, Thread(s) PROVE LifecycleTypeOK'
    <2>1. running' = running \/ running' = FALSE
      BY <1>3 DEF Thread, Bind, End, Report, DropRuntime
    <2> QED BY <1>3, <2>1 DEF Thread, Bind, End, Report, DropRuntime, Turns, LifecycleTypeOK
  <1>4. CASE UNCHANGED lifecycleVars
    BY <1>4 DEF lifecycleVars, LifecycleTypeOK
  <1> QED BY <1>1, <1>2, <1>3, <1>4 DEF LifecycleNext

\* A start begins only after the earlier ones have returned.
LEMMA StartKeeps ==
  ASSUME Orderly, NEW s \in Starts, Start(s), ~overlapped', LifecycleTypeOK' PROVE Orderly'
  <1> USE DEF Starts
  <1>1. \A r \in Starts : r < s => Returned(r)
    BY DEF Start, MayBegin, Orderly, LifecycleTypeOK
  <1>2. InTurn'
    BY <1>1 DEF Start, Go, Orderly, LifecycleTypeOK, Callers, InTurn, Returned
  <1>3. Single'
    BY DEF Start, Orderly, Single, Unreported, Live
  <1>4. Heeded'
    BY DEF Start, Go, Orderly, LifecycleTypeOK, Callers, Heeded, NoneUnreported, Unreported, Live
  <1> QED BY <1>2, <1>3, <1>4 DEF Orderly

\* While a start is under way, no other one is.
LEMMA Alone ==
  ASSUME Orderly, NEW s \in Starts, stage[s] # "new", ~Returned(s), NEW r \in Starts, r # s
  PROVE  stage[r] = "new" \/ Returned(r)
  BY DEF Orderly, InTurn, Starts

\* A step of a start between its beginning and its return.
LEMMA CallerKeeps == ASSUME Orderly, NEW s \in Starts, Caller(s) PROVE Orderly'
  <1>1. stage[s] # "new" /\ ~Returned(s)
    BY DEF Caller, Already, PrepareFails, Configure, Announce, Spawn, ProbeAnswered, ProbeStops,
           DeadlinePasses, Ready, GiveUp, StillStarting, Fail, Go, Returned
  <1>2. PICK to \in Callers \ {"new"} : stage' = [stage EXCEPT ![s] = to]
    BY DEF Caller, Already, PrepareFails, Configure, Announce, Spawn, ProbeAnswered, ProbeStops,
           DeadlinePasses, Ready, GiveUp, StillStarting, Fail, Go, Callers
  <1>3. InTurn'
    BY <1>1, <1>2 DEF Orderly, LifecycleTypeOK, InTurn, Returned, Starts, Callers
  <1>4. \A r \in Starts \ {s} : stage'[r] = stage[r] /\ stage'[r] \notin {"prepare", "announce", "spawn", "failed"}
    BY <1>1, <1>2, Alone DEF Orderly, LifecycleTypeOK, Returned
  <1>5. stage'[s] = to
    BY <1>2 DEF Orderly, LifecycleTypeOK
  <1>6. CASE Spawn(s)
    <2>1. NoneUnreported /\ running /\ running' = running
      BY <1>6 DEF Spawn, Go, Orderly, Heeded
    <2>2. LifecycleTypeOK'
      BY NextTypeOK DEF Orderly, LifecycleNext
    <2>3. Single'
      BY <2>1, <1>6 DEF Spawn, Orderly, LifecycleTypeOK, Single, NoneUnreported, Unreported, Live
    <2>4. Heeded'
      <3>1. CASE stage'[s] = "wait"
        BY <2>1, <1>4, <1>5, <3>1 DEF Heeded
      <3>2. CASE stage'[s] = "failed" /\ server' = server
        BY <2>1, <1>4, <1>5, <3>2 DEF Heeded, NoneUnreported, Unreported, Live
      <3> QED BY <1>6, <3>1, <3>2, <1>5 DEF Spawn, Go, Orderly, LifecycleTypeOK
    <2> QED BY <1>3, <2>2, <2>3, <2>4 DEF Orderly
  <1>7. CASE ~Spawn(s)
    <2>1. server' = server
      BY <1>7 DEF Caller, Already, PrepareFails, Configure, Announce, ProbeAnswered, ProbeStops,
           DeadlinePasses, Ready, GiveUp, StillStarting, Fail
    <2>2. LifecycleTypeOK'
      BY NextTypeOK DEF Orderly, LifecycleNext
    <2>3. Single'
      BY <2>1 DEF Orderly, Single, Unreported, Live
    <2>4. NoneUnreported' = NoneUnreported
      BY <2>1 DEF NoneUnreported, Unreported, Live
    <2>5. ~running' => NoneUnreported
      <3>1. CASE Fail(s)
        BY <3>1 DEF Fail, Go, Orderly, Heeded
      <3>2. CASE ~Fail(s)
        BY <1>7, <3>2 DEF Caller, Already, PrepareFails, Configure, Announce, ProbeAnswered, ProbeStops,
             DeadlinePasses, Ready, GiveUp, StillStarting, Orderly, Heeded
      <3> QED BY <3>1, <3>2
    <2>6. to \in {"prepare", "announce", "spawn", "failed"} => NoneUnreported
      BY <1>5, <1>7 DEF Caller, Already, PrepareFails, Configure, Announce, ProbeAnswered, ProbeStops,
           DeadlinePasses, Ready, GiveUp, StillStarting, Fail, Go, Orderly, LifecycleTypeOK, Heeded
    <2>7. to = "spawn" => running'
      BY <1>5, <1>7 DEF Caller, Already, PrepareFails, Configure, Announce, ProbeAnswered, ProbeStops,
           DeadlinePasses, Ready, GiveUp, StillStarting, Fail, Go, Orderly, LifecycleTypeOK
    <2>8. Heeded'
      BY <1>4, <1>5, <2>4, <2>5, <2>6, <2>7 DEF Heeded
    <2> QED BY <1>3, <2>2, <2>3, <2>8 DEF Orderly
  <1> QED BY <1>6, <1>7

\* A step of the server thread.
LEMMA ThreadKeeps == ASSUME Orderly, NEW s \in Starts, Thread(s) PROVE Orderly'
  <1>1. LifecycleTypeOK' /\ stage' = stage
    BY NextTypeOK DEF Orderly, LifecycleNext, Thread, Bind, End, Report, DropRuntime
  <1>2. InTurn'
    BY <1>1 DEF Orderly, InTurn, Returned
  <1>3. \A r \in Starts : Unreported(r)' => Unreported(r)
    BY DEF Thread, Bind, End, Report, DropRuntime, Turns, Orderly, LifecycleTypeOK, Unreported, Live
  <1>4. Single'
    BY <1>3 DEF Orderly, Single
  <1>5. NoneUnreported => NoneUnreported'
    BY <1>3 DEF NoneUnreported
  <1>6. CASE Report(s)
    <2>1. Unreported(s) /\ ~Unreported(s)' /\ ~running'
      BY <1>6 DEF Report, Turns, Orderly, LifecycleTypeOK, Unreported, Live
    <2>2. NoneUnreported'
      BY <2>1, <1>3 DEF NoneUnreported, Orderly, Single
    <2>3. \A r \in Starts : stage[r] # "spawn"
      BY <2>1 DEF Orderly, Heeded, NoneUnreported
    <2> QED BY <1>1, <1>2, <1>4, <2>2, <2>3 DEF Orderly, Heeded
  <1>7. CASE ~Report(s)
    <2>1. running' = running
      BY <1>7 DEF Thread, Bind, End, DropRuntime
    <2> QED BY <1>1, <1>2, <1>4, <1>5, <2>1 DEF Orderly, Heeded
  <1> QED BY <1>6, <1>7

\* Only a start can make starts overlap, and it cannot undo that.
LEMMA Overlaps == ASSUME LifecycleTypeOK, NEW s \in Starts
                  PROVE  /\ Caller(s) \/ Thread(s) => overlapped' = overlapped
                         /\ Start(s) /\ ~overlapped' => ~overlapped
  BY DEF Caller, Already, PrepareFails, Configure, Announce, Spawn, ProbeAnswered, ProbeStops,
         DeadlinePasses, Ready, GiveUp, StillStarting, Fail, Thread, Bind, End, Report, DropRuntime,
         Start, MayBegin

\* The invariant is inductive.
LEMMA NextIInv == IInv /\ [LifecycleNext]_lifecycleVars => IInv'
  <1> SUFFICES ASSUME IInv, [LifecycleNext]_lifecycleVars, ~overlapped' PROVE Orderly'
    BY NextTypeOK DEF IInv
  <1>1. LifecycleTypeOK'
    BY NextTypeOK DEF IInv
  <1>2. CASE LifecycleNext
    BY <1>1, <1>2, Overlaps, StartKeeps, CallerKeeps, ThreadKeeps DEF LifecycleNext, IInv
  <1>3. CASE UNCHANGED lifecycleVars
    BY <1>3 DEF lifecycleVars, IInv, Orderly, LifecycleTypeOK, InTurn, Single, Heeded, NoneUnreported, Unreported, Live, Returned
  <1> QED BY <1>2, <1>3

(***************************************************************************)
(* Every state of the host has its type, overlapping starts or not.        *)
(***************************************************************************)
THEOREM TypeCorrect == LifecycleSpec => []LifecycleTypeOK
  <1>1. IInv => LifecycleTypeOK
    BY DEF IInv
  <1> QED BY InitIInv, NextIInv, <1>1, PTL DEF LifecycleSpec

(***************************************************************************)
(* One embedded server at a time (start_host, wait_until_ready and the     *)
(* server thread).                                                         *)
(***************************************************************************)
THEOREM AtMostOneServer == LifecycleSpec => []OneServer
  <1>1. IInv => OneServer
    BY DEF IInv, Orderly, Single, OneServer
  <1> QED BY InitIInv, NextIInv, <1>1, PTL DEF LifecycleSpec

(***************************************************************************)
(* A server that lives is never reported as not running once the start     *)
(* that spawned it has returned.                                           *)
(***************************************************************************)
THEOREM ServerOwned == LifecycleSpec => []NeverDisowned
  <1>1. IInv => NeverDisowned
    BY DEF IInv, Orderly, NeverDisowned, Heeded, NoneUnreported, Unreported
  <1> QED BY InitIInv, NextIInv, <1>1, PTL DEF LifecycleSpec
=============================================================================
