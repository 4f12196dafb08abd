---------------------------- MODULE MCBackground ----------------------------
(***************************************************************************)
(* What goes on beside the turns, on small instances for TLC: refreshing   *)
(* the session of a thread before a turn starts, and the memory jobs of    *)
(* the state database.  They share no state, so each behaviour exercises   *)
(* one of them, its subject.                                               *)
(***************************************************************************)
EXTENDS ThreadRefresh, MemoryJobs, TLC

VARIABLE subject

Symmetry == Permutations(Threads) \cup Permutations(Workers)

\* One initial state of the refresh is enough for the behaviours of the other subject.
BackgroundInit ==
  /\ Init /\ JobsInit
  /\ subject \in IF messages THEN {"refresh", "memories"} ELSE {"refresh"}

BackgroundNext ==
  /\ \/ subject = "refresh" /\ Next /\ UNCHANGED jobsVars
     \/ subject = "memories" /\ JobsNext /\ UNCHANGED vars
  /\ UNCHANGED subject

BackgroundSpec == BackgroundInit /\ [][BackgroundNext]_<<vars, jobsVars, subject>>
=============================================================================
