---------------------------- MODULE TokenLedger ----------------------------
(***************************************************************************)
(* The usage ledger and the context snapshots of codex-rs/ohos-host:       *)
(* token-usage.json counts the tokens of all threads by what a thread's    *)
(* total has grown since it was last seen, thread-context.json keeps the   *)
(* latest total of each thread (src/lib.rs).                               *)
(*                                                                         *)
(* The server reports a thread's total after each usage, and after a       *)
(* compaction or a full window the estimate that replaces it, which may be *)
(* lower or higher (core/src/codex.rs).  Reports may be dropped (they are  *)
(* of the best-effort tier), late, and come again when a thread is         *)
(* resumed; after a kill a session begins again with an earlier total, the *)
(* last its rollout has kept.  Both files are truncated and then written.  *)
(*                                                                         *)
(* One count stands for the five kinds of tokens, which are treated alike, *)
(* and one for the days, which are only ever added to.                     *)
(***************************************************************************)
EXTENDS Naturals, Sequences, FiniteSetsExt

CONSTANTS LedgerThreads,   \* threads of the server
          MaxTokens,       \* bound: the total of a session
          MaxTotals,       \* bound: the totals in a thread's rollout
          MaxLedgerKills,  \* bound: kills of the process
          NoTotal          \* no snapshot of a thread

ASSUME LedgerAssumption ==
  /\ IsFiniteSet(LedgerThreads)
  /\ MaxTokens \in Nat /\ MaxTotals \in Nat /\ MaxLedgerKills \in Nat
  /\ NoTotal \notin Nat

VARIABLES
  usage,       \* token-usage.json: the last total of each thread, and the sum over the days
  usageTorn,   \* it does not parse
  context,     \* thread-context.json: the latest total of each thread
  contextTorn, \* it does not parse
  saving,      \* the files the running notification has yet to write
  totals,      \* the totals each thread's session has had, in the order of its rollout;
               \* of each, as history, by how much the thread's total had ever risen then
  reported,    \* which of them was the last that was reported
  ledgerKills  \* counter

ledgerVars == <<usage, usageTorn, context, contextTorn, saving, totals, reported, ledgerKills>>

Total(f) == MapThenSumSet(LAMBDA t : f[t], LedgerThreads)

LedgerInit ==
  /\ usage = [threads |-> [t \in LedgerThreads |-> 0], days |-> 0]
  /\ usageTorn = FALSE
  /\ context = [t \in LedgerThreads |-> NoTotal]
  /\ contextTorn = FALSE
  /\ saving = <<>>
  /\ totals = [t \in LedgerThreads |-> <<[total |-> 0, risen |-> 0]>>]
  /\ reported = [t \in LedgerThreads |-> 1]
  /\ ledgerKills = 0

-----------------------------------------------------------------------------
\* unwrap_or_default: snapshots that do not parse are none.
Snapshots == IF contextTorn THEN [t \in LedgerThreads |-> NoTotal] ELSE context

\* Wrong on purpose: a report's whole total is added to the day.
CountedWhole(agg, t, new) == [threads |-> [agg.threads EXCEPT ![t] = new], days |-> agg.days + new]

Rise(old, new) == IF new > old THEN new - old ELSE 0

\* The ledger after a report; a total that has shrunk adds nothing.
Counted(agg, t, new) ==
  [threads |-> [agg.threads EXCEPT ![t] = new],
   days |-> agg.days + Rise(agg.threads[t], new)]

SaveContext(t, new) == [file |-> "context", thread |-> t, total |-> new]
SaveUsage(t, new) == [file |-> "usage", thread |-> t, total |-> new]

\* The server's sessions
Latest(t) == totals[t][Len(totals[t])]
After(last, new) == [total |-> new, risen |-> last.risen + Rise(last.total, new)]

NewTotal(t, new) ==
  /\ Len(totals[t]) < MaxTotals
  /\ totals' = [totals EXCEPT ![t] = Append(@, After(Latest(t), new))]
  /\ UNCHANGED <<usage, usageTorn, context, contextTorn, saving, reported, ledgerKills>>

\* update_token_usage_info: a response has used tokens.
Spend(t) ==
  /\ Latest(t).total < MaxTokens
  /\ NewTotal(t, Latest(t).total + 1)

\* recompute_token_usage, set_total_tokens_full: an estimate, or the whole window, replaces the total.
Recompute(t) == \E estimated \in 0..MaxTokens : NewTotal(t, estimated)

\* ThreadTokenUsageUpdated: a later total, some having been dropped, or the same again
UsageUpdated(t) ==
  /\ saving = <<>>
  /\ \E i \in reported[t]..Len(totals[t]) :
       /\ reported' = [reported EXCEPT ![t] = i]
       /\ saving' = <<SaveContext(t, totals[t][i].total), SaveUsage(t, totals[t][i].total)>>
  /\ UNCHANGED <<usage, usageTorn, context, contextTorn, totals, ledgerKills>>

\* thread_archive
Archive(t) ==
  /\ saving = <<>>
  /\ saving' = <<SaveContext(t, NoTotal)>>
  /\ UNCHANGED <<usage, usageTorn, context, contextTorn, totals, reported, ledgerKills>>

SaveNext ==
  /\ saving # <<>>
  /\ LET s == Head(saving)
     IN \/ /\ s.file = "context"
           /\ context' = [Snapshots EXCEPT ![s.thread] = s.total]
           /\ contextTorn' = FALSE
           /\ UNCHANGED <<usage, usageTorn>>
        \/ /\ s.file = "usage"
           \* A ledger that does not parse is not updated.
           /\ usage' = IF usageTorn THEN usage ELSE Counted(usage, s.thread, s.total)
           /\ UNCHANGED <<usageTorn, context, contextTorn>>
  /\ saving' = Tail(saving)
  /\ UNCHANGED <<totals, reported, ledgerKills>>

\* last_token_info_from_rollout: the session begins with the last of the first n totals.
Resumed(t, n) == [SubSeq(totals[t], 1, n) EXCEPT ![n] = After(Latest(t), totals[t][n].total)]

\* The process is killed, possibly in the middle of a write, and started again.
LedgerKill ==
  /\ ledgerKills < MaxLedgerKills
  /\ ledgerKills' = ledgerKills + 1
  /\ \/ UNCHANGED <<usageTorn, contextTorn>>
     \/ /\ saving # <<>>
        /\ usageTorn' = (usageTorn \/ Head(saving).file = "usage")
        /\ contextTorn' = (contextTorn \/ Head(saving).file = "context")
  /\ saving' = <<>>
  /\ \E kept \in [LedgerThreads -> 1..MaxTotals] :
       /\ \A t \in LedgerThreads : kept[t] <= Len(totals[t])
       /\ totals' = [t \in LedgerThreads |-> Resumed(t, kept[t])]
       /\ reported' = kept
  /\ UNCHANGED <<usage, context>>

LedgerNext ==
  \/ \E t \in LedgerThreads : Spend(t) \/ Recompute(t) \/ UsageUpdated(t) \/ Archive(t)
  \/ SaveNext \/ LedgerKill

LedgerSpec == LedgerInit /\ [][LedgerNext]_ledgerVars

-----------------------------------------------------------------------------
(***************************************************************************)
(* No rise of a thread's total is counted twice by the days, and none of   *)
(* the threads' totals is missing in them, whatever was dropped, reported  *)
(* late or again, or forgotten by a kill.  A rise is what a response used, *)
(* or by how much an estimate, or after a kill an earlier total, exceeds   *)
(* the total it replaces: where there are no estimates, the days hold no   *)
(* token that was not spent.                                               *)
(***************************************************************************)
LedgerBalanced ==
  /\ Total(usage.threads) <= usage.days
  /\ usage.days <= Total([t \in LedgerThreads |-> Latest(t).risen])
=============================================================================
