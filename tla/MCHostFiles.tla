---------------------------- MODULE MCHostFiles ----------------------------
(***************************************************************************)
(* The files the host keeps beside the agent's, on small instances for     *)
(* TLC: the prompts, the skills and the usage ledger.  They share no file, *)
(* so each behaviour exercises one of them, its subject.                   *)
(***************************************************************************)
EXTENDS PromptsRegistry, SkillsRegistry, TokenLedger

VARIABLE subject

MCBundled == <<"d1">>
MCDirs == {"d1", "d2"}

HostFilesInit ==
  /\ Init /\ SkillsInit /\ LedgerInit
  /\ subject \in {"prompts", "skills", "ledger"}

HostFilesNext ==
  /\ \/ subject = "prompts" /\ Next /\ UNCHANGED <<skillVars, ledgerVars>>
     \/ subject = "skills" /\ SkillsNext /\ UNCHANGED <<vars, ledgerVars>>
     \/ subject = "ledger" /\ LedgerNext /\ UNCHANGED <<vars, skillVars>>
  /\ UNCHANGED subject

HostFilesSpec == HostFilesInit /\ [][HostFilesNext]_<<vars, skillVars, ledgerVars, subject>>

\* AsTold and OffIsOff say nothing of what follows a spoiled registry.
Unspoiled == ~spoiled
=============================================================================
