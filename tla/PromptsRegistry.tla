--------------------------- MODULE PromptsRegistry ---------------------------
(***************************************************************************)
(* The user's prompts: prompts-registry.json and AGENTS.md, which holds    *)
(* the prompt in force (codex-rs/ohos-host/src/prompts_registry.rs), and   *)
(* the settings page's copy of them (PromptsBackendService.ets,            *)
(* PromptsViewModel.ets).                                                  *)
(*                                                                         *)
(* The app's main thread runs one operation at a time.  What an operation  *)
(* writes is computed from what it reads when it begins and is then        *)
(* written file by file; in between the agent may write AGENTS.md, a write *)
(* may fail, or the process may be killed.  AGENTS.md is renamed into      *)
(* place; the registry is truncated and then written.                      *)
(*                                                                         *)
(* A text is the number of the write that made it, 0 the empty one.  Names *)
(* and timestamps are left out, and so are texts the user saves empty.     *)
(***************************************************************************)
EXTENDS Naturals, Sequences

CONSTANTS Prompts,   \* ids
          MaxTexts,  \* bound: texts ever written by the user and the agent
          MaxAgent,  \* bound: writes of AGENTS.md by the agent
          MaxHalts,  \* bound: failed writes and kills
          None       \* no such prompt

Texts == 0..MaxTexts

ASSUME BoundsAssumption == MaxTexts \in Nat /\ MaxAgent \in Nat /\ MaxHalts \in Nat
ASSUME NoneAssumption == None \notin Nat

VARIABLES
  registry,  \* prompts-registry.json: the text of each prompt, who is enabled
  torn,      \* it is truncated: load_or_default takes it for empty
  agents,    \* AGENTS.md
  marker,    \* .prompts-auto-imported exists
  shown,     \* state.prompts of the view model
  open,      \* loadAll has filled it
  todo,      \* what the running operation has yet to do
  texts, agentWrites, halts,  \* counters
  replaced   \* history: the AGENTS.md the last enable or disable replaced

disk == <<registry, torn, agents, marker>>
counters == <<texts, agentWrites, halts>>
vars == <<disk, shown, open, todo, counters, replaced>>

Registries == [text : [Prompts -> Texts \cup {None}], enabled : SUBSET Prompts]

Empty == [text |-> [p \in Prompts |-> None], enabled |-> {}]
Load == IF torn THEN Empty ELSE registry
Has(reg, p) == reg.text[p] # None

Init == /\ registry = Empty
        /\ torn = FALSE
        /\ agents = 0
        /\ marker = FALSE
        /\ shown = Empty
        /\ open = FALSE
        /\ todo = <<>>
        /\ texts = 0 /\ agentWrites = 0 /\ halts = 0
        /\ replaced = 0

-----------------------------------------------------------------------------
\* What is left to do is a sequence of such items.
Item(do, id, text, reg) == [do |-> do, id |-> id, text |-> text, reg |-> reg]

WriteAgents(text) == <<Item("agents", None, text, Empty)>>
Save(reg) == <<Item("truncate", None, 0, Empty), Item("registry", None, 0, reg)>>
WriteMarker == <<Item("marker", None, 0, Empty)>>
CallEnable(p) == <<Item("enable", p, 0, Empty)>>
Show(reg) == <<Item("show", None, 0, reg)>>

\* upsert
With(reg, p, text) == [reg EXCEPT !.text[p] = text]

\* Wrong on purpose: AGENTS.md is written back even when it is empty.
WrittenBackAlways(reg) == [reg EXCEPT !.text = [p \in Prompts |-> IF p \in reg.enabled THEN agents ELSE @[p]]]

\* AGENTS.md goes back to the prompt that was in force.
WrittenBack(reg) ==
  IF agents = 0 THEN reg
  ELSE [reg EXCEPT !.text = [p \in Prompts |-> IF p \in reg.enabled THEN agents ELSE @[p]]]

\* Wrong on purpose: an AGENTS.md of nobody's is not backed up.
NotBackedUp(reg) == {WrittenBack(reg)}

\* The texts an enable keeps; with nobody in force, AGENTS.md becomes a new prompt.
BackedUp(reg) ==
  IF reg.enabled = {} /\ agents # 0
  THEN {With(reg, p, agents) : p \in {q \in Prompts : ~Has(reg, q)}}
  ELSE {WrittenBack(reg)}

\* Wrong on purpose: the other prompts stay enabled.
EnableWritesAdding(p) ==
  IF p \in Load.enabled THEN {<<>>}
  ELSE {WriteAgents(kept.text[p]) \o Save([kept EXCEPT !.enabled = @ \cup {p}]) : kept \in BackedUp(Load)}

\* enable_prompt_with_agents_md: the possible writes (they differ in the backup's id).
EnableWrites(p) ==
  IF p \in Load.enabled THEN {<<>>}
  ELSE {WriteAgents(kept.text[p]) \o Save([kept EXCEPT !.enabled = {p}]) : kept \in BackedUp(Load)}

-----------------------------------------------------------------------------
\* The settings page

Begin(items, text) ==
  /\ todo = <<>>
  /\ todo' = items
  /\ texts' = text
  /\ replaced' = 0
  /\ UNCHANGED <<disk, open, shown, agentWrites, halts>>

\* loadAll
LoadAll ==
  /\ todo = <<>>
  /\ shown' = Load
  /\ open' = TRUE
  /\ UNCHANGED <<disk, todo, counters, replaced>>

\* togglePromptEnabled
Enable(p) ==
  /\ open
  /\ Has(shown, p)
  /\ p \notin shown.enabled
  /\ \E q \in Prompts : ~Has(Load, q)   \* bound: an id is left for a backup
  /\ Begin(CallEnable(p) \o Show([shown EXCEPT !.enabled = {p}]), texts)

\* disableAll, disable_all_with_agents_md
DisableAll ==
  /\ open
  /\ shown.enabled # {}
  /\ todo = <<>>
  /\ todo' = WriteAgents(0) \o Save([WrittenBack(Load) EXCEPT !.enabled = {}])
                            \o Show([shown EXCEPT !.enabled = {}])
  /\ replaced' = agents
  /\ UNCHANGED <<disk, open, shown, counters>>

\* Wrong on purpose: the draft of a new prompt is saved as enabled.
SavePromptEnabled(p) ==
  /\ open
  /\ texts < MaxTexts
  /\ LET draft == [With(Load, p, texts + 1) EXCEPT !.enabled = @ \cup {p}]
     IN Begin(Save(draft) \o CallEnable(p) \o Show(With(shown, p, texts + 1)), texts + 1)

\* savePromptDraft, savePrompt: the draft's flag is the one the page shows.
SavePrompt(p) ==
  /\ open
  /\ Has(shown, p) \/ ~Has(Load, p)   \* a new id is new
  /\ texts < MaxTexts
  /\ LET inForce == p \in shown.enabled
         draft == [With(Load, p, texts + 1)
                     EXCEPT !.enabled = IF inForce THEN @ \cup {p} ELSE @ \ {p}]
         page == With(shown, p, texts + 1)
     IN Begin(Save(draft)
                \o (IF inForce THEN CallEnable(p) \o Show([page EXCEPT !.enabled = {p}])
                               ELSE Show(page)),
              texts + 1)

\* deletePrompt
DeletePrompt(p) ==
  /\ open
  /\ Has(shown, p)
  /\ Has(Load, p)
  /\ p \notin Load.enabled
  /\ Begin(Save(With(Load, p, None)) \o Show([With(shown, p, None) EXCEPT !.enabled = @ \ {p}]), texts)

\* autoImportOnFirstLaunch: the framework and what AGENTS.md held are a new text.
AutoImport(p) ==
  /\ ~open /\ ~marker
  /\ IF \E q \in Prompts : Has(Load, q)
     THEN Begin(WriteMarker, texts)
     ELSE /\ texts < MaxTexts
          /\ Begin(Save([With(Empty, p, texts + 1) EXCEPT !.enabled = {p}])
                     \o WriteAgents(texts + 1) \o WriteMarker,
                   texts + 1)

-----------------------------------------------------------------------------
\* The next item of the operation

Do(what) == todo # <<>> /\ Head(todo).do = what

\* Wrong on purpose: whether there is such a prompt is not checked.
RunEnableUnchecked ==
  /\ Do("enable")
  /\ replaced' = IF Head(todo).id \in Load.enabled THEN 0 ELSE agents
  /\ \E writes \in EnableWrites(Head(todo).id) : todo' = writes \o Tail(todo)
  /\ UNCHANGED <<disk, shown, open, counters>>

\* The native call reads both files now.
RunEnable ==
  /\ Do("enable")
  /\ replaced' = IF Head(todo).id \in Load.enabled THEN 0 ELSE agents
  /\ IF Has(Load, Head(todo).id)
     THEN \E writes \in EnableWrites(Head(todo).id) : todo' = writes \o Tail(todo)
     ELSE todo' = <<>>    \* prompt not found
  /\ UNCHANGED <<disk, shown, open, counters>>

Write ==
  /\ \/ /\ Do("agents")
        /\ agents' = Head(todo).text
        /\ UNCHANGED <<registry, torn, marker, shown>>
     \/ /\ Do("truncate")
        /\ torn' = TRUE
        /\ UNCHANGED <<registry, agents, marker, shown>>
     \/ /\ Do("registry")
        /\ registry' = Head(todo).reg
        /\ torn' = FALSE
        /\ UNCHANGED <<agents, marker, shown>>
     \/ /\ Do("marker")
        /\ marker' = TRUE
        /\ UNCHANGED <<registry, torn, agents, shown>>
     \/ /\ Do("show")
        /\ shown' = Head(todo).reg
        /\ UNCHANGED disk
  /\ todo' = Tail(todo)
  /\ UNCHANGED <<open, counters, replaced>>

-----------------------------------------------------------------------------
\* The environment

\* The agent edits, ensureReplyRules extends, or somebody empties AGENTS.md.
AgentWrites ==
  /\ agentWrites < MaxAgent
  /\ agentWrites' = agentWrites + 1
  /\ \/ agents' = 0 /\ UNCHANGED texts
     \/ texts < MaxTexts /\ texts' = texts + 1 /\ agents' = texts + 1
  /\ UNCHANGED <<registry, torn, marker, shown, open, todo, halts, replaced>>

\* A write fails: the operation reports it, the page keeps its copy.
WriteFails ==
  /\ todo # <<>>
  /\ Head(todo).do # "show"
  /\ halts < MaxHalts
  /\ halts' = halts + 1
  /\ todo' = <<>>
  /\ UNCHANGED <<disk, shown, open, texts, agentWrites, replaced>>

\* The process is killed and started again.
Restart ==
  /\ halts < MaxHalts
  /\ halts' = halts + 1
  /\ todo' = <<>>
  /\ shown' = Empty
  /\ open' = FALSE
  /\ UNCHANGED <<disk, texts, agentWrites, replaced>>

Operation(p) == Enable(p) \/ SavePrompt(p) \/ DeletePrompt(p) \/ AutoImport(p)

Next == \/ LoadAll \/ DisableAll \/ \E p \in Prompts : Operation(p)
        \/ RunEnable \/ Write
        \/ AgentWrites \/ WriteFails \/ Restart

Spec == Init /\ [][Next]_vars

-----------------------------------------------------------------------------
Items == [do : {"agents", "truncate", "registry", "marker", "enable", "show"},
          id : Prompts \cup {None}, text : Texts, reg : Registries]

TypeOK == /\ registry \in Registries
          /\ torn \in BOOLEAN
          /\ agents \in Texts
          /\ marker \in BOOLEAN
          /\ shown \in Registries
          /\ open \in BOOLEAN
          /\ todo \in Seq(Items)
          /\ texts \in 0..MaxTexts /\ agentWrites \in 0..MaxAgent /\ halts \in 0..MaxHalts
          /\ replaced \in Texts

AtMostOne(S) == \A p, q \in S : p = q

(***************************************************************************)
(* At most one prompt is in force, although drafts carry the flag of the   *)
(* page's copy, which failures and kills leave behind the registry.        *)
(***************************************************************************)
OneInForce == AtMostOne(registry.enabled) /\ AtMostOne(shown.enabled)

(***************************************************************************)
(* The page never hides that a prompt is in force.                         *)
(***************************************************************************)
PageAgrees == open /\ todo = <<>> => Load.enabled \subseteq shown.enabled

(***************************************************************************)
(* No prompt is ever emptied by an AGENTS.md that somebody emptied, also   *)
(* not by one an interrupted disable left behind.                          *)
(***************************************************************************)
NoPromptEmptied == \A p \in Prompts : registry.text[p] # 0

Kept(text) == agents = text \/ \E p \in Prompts : Load.text[p] = text

(***************************************************************************)
(* When an enable or disable is over and no write has failed and nothing   *)
(* was killed, the AGENTS.md it replaced is still there, or is the text of *)
(* a prompt, whatever the agent wrote in between.                          *)
(***************************************************************************)
ReplacedIsKept ==
  [][todo # <<>> /\ todo' = <<>> => halts' > 0 \/ replaced = 0 \/ Kept(replaced)']_vars
=============================================================================
