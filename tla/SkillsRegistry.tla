--------------------------- MODULE SkillsRegistry ---------------------------
(***************************************************************************)
(* Installed skills: skills-registry.json and the directories it speaks of *)
(* (codex-rs/ohos-host/src/skills_registry.rs), the list of skills that    *)
(* are off in config.toml, which is what the agent reads (lib.rs), and the *)
(* operations of the app on them (SkillsBackendService.ets,                *)
(* BundledSkills.ets), with the list the page shows of them                *)
(* (CodexBackend.ets), which is read from the registry.                    *)
(*                                                                         *)
(* A native call runs on the app's main thread and does its writes one by  *)
(* one; the process may be killed, or a write may fail, between two.       *)
(* Downloads and imports await in between: other operations run meanwhile. *)
(* The registry is truncated and then written, config.toml is renamed into *)
(* place.                                                                  *)
(*                                                                         *)
(* An id is a source and a directory (owner/name:dir, bundled:dir, ...).   *)
(* Names, hashes, times, the spelling of directories and the list of       *)
(* repositories are left out, and so are update and the migration of the   *)
(* old directory, which nothing calls or which finds nothing any more.     *)
(***************************************************************************)
EXTENDS Naturals, Sequences

CONSTANTS Dirs,       \* names of skill directories
          Repos,      \* GitHub repositories that offer skills
          Bundled,    \* directories of the bundled skills, in their order
          Installs,   \* installs from GitHub that may be under way
          Imports,    \* imports from a folder or a ZIP that may be under way
          Kinds,      \* "local", "zip": which of these the user uses
          MaxSkillHalts, \* bound: failed writes and kills
          NoDir       \* no directory

ASSUME SkillsAssumption ==
  /\ MaxSkillHalts \in Nat
  /\ Bundled \in Seq(Dirs)
  /\ NoDir \notin Dirs
  /\ Repos \cap {"bundled", "local", "zip"} = {}
  /\ Kinds \subseteq {"local", "zip"}
  /\ Installs \cap Imports = {}

Flows == Installs \cup Imports
Sources == Repos \cup {"bundled", "local", "zip"}
Entries == [src : Sources, dir : Dirs, on : BOOLEAN]
Entry(src, dir, on) == [src |-> src, dir |-> dir, on |-> on]

VARIABLES
  entries,    \* skills-registry.json
  halfWritten, \* it is truncated: load_or_default takes it for empty
  files,      \* the directories: "none", "some" files, a "skill" with its SKILL.md
  off,        \* directories that config.toml disables
  bundledMarker, \* the marker file of installBundledSkills
  phase,      \* "boot", "timer", "open": how far the app has started
  writes,     \* what the running operation has yet to do
  flow,       \* the installs and imports under way
  installedStore,      \* skillInstalledStore: the list the page shows
  listed,     \* it has been read since the start, and since the last operation that is followed by a reload
  skillHalts, \* counter
  told,       \* history: what the user was told of skills; while a flag is being set, and when
              \* that was cut short, the entry with either flag
  lost,       \* history: directories told of before a kill that left the registry truncated
  halved,     \* history: directories whose flag was last set in one of the two files only
  spoiled     \* history: a list out of date was saved, or a save has failed and left
              \* the registry truncated or without the directories it speaks of

skillDisk == <<entries, halfWritten, files, off, bundledMarker>>
skillPage == <<installedStore, listed>>
skillPast == <<told, lost, halved, spoiled>>
skillVars == <<skillDisk, phase, writes, flow, skillPage, skillHalts, skillPast>>

Exists(d) == files[d] # "none"
HasManifest(d) == files[d] = "skill"

IdleFlow == [pc |-> "idle", src |-> "local", dir |-> NoDir, left |-> {}, read |-> {}, new |-> {}, stale |-> FALSE]

SkillsInit ==
  /\ entries = {}
  /\ halfWritten = FALSE
  /\ files = [d \in Dirs |-> "none"]
  /\ off = {}
  /\ bundledMarker = FALSE
  /\ phase = "boot"
  /\ writes = <<>>
  /\ flow = [f \in Flows |-> IdleFlow]
  /\ installedStore = {}
  /\ listed = FALSE
  /\ skillHalts = 0
  /\ told = {}
  /\ lost = {}
  /\ halved = {}
  /\ spoiled = FALSE

Registered == IF halfWritten THEN {} ELSE entries
Of(reg, d) == {e \in reg : e.dir = d}
SameId(e, f) == e.src = f.src /\ e.dir = f.dir

-----------------------------------------------------------------------------
\* What is left to do is a sequence of such steps.
Step(do, dir, src, reg) == [do |-> do, dir |-> dir, src |-> src, reg |-> reg]

SaveSkills(reg) == <<Step("registry", NoDir, "local", reg)>>
CopyDir(src, d) == <<Step("copy", d, src, {}), Step("manifest", d, src, {})>>
RemoveDir(d) == IF Exists(d) THEN <<Step("unlink", d, "local", {}), Step("rmdir", d, "local", {})>> ELSE <<>>
SetConfig(e) == <<Step(IF e.on THEN "on" ELSE "off", e.dir, e.src, {})>>
MarkBundled == <<Step("marker", NoDir, "local", {})>>
\* The call returns, and the page reads the list again; the user has been told of reg.
Tell(reg) == <<Step("tell", NoDir, "local", reg)>>
\* setSkillEnabled returns, with the flag set or as it was.
TellSet(e, reg) == <<Step("set", e.dir, e.src, reg)>>
TellKept(e, reg) == <<Step("kept", e.dir, e.src, reg)>>
ReadList == <<Step("list", NoDir, "local", {})>>

\* upsert
Upsert(reg, e) == {x \in reg : ~SameId(x, e)} \cup {e}
\* remove
Without(reg, e) == {x \in reg : ~SameId(x, e)}

\* The user is told of a skill, in place of what was told of its directory before.
Retold(e) == {x \in told : x.dir # e.dir} \cup {e}
\* A flag the user sets, of a skill the user was told of.
ToldAs(e) == IF Of(told, e.dir) # {} THEN Retold(e) ELSE told
\* The user has asked for it, and is told at the end.
Asked(e) == told' = told \cup ToldAs(e)

Valid(reg) == {e \in reg : Exists(e.dir)}
NewLocal(reg) == {Entry("local", d, TRUE) : d \in {x \in Dirs : HasManifest(x) /\ Of(reg, x) = {}}}

\* reconcile_skills: what it leaves, and the up to two saves.
Reconciled(reg) == Valid(reg) \cup NewLocal(Valid(reg))
ReconcileWrites(reg) ==
  (IF reg # {} THEN SaveSkills(Valid(reg)) ELSE <<>>)
    \o (IF NewLocal(Valid(reg)) # {} THEN SaveSkills(Reconciled(reg)) ELSE <<>>)

\* The main thread is free for an operation.
Free == writes = <<>> /\ \A f \in Flows : flow[f].pc \notin {"read", "check"}

-----------------------------------------------------------------------------
\* The start of the app

\* onCreate: reconcileSkills does not await and so precedes the timer.
ReconcileAtStart ==
  /\ phase = "boot"
  /\ phase' = "timer"
  /\ writes' = ReconcileWrites(Registered)
  /\ UNCHANGED <<skillDisk, flow, skillPage, skillHalts, skillPast>>

BundledEntries == {Entry("bundled", Bundled[i], TRUE) : i \in DOMAIN Bundled}
CopyBundled == [i \in 1..2 * Len(Bundled) |-> CopyDir("bundled", Bundled[(i + 1) \div 2])[2 - (i % 2)]]

\* installBundledSkills
InstallBundled ==
  /\ phase = "timer"
  /\ writes = <<>>
  /\ phase' = "open"
  /\ writes' = IF bundledMarker THEN <<>>
               ELSE IF Registered # {} THEN MarkBundled
               ELSE CopyBundled \o SaveSkills(BundledEntries) \o MarkBundled
                      \o Tell(told \cup BundledEntries)
  /\ UNCHANGED <<skillDisk, flow, skillPage, skillHalts, skillPast>>

-----------------------------------------------------------------------------
\* The settings page

\* loadInstalled, when the page opens, and reloadInstalledSkills after an operation:
\* getInstalled, which reconciles an empty registry.  Loaded again, the list is the same.
LoadInstalled ==
  /\ phase = "open" /\ Free
  /\ ~listed
  /\ writes' = (IF Registered = {} THEN ReconcileWrites({}) ELSE <<>>) \o ReadList
  /\ UNCHANGED <<skillDisk, phase, flow, skillPage, skillHalts, skillPast>>

\* toggleSkillEnabled: the flag the page does not show is set for the id.
Toggle(e) ==
  /\ phase = "open" /\ Free /\ listed
  /\ \E x \in Registered :
       LET set == [x EXCEPT !.on = ~e.on]
       IN /\ SameId(x, e)
          /\ writes' = SaveSkills(Upsert(Registered, set)) \o SetConfig(set) \o TellSet(set, ToldAs(set))
          /\ told' = told \cup ToldAs(e) \cup ToldAs(set)
  /\ UNCHANGED <<skillDisk, phase, flow, skillPage, skillHalts, lost, halved, spoiled>>

\* uninstall, uninstall_skill
Uninstall(e) ==
  /\ phase = "open" /\ Free /\ listed
  /\ \E x \in Registered :
       /\ SameId(x, e)
       /\ told' = told \ Of(told, x.dir)
       /\ writes' = RemoveDir(x.dir) \o SaveSkills(Without(Registered, x)) \o Tell(told')
  /\ UNCHANGED <<skillDisk, phase, flow, skillPage, skillHalts, lost, halved, spoiled>>

\* getInstalled at the beginning of a flow
BeginFlow(f, src, S) ==
  /\ phase = "open" /\ Free /\ listed
  /\ flow[f].pc = "idle"
  /\ flow' = [flow EXCEPT ![f].pc = "read", ![f].src = src, ![f].left = S]
  /\ writes' = IF Registered = {} THEN ReconcileWrites({}) ELSE <<>>
  /\ UNCHANGED <<skillDisk, phase, skillPage, skillHalts, skillPast>>

\* When there is nothing, not even after reconciling, it scans the directories in the taskpool.
ReadInstalled(f) ==
  /\ flow[f].pc = "read"
  /\ writes = <<>>
  /\ flow' = [flow EXCEPT ![f].pc = IF Registered = {} THEN "scan" ELSE "check", ![f].read = Registered]
  /\ UNCHANGED <<skillDisk, phase, writes, skillPage, skillHalts, skillPast>>

Scan(f) ==
  /\ flow[f].pc = "scan"
  /\ flow' = [flow EXCEPT ![f].pc = "check", ![f].read = NewLocal({})]
  /\ UNCHANGED <<skillDisk, phase, writes, skillPage, skillHalts, skillPast>>

\* saveInstalled: the whole registry is written from a list that was read before.
SaveInstalled(f, list, toTell) ==
  /\ writes' = SaveSkills(list) \o Tell(toTell)
  /\ spoiled' = (spoiled \/ flow[f].stale)

Ends(f) == flow' = [flow EXCEPT ![f] = IdleFlow]

\* installFromGithub
Install(f, repo, d) == f \in Installs /\ BeginFlow(f, repo, {d})

\* Its conflict check.
CheckInstall(f) ==
  /\ f \in Installs
  /\ flow[f].pc = "check"
  /\ writes = <<>>
  /\ \E d \in flow[f].left :
       LET same == Of(flow[f].read, d)
       IN \/ /\ same = {}
             /\ flow' = [flow EXCEPT ![f].pc = "download"]
             /\ UNCHANGED <<writes, told, spoiled>>
          \/ \E e \in same :
               /\ Ends(f)
               /\ IF e.src # flow[f].src THEN UNCHANGED <<writes, told, spoiled>>
                  ELSE IF e.on THEN writes' = Tell(told) /\ UNCHANGED <<told, spoiled>>
                  ELSE LET set == [e EXCEPT !.on = TRUE]
                       IN Asked(set) /\ SaveInstalled(f, Upsert(flow[f].read, set), ToldAs(set))
  /\ UNCHANGED <<skillDisk, phase, skillPage, skillHalts, lost, halved>>

\* Wrong on purpose: only the check before the download counts.
DownloadedUnchecked(f) ==
  /\ flow[f].pc = "download"
  /\ Free
  /\ Ends(f)
  /\ \E d \in flow[f].left :
       LET e == Entry(flow[f].src, d, TRUE)
       IN Asked(e) /\ writes' = CopyDir(e.src, d) \o SaveSkills(Upsert(Registered, e)) \o Tell(Retold(e))
  /\ UNCHANGED <<skillDisk, phase, skillPage, skillHalts, lost, halved, spoiled>>

\* The download has failed, or install_skill_from_dir takes over.
Downloaded(f) ==
  /\ flow[f].pc = "download"
  /\ Free
  /\ Ends(f)
  /\ \/ UNCHANGED <<writes, told>>
     \/ \E d \in flow[f].left :
          LET e == Entry(flow[f].src, d, TRUE)
          IN /\ Exists(d) => \A x \in Of(Registered, d) : SameId(x, e)
             /\ Asked(e)
             /\ writes' = CopyDir(e.src, d) \o SaveSkills(Upsert(Registered, e)) \o Tell(Retold(e))
  /\ UNCHANGED <<skillDisk, phase, skillPage, skillHalts, lost, halved, spoiled>>

\* importFromLocal, importFromZip
Import(f, src, S) == f \in Imports /\ BeginFlow(f, src, S)

\* importResolvedSources: the next source, or the end.
NextSource(f) ==
  /\ f \in Imports
  /\ flow[f].pc = "check"
  /\ writes = <<>>
  /\ \/ /\ flow[f].left = {}
        /\ Ends(f)
        /\ IF flow[f].new = {}
           THEN /\ writes' = IF flow[f].src = "local" THEN Tell(told) ELSE <<>>
                /\ UNCHANGED spoiled
           ELSE SaveInstalled(f, flow[f].read \cup flow[f].new, told \cup flow[f].new)
     \/ \E d \in flow[f].left :
          /\ IF Of(flow[f].read, d) # {} THEN flow' = [flow EXCEPT ![f].left = @ \ {d}]
             ELSE IF Exists(d) THEN Ends(f)   \* SKILL_DIRECTORY_CONFLICT
             ELSE flow' = [flow EXCEPT ![f].pc = "copy", ![f].dir = d, ![f].left = @ \ {d}]
          /\ UNCHANGED <<writes, spoiled>>
  /\ UNCHANGED <<skillDisk, phase, skillPage, skillHalts, told, lost, halved>>

\* copyDirRecursiveTask, in the taskpool: some files, and the rest with SKILL.md.
CopySome(f) ==
  /\ flow[f].pc = "copy"
  /\ files' = [files EXCEPT ![flow[f].dir] = IF @ = "none" THEN "some" ELSE @]
  /\ flow' = [flow EXCEPT ![f].pc = "copying"]
  /\ UNCHANGED <<entries, halfWritten, off, bundledMarker, phase, writes, skillPage, skillHalts, skillPast>>

\* A file whose directory has gone is skipped.
CopyRest(f) ==
  /\ flow[f].pc = "copying"
  /\ files' = [files EXCEPT ![flow[f].dir] = IF @ = "none" THEN @ ELSE "skill"]
  /\ flow' = [flow EXCEPT ![f].pc = "copied"]
  /\ UNCHANGED <<entries, halfWritten, off, bundledMarker, phase, writes, skillPage, skillHalts, skillPast>>

Copied(f) ==
  /\ flow[f].pc = "copied"
  /\ Free
  /\ flow' = [flow EXCEPT ![f].pc = "check", ![f].dir = NoDir,
                          ![f].new = @ \cup {Entry(flow[f].src, flow[f].dir, TRUE)}]
  /\ UNCHANGED <<skillDisk, phase, writes, skillPage, skillHalts, skillPast>>

-----------------------------------------------------------------------------
\* The next step of the running operation

Doing(what) == writes # <<>> /\ Head(writes).do = what

WriteStep ==
  /\ writes # <<>>
  /\ LET d == Head(writes).dir
     IN \/ /\ Doing("registry")
           /\ halfWritten' = FALSE
           /\ entries' = Head(writes).reg
           /\ UNCHANGED <<files, off, bundledMarker, skillPage, told, lost, halved>>
        \/ /\ Doing("copy")
           /\ files' = [files EXCEPT ![d] = IF @ = "none" THEN "some" ELSE @]
           /\ UNCHANGED <<entries, halfWritten, off, bundledMarker, skillPage, told, lost, halved>>
        \/ /\ Doing("manifest")
           /\ files' = [files EXCEPT ![d] = "skill"]
           /\ UNCHANGED <<entries, halfWritten, off, bundledMarker, skillPage, told, lost, halved>>
        \/ /\ Doing("unlink")
           /\ files' = [files EXCEPT ![d] = "some"]
           /\ UNCHANGED <<entries, halfWritten, off, bundledMarker, skillPage, told, lost, halved>>
        \/ /\ Doing("rmdir")
           /\ files' = [files EXCEPT ![d] = "none"]
           /\ UNCHANGED <<entries, halfWritten, off, bundledMarker, skillPage, told, lost, halved>>
        \/ /\ Doing("on") \/ Doing("off")
           /\ off' = IF Doing("on") THEN off \ {d} ELSE off \cup {d}
           /\ halved' = halved \ {d}
           /\ UNCHANGED <<entries, halfWritten, files, bundledMarker, skillPage, told, lost>>
        \/ /\ Doing("marker")
           /\ bundledMarker' = TRUE
           /\ UNCHANGED <<entries, halfWritten, files, off, skillPage, told, lost, halved>>
        \/ /\ Doing("list")
           \* What is not registered even then is scanned.
           /\ installedStore' = IF Registered = {} THEN NewLocal({}) ELSE Registered
           /\ listed' = TRUE
           /\ UNCHANGED <<skillDisk, told, lost, halved>>
        \/ /\ Doing("tell") \/ Doing("set") \/ Doing("kept")
           /\ told' = Head(writes).reg
           /\ lost' = {x \in lost : Of(told', x) = Of(told, x)}
           /\ listed' = (listed /\ ~Doing("tell"))
           /\ installedStore' = IF Doing("set") THEN Without(installedStore, Head(writes)) \cup {x \in Registered : SameId(x, Head(writes))}
                       ELSE installedStore
           /\ UNCHANGED <<skillDisk, halved>>
  /\ writes' = Tail(writes)
  /\ flow' = IF Head(writes).do \in {"tell", "set", "kept", "list", "marker", "on", "off"} THEN flow
             ELSE [f \in Flows |-> [flow[f] EXCEPT !.stale = @ \/ flow[f].pc \notin {"idle", "read", "download"}]]
  /\ UNCHANGED <<phase, skillHalts, spoiled>>

-----------------------------------------------------------------------------
\* Failures

Still(what) == \E i \in DOMAIN writes : writes[i].do \in what

\* The directory whose flag the running operation has set in one file only.
SetInOneFile == Still({"registry"}) <=> ~Still({"on", "off"})
Halfway == IF SetInOneFile THEN {writes[i].dir : i \in {k \in DOMAIN writes : writes[k].do \in {"set", "kept"}}}
           ELSE {}

\* A write of the registry that is cut short may leave it truncated.
CutShort ==
  /\ halfWritten' \in {halfWritten, halfWritten \/ Doing("registry")}
  /\ halved' = halved \cup Halfway
  /\ UNCHANGED <<entries, files, off, bundledMarker>>

\* reconcile_skills goes on when a save fails.
ReconcileSaves == ~Still({"copy", "manifest", "unlink", "rmdir", "on", "off", "marker", "tell", "set", "kept"})

\* Wrong on purpose: a failed write of config.toml is ignored.
NotRolledBack(e) == Tail(writes)

\* set_skill_enabled after a failed write of config.toml: the registry gets the other flag back.
RolledBack(e) == SaveSkills(Upsert(Registered, e)) \o TellKept(e, ToldAs(e))

\* A write fails.
SkillWriteFails ==
  /\ skillHalts < MaxSkillHalts
  /\ skillHalts' = skillHalts + 1
  /\ writes # <<>> /\ Head(writes).do \notin {"tell", "set", "kept", "list"}
  /\ IF Doing("on") \/ Doing("off")
     THEN /\ writes' = RolledBack(Entry(Head(writes).src, Head(writes).dir, Doing("off")))
          /\ UNCHANGED <<skillDisk, halved>>
     ELSE /\ writes' = IF ReconcileSaves THEN Tail(writes) ELSE <<>>
          /\ CutShort
  /\ spoiled' = (spoiled \/ halfWritten' \/ \E e \in entries : ~Exists(e.dir))
  /\ UNCHANGED <<phase, flow, skillPage, told, lost>>

\* The process is killed and started again.
SkillRestart ==
  /\ skillHalts < MaxSkillHalts
  /\ skillHalts' = skillHalts + 1
  /\ phase' = "boot"
  /\ writes' = <<>>
  /\ flow' = [f \in Flows |-> IdleFlow]
  /\ installedStore' = {}
  /\ listed' = FALSE
  /\ CutShort
  /\ lost' = IF halfWritten' THEN lost \cup {e.dir : e \in told} ELSE lost
  /\ UNCHANGED <<told, spoiled>>

FlowStep(f) ==
  \/ \E d \in Dirs, repo \in Repos : Install(f, repo, d)
  \/ \E S \in SUBSET Dirs \ {{}}, src \in Kinds : Import(f, src, S)
  \/ ReadInstalled(f) \/ Scan(f) \/ CheckInstall(f) \/ Downloaded(f)
  \/ NextSource(f) \/ CopySome(f) \/ CopyRest(f) \/ Copied(f)

SkillsNext ==
  \/ ReconcileAtStart \/ InstallBundled
  \/ LoadInstalled
  \/ \E e \in installedStore : Toggle(e) \/ Uninstall(e)
  \/ \E f \in Flows : FlowStep(f)
  \/ WriteStep \/ SkillWriteFails \/ SkillRestart

SkillsSpec == SkillsInit /\ [][SkillsNext]_skillVars

-----------------------------------------------------------------------------
(***************************************************************************)
(* What the user was told of a skill is so from the next start or the end  *)
(* of the operation on: its SKILL.md is there, one entry has its           *)
(* directory, and that is the one told - or, only if a kill has left the   *)
(* registry truncated since, the one that reconcile_skills makes of a      *)
(* directory it finds, of source local and on.  So after installs and      *)
(* imports that overlapped, failed copies and removals, failed writes of   *)
(* config.toml, and kills.  It is not so once a list read before another   *)
(* operation's save was saved whole, or a save has failed for good.        *)
(***************************************************************************)
AsTold ==
  phase # "boot" /\ writes = <<>> /\ ~spoiled =>
    \A e \in told :
      /\ HasManifest(e.dir)
      /\ \E x \in Registered :
           /\ Of(Registered, e.dir) = {x}
           /\ x \in told \/ (e.dir \in lost /\ x = Entry("local", e.dir, TRUE))

(***************************************************************************)
(* A skill that the page lists as off is off for the agent, which reads    *)
(* config.toml and not the registry the list is read from - through failed *)
(* writes of config.toml and their rollback, restarts, reloads and         *)
(* operations on other skills.  The exception the code leaves: a kill      *)
(* between the two files, or in the rollback, or a rollback that fails,    *)
(* which nothing repairs until the skill's flag is set again.              *)
(***************************************************************************)
OffIsOff ==
  writes = <<>> /\ ~spoiled => \A e \in installedStore : ~e.on => e.dir \in off \cup halved
=============================================================================
