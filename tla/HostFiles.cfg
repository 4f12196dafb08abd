SPECIFICATION HostFilesSpec
CONSTANTS
  Prompts = {p1, p2, p3}
  None = None
  MaxTexts = 3
  MaxAgent = 2
  MaxHalts = 2
  Dirs <- MCDirs
  Bundled <- MCBundled
  Repos = {r1}
  Installs = {i1}
  Imports = {m1}
  Kinds = {"zip"}
  MaxSkillHalts = 1
  NoDir = NoDir
  LedgerThreads = {t1}
  MaxTokens = 2
  MaxTotals = 4
  MaxLedgerKills = 2
  NoTotal = NoTotal
INVARIANTS
  OneInForce
  PageAgrees
  NoPromptEmptied
  AsTold
  OffIsOff
  LedgerBalanced
PROPERTIES
  ReplacedIsKept
CONSTRAINT Unspoiled
CHECK_DEADLOCK FALSE
