\* One startup analysis; four plans, three arrivals of serial bytes in a ring of
\* two, two test runs; two clicks and a DATA frame at the logic
\* analyzer, for which a capture asks; two runs of the task card on
\* two mounts, one write of the blob; three events on two mounts of the firmware
\* card; two saves or refreshes and two events at the configuration; two
\* live sessions, two refreshes at a time and three events of the board; three
\* pieces of text and two events at the terminal.
CONSTANTS
  MaxStarts = 1
  StartupModes <- MCStartupModes
  Plans <- MCPlans
  BufferLimit = 2
  MaxChunks = 3
  Hits = {1, 3}
  MaxRuns = 2
  MaxTasks = 2
  MaxData = 1
  Target = 1
  Catalogs <- MCCatalogs
  TaskPlans <- MCTaskPlans
  NewIds = {"s1"}
  OtherBlobs <- MCOtherBlobs
  BuiltinIds = {"b1"}
  BadIds = {"bad"}
  MaxWait = 3
  MaxRequests = 2
  MaxStored = 2
  MaxJobs = 2
  MaxMounts = 2
  MaxChanges = 1
  Images <- MCImages
  SlotSize = 2
  MaxCards = 2
  MaxEvents = 3
  CfgItems = {"a", "b"}
  CfgDanger = {"a"}
  CfgSaved = {"a"}
  MaxCfgCalls = 2
  MaxCfgEvents = 2
  MaxLinks = 2
  MaxPolls = 2
  MaxBoardEvents = 3
  LogCap = 2
  RestoreBytes = 1
  FlushChars = 2
  DrawCap = 2
  MaxRx = 3
  MaxLogEvents = 2
SPECIFICATION TasksSpec
INVARIANTS RunnerIsSound LogicPageIsSound TasksAreSound UpdatePageIsSound ConfigPageIsSound BoardPageIsSound SerialTextIsSound
PROPERTIES RunnerStepsSafely TasksFinish
CHECK_DEADLOCK FALSE
