\* One connection whose refused body is delivered, and no reset but those of
\* the watchdog and of a test.
SPECIFICATION UploadsSpec
CONSTANTS
  Conns = {c1, c2}
  c1 = c1
  c2 = c2
  None = None
  Limit = 2
  MaxBody = 4
  CaptureKinds = {"logic_analyzer"}
  FlashKinds = {"ota"}
  Drains = TRUE
  StoreFaults = TRUE
  Uploaders = {c1, c2}
  NoUploader = None
  Images = {"v1", "v2"}
  Factory = "v1"
  Size = 2
  Others = {"config"}
  FaultBuild = TRUE
  Sites <- MCDrainingSites
INVARIANT RollbackImageKept
