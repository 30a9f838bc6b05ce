\* Tasks: two connections and the shell, other owners, write failures and
\* resets.  OTA: two connections, bodies delivered after a refusal and every
\* kind of reset; one connection and two images.
SPECIFICATION UploadsSpec
CONSTANTS
  Conns = {c1, c2}
  c1 = c1
  c2 = c2
  None = None
  Limit = 2
  MaxBody = 4
  CaptureKinds = {"logic_analyzer"}
  FlashKinds = {"ota"}
  Drains = TRUE
  StoreFaults = TRUE
  Uploaders = {c1, c2}
  NoUploader = None
  Images = {"v1", "v2"}
  Factory = "v1"
  Size = 2
  Others = {"config"}
  FaultBuild = TRUE
  Sites <- MCSites
INVARIANTS OwnersFollowMutation RamIsFlash AnswerIsStored ListNeverMixes HandlersAreGuarded UpdateCanRollBack
PROPERTIES StoredIsOneBody UpdateRollsBack
