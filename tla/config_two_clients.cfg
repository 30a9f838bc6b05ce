\* Two clients save, clear and set while captures, OTA and crashes come in.
SPECIFICATION Spec
CONSTANTS
  Items = {"usb", "vdd_5v", "vin"}
  Threads = {main, c1, c2}
  Main = main
  None = None
  c1 = c1
  c2 = c2
  Faulty = {"vdd_5v"}
  Missing = {"vin"}
  Selections = {{"usb"}, {"usb", "vdd_5v"}, {"vin"}}
  CaptureKinds = {"logic_analyzer"}
  FlashKinds = {"ota"}
  StoreFaults = TRUE
SYMMETRY ClientSymmetry
INVARIANTS TypeOK OwnersHeld ReportMatchesFlash DangerConfirmed OkMeansApplied
PROPERTIES FlashWrittenByOwner ImplementsPersistentConfig
