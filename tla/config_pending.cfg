\* The documented meaning of "pending" against what GET returns.
SPECIFICATION Spec
CONSTANTS
  Items = {"usb", "vdd_5v", "vin"}
  Threads = {main, c1}
  Main = main
  None = None
  c1 = c1
  Faulty = {"vdd_5v"}
  Missing = {}
  Selections = {{"usb", "vdd_5v"}}
  CaptureKinds = {}
  FlashKinds = {}
  StoreFaults = FALSE
INVARIANTS PendingCountsUnapplied
