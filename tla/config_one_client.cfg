\* One client and the boot: items of four replay stages, any of which may fail.
SPECIFICATION FairSpec
CONSTANTS
  Items = {"usb", "vdd_5v", "vin", "GP7"}
  Threads = {main, c1}
  Main = main
  None = None
  c1 = c1
  Faulty = {"usb", "vdd_5v", "vin", "GP7"}
  Missing = {}
  Selections = {{"usb", "vdd_5v", "vin"}, {"vdd_5v", "GP7"}}
  CaptureKinds = {"logic_analyzer"}
  FlashKinds = {}
  StoreFaults = FALSE
INVARIANTS ReplayIsExact HubFollowsRoute VinRecordCoherent
PROPERTIES MuxAttachesLiveHub MutexReleased
