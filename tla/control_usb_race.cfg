\* Two threads route the USB mux at the same time.
SPECIFICATION ControlSpec
CONSTANTS
  Items = {"usb", "vdd_5v", "vin"}
  Threads = {t1, t2}
  t1 = t1
  t2 = t2
  Faulty = {}
  Missing = {}
SYMMETRY ThreadSymmetry
PROPERTIES MuxAttachesLiveHub
