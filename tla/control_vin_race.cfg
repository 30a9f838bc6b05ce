\* A status read of VIN races a VIN route change.
SPECIFICATION ControlSpec
CONSTANTS
  Items = {"usb", "vdd_5v", "vin"}
  Threads = {t1, t2}
  t1 = t1
  t2 = t2
  Faulty = {}
  Missing = {}
SYMMETRY ThreadSymmetry
INVARIANTS VinRecordCoherent
