\* Settings: three pins, one of them of the wide mode only, and counts at each
\* limit.  Decoder: two selections, two captures or streams, two settings.
CONSTANTS
  SetupPins = {10, 13, 18}
  FirstPins <- MCFirstPins
  Triggers = {"none", "either"}
  Rates = {100, 1000, 10000, 25000, 100000, 125000}
  PreInputs <- MCPreInputs
  PostInputs = {0, 512, 65536, 100000, 100001}
  Servers <- MCServers
  Selections <- MCSelections
  Options = {0, 1}
  Annotations <- MCAnnotations
  DecodeCount = 4
  MaxTaken = 2
SPECIFICATION LogicPagesSpec
INVARIANTS SetupIsSound DecoderIsSound
CHECK_DEADLOCK FALSE
