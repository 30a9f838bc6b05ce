\* Bound: one run is started.
CONSTANTS
  MaxStarts = 1
  StartupModes <- MCStartupModes
SPECIFICATION StartupSpec
INVARIANT RunEndsPowered
CHECK_DEADLOCK FALSE
