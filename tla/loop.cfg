SPECIFICATION FairSpec
CONSTANTS
  Slices = 120
CHECK_DEADLOCK FALSE
INVARIANTS StopsTicking Responsive FullInterval SessionsClosed
PROPERTIES SignalStops KeepsTicking
