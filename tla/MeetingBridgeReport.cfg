\* What the window is told when both directions fail.
CONSTANTS
  MaxStops = 1
SPECIFICATION Spec
CHECK_DEADLOCK FALSE
INVARIANTS
  BothFailedIsReported
