\* The window in meeting or one-shot mode, with two workers.
CONSTANTS
  MaxWorkers = 2
SPECIFICATION WindowSpec
CHECK_DEADLOCK FALSE
INVARIANTS
  ExitClosesAll
