\* Four connections of two clients under limits of three and two; two of them for
\* two bridges.
CONSTANTS
  Handler = {h1, h2, h3, h4}
  Token = {t1, t2}
  Bridge = {b1, b2}
  NoSeat = NoSeat
  NoClaim = NoClaim
  TotalLimit = 3
  PerTokenLimit = 2
  MaxActivePerToken = 1
  FallbackToModular = TRUE
  AcceptMayFail = TRUE
SPECIFICATION MCSpec
SYMMETRY Symmetry
CHECK_DEADLOCK FALSE
INVARIANTS
  SlotsAreHandlers
  UpstreamClosedByEnd
  OnePipelineAtATime
  PartyHasHandler
PROPERTIES
  NoServiceAfterCleanup
