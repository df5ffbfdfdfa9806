\* The deadline strikes while the upstream connection is being closed.
CONSTANTS
  Handler = {h1}
  Token = {t1}
  Bridge = {}
  NoSeat = NoSeat
  NoClaim = NoClaim
  TotalLimit = 1
  PerTokenLimit = 1
  MaxActivePerToken = 1
  FallbackToModular = TRUE
  AcceptMayFail = FALSE
SPECIFICATION GatewaySpec
CHECK_DEADLOCK FALSE
INVARIANTS
  UpstreamReturnedByEnd
