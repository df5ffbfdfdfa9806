\* Two handlers of one client, with seats of a bridge and the fallback; a client whose
\* send queue holds two chunks, the other queues one element each, and overflow.
CONSTANTS
  Handler = {h1, h2}
  Token = {t1}
  Bridge = {b1}
  NoSeat = NoSeat
  NoClaim = NoClaim
  TotalLimit = 2
  PerTokenLimit = 2
  MaxActivePerToken = 1
  FallbackToModular = TRUE
  AcceptMayFail = FALSE
  CaptureMax = 1
  SendMax = 2
  PlaybackMax = 1
  MaxChunks = 3
  MaxReplies = 1
  MaxAudio = 2
SPECIFICATION MCSpec
CHECK_DEADLOCK FALSE
INVARIANTS
  HeardWithoutGap
  PlaybackPausesMicrophone
  EndedTurnIsPlayed
  CompletedIsQuiet
PROPERTIES
  AdmittedHandlersEnd
  StopReturns
