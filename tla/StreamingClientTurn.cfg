\* A turn ends before its writer has begun.
CONSTANTS
  CaptureMax = 1
  SendMax = 1
  PlaybackMax = 2
  MaxChunks = 1
  MaxReplies = 1
  MaxAudio = 1
SPECIFICATION ClientSpec
CHECK_DEADLOCK FALSE
INVARIANTS
  EveryTurnIsPlayed
