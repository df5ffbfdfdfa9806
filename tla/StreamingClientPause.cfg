\* A turn of the gateway begins while the worker stops the microphone.
CONSTANTS
  CaptureMax = 1
  SendMax = 1
  PlaybackMax = 1
  MaxChunks = 1
  MaxReplies = 1
  MaxAudio = 1
SPECIFICATION ClientSpec
CHECK_DEADLOCK FALSE
INVARIANTS
  SafeModeIsHalfDuplex
