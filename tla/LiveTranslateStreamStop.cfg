\* The connection breaks under a full audio queue.
CONSTANTS
  QueueSize = 1
  MaxChunks = 2
  MaxEvents = 0
SPECIFICATION FairStreamSpec
CHECK_DEADLOCK FALSE
PROPERTIES
  StopIsAnswered
