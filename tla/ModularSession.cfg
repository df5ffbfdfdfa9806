\* Two turns, every queue of size 1 and able to overflow; a detector of ten frames, two
\* of speech for a turn, which is at most four long.
CONSTANTS
  InputMax = 1
  TurnMax = 1
  TextMax = 1
  EventMax = 1
  DeltaMax = 1
  Deltas = 1
  MaxTurns = 2
  MaxEvents = 1
  MinSpeech = 2
  SilenceNeeded = 2
  PreRoll = 2
  MaxTurn = 4
  MaxFrames = 10
SPECIFICATION MCSpec
CHECK_DEADLOCK FALSE
INVARIANTS
  CompletedLosesNothing
  ProvidersReleased
  EndIsTold
  FramesOnceInOrder
  SpeechIsHeard
PROPERTIES
  SessionEnds
