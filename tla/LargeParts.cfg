\* One daemon stop thread at a time besides the bridge's worker; two one-shot requests
\* against a limit of one, and a crash; two utterances with audio, events repeated and
\* interleaved at will, with two chunks of audio.
CONSTANTS
  MaxStops = 1
  Request = {r1, r2}
  Limit = 1
  TimeToLive = 2
  MaxCrashes = 1
  N = 2
  Silent = {}
  AudioOutput = TRUE
  LateAudio = FALSE
  PartialText = {"empty", "new"}
  MaxDeltas = 2
  TotalDeltas = 2
SPECIFICATION MCSpec
CHECK_DEADLOCK FALSE
INVARIANTS
  FinishedIsClosed
  StopIsWarranted
  GateIsHandlers
  AnswerIsServable
  UtteranceMeetsItsResponse
  OneFinalTranslation
PROPERTIES
  DirectionsAreIsolated
  StopEnds
  AudioInsideItsTurn
  ImplementsPairing
