\* One utterance gets no source text: source transcription is unavailable for it.
CONSTANTS
  N = 2
  Silent = {1}
  AudioOutput = TRUE
  LateAudio = FALSE
  PartialText = {"empty", "same", "new"}
  MaxDeltas = 1
SPECIFICATION TurnsSpec
CHECK_DEADLOCK FALSE
INVARIANTS
  UtteranceMeetsItsResponse
