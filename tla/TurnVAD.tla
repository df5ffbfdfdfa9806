------------------------------- MODULE TurnVAD -------------------------------
(***************************************************************************)
(* The detector of turns (server/app/streaming/vad.py, TurnVAD): it cuts   *)
(* the client's audio, classified frame by frame, into turns.              *)
(*                                                                         *)
(* feed() takes its chunk apart and handles one complete frame after the   *)
(* other; it has no other state between two frames than between two        *)
(* chunks, so a step is one frame.  The bytes of a frame that is not yet   *)
(* complete decide nothing and are left out.  Frames are numbered; handed  *)
(* holds the numbers of those in the events, in order.                     *)
(***************************************************************************)
EXTENDS Naturals, Sequences

CONSTANTS MinSpeech,      \* min_speech_frames
          SilenceNeeded,  \* silence_frames_needed
          PreRoll,        \* pre_roll_frames
          MaxTurn,        \* max_turn_frames
          MaxFrames       \* bound: frames of a session

ASSUME DetectorAssumption ==
  /\ MinSpeech \in Nat \ {0} /\ SilenceNeeded \in Nat \ {0} /\ MaxTurn \in Nat \ {0}
  /\ PreRoll \in Nat /\ MaxFrames \in Nat

VARIABLES
  frames,     \* frames classified so far
  voiced,     \* those classified as speech
  candidate,  \* _candidate
  preRoll,    \* _pre_roll
  active,     \* _active
  length,     \* _turn_frames
  silent,     \* _silence_frames
  handed,     \* frames in the events SPEECH_START and SPEECH_AUDIO
  from,       \* how many of them belong to earlier turns
  flushed     \* flush() was called: the input has ended

detectorVars ==
  <<frames, voiced, candidate, preRoll, active, length, silent, handed, from, flushed>>

-------------------------------------------------------------------------------

\* deque(maxlen=PreRoll).
Latest(q) == IF Len(q) > PreRoll THEN Tail(q) ELSE q

\* Mutation: one frame more than min_speech_ms must be speech.
MoreThanEnough(n) == n > MinSpeech

Enough(n) == n >= MinSpeech

Ends(quiet, n) == quiet >= SilenceNeeded \/ n >= MaxTurn

DetectorInit ==
  /\ frames = 0 /\ voiced = {} /\ candidate = <<>> /\ preRoll = <<>>
  /\ active = FALSE /\ length = 0 /\ silent = 0
  /\ handed = <<>> /\ from = 0 /\ flushed = FALSE

\* The next frame is complete and classified.
Classify(speech) ==
  /\ ~flushed /\ frames < MaxFrames
  /\ frames' = frames + 1
  /\ voiced' = IF speech THEN voiced \cup {frames'} ELSE voiced
  /\ UNCHANGED flushed

\* Mutation: a burst that was too short stays the beginning of the next.
QuietKeepsBurst ==
  /\ Classify(FALSE) /\ ~active
  /\ preRoll' = Latest(Append(preRoll, frames'))
  /\ UNCHANGED <<candidate, active, length, silent, handed, from>>

\* Out of a turn, no speech: a burst of speech that was too short is dropped, not
\* moved to the pre-roll.
Quiet ==
  /\ Classify(FALSE) /\ ~active
  /\ candidate' = <<>> /\ preRoll' = Latest(Append(preRoll, frames'))
  /\ UNCHANGED <<active, length, silent, handed, from>>

\* Out of a turn, speech, not yet enough.
Burst ==
  /\ Classify(TRUE) /\ ~active /\ ~Enough(Len(candidate) + 1)
  /\ candidate' = Append(candidate, frames')
  /\ UNCHANGED <<preRoll, active, length, silent, handed, from>>

\* Enough speech: SPEECH_START with the pre-roll and the burst.
TurnBegins ==
  /\ Classify(TRUE) /\ ~active /\ Enough(Len(candidate) + 1)
  /\ handed' = handed \o preRoll \o Append(candidate, frames') /\ from' = Len(handed)
  /\ active' = TRUE /\ length' = Len(candidate) + 1 /\ silent' = 0
  /\ candidate' = <<>> /\ preRoll' = <<>>

\* SPEECH_AUDIO, and SPEECH_END after enough silence or at the longest turn.
TurnFrame(speech) ==
  /\ Classify(speech) /\ active
  /\ handed' = Append(handed, frames')
  /\ LET quiet == IF speech THEN 0 ELSE silent + 1
         ends == Ends(quiet, length + 1)
     IN  /\ active' = ~ends
         /\ length' = IF ends THEN 0 ELSE length + 1
         /\ silent' = IF ends THEN 0 ELSE quiet
         /\ candidate' = IF ends THEN <<>> ELSE candidate
         /\ preRoll' = IF ends THEN <<>> ELSE preRoll
  /\ UNCHANGED from

\* flush(): SPEECH_END of a turn in progress; what never became a turn is dropped.
Flush ==
  /\ ~flushed /\ flushed' = TRUE
  /\ active' = FALSE /\ length' = 0 /\ silent' = 0 /\ candidate' = <<>>
  /\ preRoll' = IF active THEN <<>> ELSE preRoll
  /\ UNCHANGED <<frames, voiced, handed, from>>

DetectorNext == Quiet \/ Burst \/ TurnBegins \/ (\E speech \in BOOLEAN : TurnFrame(speech)) \/ Flush

DetectorSpec == DetectorInit /\ [][DetectorNext]_detectorVars

-------------------------------------------------------------------------------
(* Properties.                                                             *)

\* No frame is handed to a recognizer twice or after a later one, within a turn or in
\* two turns: not by the pre-roll, not by the burst, not after a forced end.
FramesOnceInOrder == \A i, j \in DOMAIN handed : i < j => handed[i] < handed[j]

Heard(f) == \E i \in DOMAIN handed : handed[i] = f

\* No speech is lost but in short bursts: of any MinSpeech consecutive frames of
\* speech at least one is in a turn, also when they span the end of a forced turn.
SpeechIsHeard ==
  \A f \in 1..frames :
    (f + MinSpeech <= frames + 1 /\ \A k \in f..(f + MinSpeech - 1) : k \in voiced) =>
      \E k \in f..(f + MinSpeech - 1) : Heard(k)

\* A turn in progress is bounded: max_turn_ms, or one frame more than it takes to begin
\* a turn when that is longer, and the pre-roll before it.
TurnIsBounded ==
  Len(handed) - from <= PreRoll + (IF MinSpeech >= MaxTurn THEN MinSpeech + 1 ELSE MaxTurn)

===============================================================================
