---- MODULE MCLargeParts ----
(* Parts of the two programs that share no state, beside each other, for TLC: the threads *)
(* of a Meeting Bridge, the gateway's one-shot requests, and the turns of a LiveTranslate  *)
(* session.  A behaviour is of one of them, and the others stay as they were initially.   *)
EXTENDS MeetingBridge, OneShot, LiveTranslateTurns, Functions

CONSTANT TotalDeltas   \* audio deltas of a LiveTranslate session, at most

VARIABLE part   \* what this behaviour is of

MCInit ==
  /\ Init /\ OneShotInit /\ TurnsInit
  /\ part \in {"meeting", "one shot", "turns"}

MCNext ==
  /\ \/ /\ part = "meeting" /\ Next
        /\ UNCHANGED <<oneShotVars, turnsVars>>
     \/ /\ part = "one shot" /\ OneShotNext
        /\ UNCHANGED <<vars, turnsVars>>
     \/ /\ part = "turns" /\ TurnsNext
        /\ FoldFunction(+, 0, chunks') <= TotalDeltas
        /\ UNCHANGED <<vars, oneShotVars>>
  /\ UNCHANGED part

MCSpec ==
  /\ MCInit /\ [][MCNext]_<<vars, oneShotVars, turnsVars, part>>
  /\ WF_vars(part = "meeting" /\ FairStep)

====
