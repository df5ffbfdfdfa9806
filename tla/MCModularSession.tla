---- MODULE MCModularSession ----
(* A modular session, and beside it a detector: the two share no state. *)
EXTENDS ModularSession, TurnVAD

VARIABLE part   \* which of the two this behaviour is of

MCInit == Init /\ DetectorInit /\ part \in {"session", "detector"}

MCNext ==
  \/ part = "session" /\ Next /\ UNCHANGED <<detectorVars, part>>
  \/ part = "detector" /\ DetectorNext /\ UNCHANGED <<vars, part>>

MCSpec ==
  /\ MCInit /\ [][MCNext]_<<vars, detectorVars, part>>
  /\ WF_vars(Progress)

====
