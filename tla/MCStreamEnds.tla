---- MODULE MCStreamEnds ----
(* The two ends of a /v1/stream connection beside each other, each against every        *)
(* behaviour of its peer: a behaviour is of one of them, and the other stays as it was. *)
(* The client in two settings: chunks on their way to the gateway, in headphones mode,  *)
(* and speech on its way to the loudspeaker, in both modes.                             *)
EXTENDS GatewayStream, StreamingClient

VARIABLE part   \* the end this behaviour is of

HearNext == ClientNext /\ frames' = 0

PlayNext == ClientNext /\ captured' <= 1

MCInit ==
  /\ GatewayInit /\ ClientInit
  /\ part \in {"gateway", "hear", "play"}
  /\ part # "play" => mode = "headphones"

MCNext ==
  /\ \/ part = "gateway" /\ GatewayNext /\ UNCHANGED clientVars
     \/ part = "hear" /\ HearNext /\ UNCHANGED gatewayVars
     \/ part = "play" /\ PlayNext /\ UNCHANGED gatewayVars
  /\ UNCHANGED part

MCSpec ==
  /\ MCInit /\ [][MCNext]_<<gatewayVars, clientVars, part>>
  /\ \A h \in Handler :
       /\ WF_gatewayVars(part = "gateway" /\ Bounded(h))
       /\ WF_gatewayVars(part = "gateway" /\ Deadline(h))
  /\ WF_clientVars(part # "gateway" /\ MainNext)

====
