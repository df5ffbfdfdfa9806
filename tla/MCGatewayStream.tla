---- MODULE MCGatewayStream ----
(* The connection handlers in two settings, for TLC. *)
EXTENDS GatewayStream, TLC

VARIABLE part   \* what this behaviour is of

\* Every connection goes to the modular pipeline: the two limits of admission.
SlotsNext ==
  /\ GatewayNext
  /\ \A h \in Handler : provider'[h] # "livetranslate" /\ seat'[h] = NoSeat

\* Two of the connections, for the seats of bridges, the fallback and the deadline.
BridgesNext ==
  /\ GatewayNext
  /\ Cardinality({h \in Handler : pc'[h] # "new"}) <= 2

MCInit == GatewayInit /\ part \in {"slots", "bridges"}

MCNext ==
  /\ \/ part = "slots" /\ SlotsNext
     \/ part = "bridges" /\ BridgesNext
  /\ UNCHANGED part

MCSpec == MCInit /\ [][MCNext]_<<gatewayVars, part>>

Symmetry == Permutations(Handler) \cup Permutations(Token) \cup Permutations(Bridge)

====
