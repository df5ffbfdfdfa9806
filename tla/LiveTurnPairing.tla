---------------------------- MODULE LiveTurnPairing ----------------------------
(***************************************************************************)
(* What the turns of a LiveTranslate session are for: utterances and       *)
(* responses arrive on two streams, and the k-th utterance to be heard     *)
(* shares a turn with the k-th response to be announced, whichever of the  *)
(* two comes first.  LiveTranslateTurns implements this module.            *)
(***************************************************************************)
EXTENDS Naturals, Sequences

CONSTANTS Utterance, Response

VARIABLES heard,      \* utterances in the order of their first text
          announced   \* responses in the order of their first event

PInit == heard = <<>> /\ announced = <<>>

Hear(u) ==
  /\ \A k \in DOMAIN heard : heard[k] # u
  /\ heard' = Append(heard, u)
  /\ UNCHANGED announced

Announce(r) ==
  /\ \A k \in DOMAIN announced : announced[k] # r
  /\ announced' = Append(announced, r)
  /\ UNCHANGED heard

PNext == (\E u \in Utterance : Hear(u)) \/ (\E r \in Response : Announce(r))

PSpec == PInit /\ [][PNext]_<<heard, announced>>

===============================================================================
