--------------------------- MODULE BridgeMembership ---------------------------
(***************************************************************************)
(* What the bridge registry of the gateway promises, without records,      *)
(* clocks or touches: a Meeting Bridge is a set of parties, each a         *)
(* directional session that plays one role for one bearer token.           *)
(*                                                                         *)
(*   Join    a party enters a bridge that is its token's and that has its  *)
(*           role free, or opens a bridge within its token's limit;        *)
(*   Leave   a party is withdrawn by its own session;                      *)
(*   Expire  whole bridges are forgotten.                                  *)
(*                                                                         *)
(* BridgeRegistry implements this module; GatewayStream composes it with   *)
(* the connection handlers.                                                *)
(***************************************************************************)
EXTENDS Naturals, FiniteSets

CONSTANTS Bridge,             \* bridge ids the clients may ask for
          Token,              \* bearer tokens (their fingerprints)
          Session,            \* ids of directional sessions
          MaxActivePerToken   \* bridges a token may hold at once

\* What the theorems about this module ask of the constants; the modules that
\* instantiate it assume it of theirs.
MembershipConstants ==
  /\ IsFiniteSet(Bridge)
  /\ MaxActivePerToken \in Nat \ {0}

Role == {"local_to_remote", "remote_to_local"}

Party == [bridge : Bridge, role : Role, token : Token, session : Session]

VARIABLE parties

-------------------------------------------------------------------------------

On(P, b) == {p \in P : p.bridge = b}

BridgesOf(P, t) == {b \in Bridge : \E p \in P : p.bridge = b /\ p.token = t}

\* The bridges in B are forgotten.
Survivors(P, B) == {p \in P : p.bridge \notin B}

Admissible(P, p) ==
  /\ \A q \in On(P, p.bridge) : q.token = p.token /\ q.role # p.role
  /\ On(P, p.bridge) = {} => Cardinality(BridgesOf(P, p.token)) < MaxActivePerToken

-------------------------------------------------------------------------------

MInit == parties = {}

\* Bridges that have expired are forgotten before the newcomer is considered.
Join(B, p) ==
  /\ Admissible(Survivors(parties, B), p)
  /\ parties' = Survivors(parties, B) \cup {p}

Leave(p) ==
  /\ p \in parties
  /\ parties' = parties \ {p}

Expire(B) == parties' = Survivors(parties, B)

MNext ==
  \/ \E B \in SUBSET Bridge : Expire(B)
  \/ \E B \in SUBSET Bridge, p \in Party : Join(B, p)
  \/ \E p \in Party : Leave(p)

MSpec == MInit /\ [][MNext]_parties

-------------------------------------------------------------------------------

MTypeOK == parties \subseteq Party

(* A role of a bridge has one holder, and both holders use the same token. *)
OneHolderPerRole ==
  \A p, q \in parties :
    p.bridge = q.bridge => /\ p.token = q.token
                           /\ p.role = q.role => p = q

(* No token holds more bridges than max_active_per_token. *)
WithinLimit ==
  \A t \in Token : Cardinality(BridgesOf(parties, t)) <= MaxActivePerToken

===============================================================================
