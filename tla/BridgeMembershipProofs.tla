------------------------ MODULE BridgeMembershipProofs ------------------------
(***************************************************************************)
(* What the abstract membership of meeting bridges guarantees, for every   *)
(* set of bridges, tokens and sessions.  BridgeRegistryProofs carries      *)
(* these facts over to the registry of the gateway.                        *)
(***************************************************************************)
EXTENDS BridgeMembership, FiniteSetTheorems, TLAPS

(* A token's bridges are finitely many, and a part of them is no larger.   *)
LEMMA FewerBridgesOf ==
  ASSUME MembershipConstants, NEW P, NEW Q, NEW t, BridgesOf(Q, t) \subseteq BridgesOf(P, t)
  PROVE  /\ IsFiniteSet(BridgesOf(P, t))
         /\ Cardinality(BridgesOf(P, t)) \in Nat
         /\ Cardinality(BridgesOf(Q, t)) <= Cardinality(BridgesOf(P, t))
         /\ Cardinality(BridgesOf(Q, t)) \in Nat
<1>1. BridgesOf(P, t) \subseteq Bridge
  BY DEF BridgesOf
<1>2. IsFiniteSet(BridgesOf(P, t))
  BY <1>1, FS_Subset DEF MembershipConstants
<1>3. IsFiniteSet(BridgesOf(Q, t)) /\ Cardinality(BridgesOf(Q, t)) <= Cardinality(BridgesOf(P, t))
  BY <1>2, FS_Subset
<1>4. QED
  BY <1>2, <1>3, FS_CardinalityType

LEMMA MembershipTypes == MSpec => []MTypeOK
<1>1. MInit => MTypeOK
  BY DEF MInit, MTypeOK
<1>2. MTypeOK /\ [MNext]_parties => MTypeOK'
  BY DEF MTypeOK, MNext, Join, Leave, Expire, Survivors
<1>3. QED
  BY <1>1, <1>2, PTL DEF MSpec

(* A newcomer finds its role free and the bridge its own token's, so two   *)
(* parties never hold one role and two tokens never share a bridge.        *)
THEOREM OneHolderTheorem == MSpec => []OneHolderPerRole
<1>1. MInit => OneHolderPerRole
  BY DEF MInit, OneHolderPerRole
<1>2. OneHolderPerRole /\ [MNext]_parties => OneHolderPerRole'
  <2> SUFFICES ASSUME OneHolderPerRole, [MNext]_parties
               PROVE  OneHolderPerRole'
    OBVIOUS
  <2>1. ASSUME NEW B \in SUBSET Bridge, NEW p \in Party, Join(B, p)
        PROVE  OneHolderPerRole'
    <3> SUFFICES ASSUME NEW x \in parties', NEW y \in parties', x.bridge = y.bridge
                 PROVE  x.token = y.token /\ (x.role = y.role => x = y)
      BY DEF OneHolderPerRole
    <3>1. \A q \in parties' : q = p \/ q \in Survivors(parties, B)
      BY <2>1 DEF Join
    <3>2. \A q \in Survivors(parties, B) :
            q.bridge = p.bridge => q.token = p.token /\ q.role # p.role
      BY <2>1 DEF Join, Admissible, On
    <3>3. Survivors(parties, B) \subseteq parties
      BY DEF Survivors
    <3>4. QED
      BY <3>1, <3>2, <3>3 DEF OneHolderPerRole
  <2>2. CASE parties' \subseteq parties
    BY <2>2 DEF OneHolderPerRole
  <2>3. QED
    BY <2>1, <2>2 DEF MNext, Leave, Expire, Survivors
<1>3. QED
  BY <1>1, <1>2, PTL DEF MSpec

(* A party that opens a bridge is counted, one that joins a bridge of its  *)
(* token is not: either way no token exceeds its limit.                    *)
THEOREM WithinLimitTheorem ==
  ASSUME MembershipConstants
  PROVE  MSpec => []WithinLimit
<1> USE DEF MembershipConstants
<1>1. MInit => WithinLimit
  <2> SUFFICES ASSUME MInit, NEW t \in Token
               PROVE  Cardinality(BridgesOf(parties, t)) <= MaxActivePerToken
    BY DEF WithinLimit
  <2>1. BridgesOf(parties, t) = {}
    BY DEF MInit, BridgesOf
  <2>2. QED
    BY <2>1, FS_EmptySet
<1>2. WithinLimit /\ [MNext]_parties => WithinLimit'
  <2> SUFFICES ASSUME WithinLimit, [MNext]_parties, NEW t \in Token
               PROVE  Cardinality(BridgesOf(parties', t)) <= MaxActivePerToken
    BY DEF WithinLimit, BridgesOf
  <2>1. Cardinality(BridgesOf(parties, t)) <= MaxActivePerToken
    BY DEF WithinLimit
  <2>2. CASE BridgesOf(parties', t) \subseteq BridgesOf(parties, t)
    BY <2>1, <2>2, FewerBridgesOf
  <2>3. ASSUME NEW B \in SUBSET Bridge, NEW p \in Party, Join(B, p),
               ~(BridgesOf(parties', t) \subseteq BridgesOf(parties, t))
        PROVE  Cardinality(BridgesOf(parties', t)) <= MaxActivePerToken
    <3> DEFINE kept == Survivors(parties, B)
    <3>1. parties' = kept \cup {p} /\ Admissible(kept, p) /\ p.bridge \in Bridge
      BY <2>3 DEF Join, Party
    <3>2. BridgesOf(kept, t) \subseteq BridgesOf(parties, t)
      BY DEF Survivors, BridgesOf
    <3>3. p.token = t /\ p.bridge \notin BridgesOf(kept, t)
      BY <2>3, <3>1, <3>2 DEF BridgesOf
    <3>4. On(kept, p.bridge) = {}
      BY <3>1, <3>3 DEF Admissible, On, BridgesOf
    <3>5. Cardinality(BridgesOf(kept, t)) < MaxActivePerToken
      BY <3>1, <3>3, <3>4 DEF Admissible
    <3>6. BridgesOf(parties', t) = BridgesOf(kept, t) \cup {p.bridge}
      BY <3>1, <3>3 DEF BridgesOf
    <3>7. /\ IsFiniteSet(BridgesOf(kept, t))
          /\ Cardinality(BridgesOf(kept, t)) \in Nat
      BY FewerBridgesOf
    <3>8. Cardinality(BridgesOf(parties', t)) = Cardinality(BridgesOf(kept, t)) + 1
      BY <3>3, <3>6, <3>7, FS_AddElement
    <3>9. QED
      BY <3>5, <3>7, <3>8
  <2>4. CASE parties' \subseteq parties
    <3>1. BridgesOf(parties', t) \subseteq BridgesOf(parties, t)
      BY <2>4 DEF BridgesOf
    <3>2. QED
      BY <2>2, <3>1
  <2>5. QED
    BY <2>2, <2>3, <2>4 DEF MNext, Leave, Expire, Survivors
<1>3. QED
  BY <1>1, <1>2, PTL DEF MSpec

===============================================================================
