------------------------- MODULE BridgeRegistryProofs -------------------------
(***************************************************************************)
(* Theorems about BridgeRegistry, for every number of bridges, tokens and  *)
(* sessions, every limit, ttl and delay.                                   *)
(***************************************************************************)
EXTENDS MCBridgeRegistry, FiniteSetTheorems, TLAPS

(* The inductive invariant: types, no empty record and no ghost member     *)
(* support one another.  Register needs NoGhostMember to know that a new   *)
(* session id sits nowhere; Release needs NoEmptyRecord to know that a     *)
(* record it empties is dropped.                                           *)
RegistryInv == TypeOK /\ NoEmptyRecord /\ NoGhostMember

-------------------------------------------------------------------------------

LEMMA IntervalType == TTL \in Nat \ {0} /\ TouchInterval \in Nat \ {0}
  BY RegistryAssumption DEF TTL, TouchInterval

LEMMA NobodyHolds ==
  ASSUME NEW m \in [Role -> Session \cup {NoSession}]
  PROVE  m = Nobody <=> \A r \in Role : m[r] = NoSession
<1>1. ASSUME \A r \in Role : m[r] = NoSession
      PROVE  m = Nobody
  <2>1. m = [r \in Role |-> m[r]]
    OBVIOUS
  <2>2. QED
    BY <1>1, <2>1 DEF Nobody
<1>2. QED
  BY <1>1 DEF Nobody

(* What survives a cleanup has the types of the registry, is a part of it, *)
(* and still has no empty record and no ghost.                             *)
LEMMA KeptRecords ==
  ASSUME RegistryInv
  PROVE  /\ KeptOwner \in [Bridge -> Token \cup {NoToken}]
         /\ KeptMembers \in [Bridge -> [Role -> Session \cup {NoSession}]]
         /\ KeptAge \in [Bridge -> 0..TTL]
         /\ \A b \in Bridge : KeptOwner[b] \in {owner[b], NoToken}
         /\ \A b \in Bridge : KeptOwner[b] = NoToken <=> KeptMembers[b] = Nobody
         /\ \A b \in Bridge, r \in Role :
              KeptMembers[b][r] # NoSession =>
                /\ KeptMembers[b][r] = members[b][r]
                /\ KeptOwner[b] = owner[b]
<1> USE RegistryAssumption, IntervalType
<1> USE DEF RegistryInv
<1>1. Nobody \in [Role -> Session \cup {NoSession}]
  BY DEF Nobody
<1>2. /\ KeptOwner \in [Bridge -> Token \cup {NoToken}]
      /\ KeptMembers \in [Bridge -> [Role -> Session \cup {NoSession}]]
      /\ KeptAge \in [Bridge -> 0..TTL]
  BY <1>1 DEF KeptOwner, KeptMembers, KeptAge, TypeOK
<1>3. \A b \in Bridge : KeptOwner[b] \in {owner[b], NoToken}
  BY DEF KeptOwner
<1>4. \A b \in Bridge : KeptOwner[b] = NoToken <=> KeptMembers[b] = Nobody
  BY DEF KeptOwner, KeptMembers, NoEmptyRecord, Expired
<1>5. \A b \in Bridge, r \in Role :
        KeptMembers[b][r] # NoSession =>
          /\ KeptMembers[b][r] = members[b][r]
          /\ KeptOwner[b] = owner[b]
  BY DEF KeptOwner, KeptMembers, Nobody
<1>6. QED
  BY <1>2, <1>3, <1>4, <1>5

-------------------------------------------------------------------------------

LEMMA RegistryInit == Init => RegistryInv
  BY RegistryAssumption, IntervalType
  DEF Init, RegistryInv, TypeOK, NoEmptyRecord, NoGhostMember, Nobody, Role

LEMMA RegisterInv ==
  ASSUME RegistryInv, NEW s \in Session, NEW t \in Token, NEW b \in Bridge,
         NEW r \in Role, Register(s, t, b, r)
  PROVE  RegistryInv'
<1> USE RegistryAssumption, IntervalType, ClaimAssumption
<1> DEFINE claim == [bridge |-> b, role |-> r, token |-> t]
<1>1. claim \in Claim
  BY DEF Claim
<1>2. registration[s] = NoClaim /\ registration' = [registration EXCEPT ![s] = claim]
  BY DEF Register
<1>3. TypeOK'
  BY <1>1, KeptRecords DEF Register, TypeOK, RegistryInv
<1>4. NoEmptyRecord'
  <2> SUFFICES ASSUME NEW c \in Bridge
               PROVE  owner'[c] = NoToken <=> members'[c] = Nobody
    BY DEF NoEmptyRecord
  <2>1. CASE c = b
    <3>1. owner'[c] = t /\ members'[c][r] = s
      BY <2>1, KeptRecords DEF Register
    <3>2. QED
      BY <3>1 DEF Nobody
  <2>2. CASE c # b
    BY <2>2, KeptRecords DEF Register
  <2>3. QED
    BY <2>1, <2>2
<1>5. NoGhostMember'
  <2> SUFFICES ASSUME NEW c \in Bridge, NEW q \in Role, members'[c][q] # NoSession
               PROVE  registration'[members'[c][q]]
                        = [bridge |-> c, role |-> q, token |-> owner'[c]]
    BY DEF NoGhostMember
  <2>1. CASE c = b /\ q = r
    BY <2>1, <1>2, KeptRecords DEF Register, TypeOK, RegistryInv
  <2>2. CASE ~(c = b /\ q = r)
    <3>1. members'[c][q] = KeptMembers[c][q]
      BY <2>2, KeptRecords DEF Register
    <3>2. /\ members'[c][q] = members[c][q]
          /\ KeptOwner[c] = owner[c]
          /\ KeptOwner[c] # NoToken
      BY <3>1, KeptRecords DEF Nobody
    <3>3. registration[members[c][q]] = [bridge |-> c, role |-> q, token |-> owner[c]]
      BY <3>2 DEF NoGhostMember, RegistryInv
    <3>4. members[c][q] # s /\ members[c][q] \in Session
      <4>1. members[c][q] \in Session
        BY <3>2 DEF TypeOK, RegistryInv
      <4>2. owner[c] \in Token
        BY <3>2 DEF TypeOK, RegistryInv
      <4>3. [bridge |-> c, role |-> q, token |-> owner[c]] \in Claim
        BY <4>2 DEF Claim
      <4>4. QED
        BY <4>1, <4>3, <3>3, <1>2
    <3>5. owner'[c] = owner[c]
      BY <3>2, KeptRecords DEF Register, Admits
    <3>6. registration'[members[c][q]] = registration[members[c][q]]
      BY <3>4, <1>2 DEF TypeOK, RegistryInv
    <3>7. QED
      BY <3>2, <3>3, <3>5, <3>6
  <2>3. QED
    BY <2>1, <2>2
<1>6. QED
  BY <1>3, <1>4, <1>5 DEF RegistryInv

(* A refused registration and the periodic cleanup change the records alike. *)
LEMMA CleanupInv ==
  ASSUME RegistryInv, owner' = KeptOwner, members' = KeptMembers, age' = KeptAge,
         UNCHANGED <<registration, slept>>
  PROVE  RegistryInv'
<1> USE RegistryAssumption, IntervalType, KeptRecords
<1>1. TypeOK'
  BY DEF TypeOK, RegistryInv
<1>2. NoEmptyRecord'
  BY DEF NoEmptyRecord
<1>3. NoGhostMember'
  BY DEF NoGhostMember, RegistryInv
<1>4. QED
  BY <1>1, <1>2, <1>3 DEF RegistryInv

LEMMA TouchInv ==
  ASSUME RegistryInv, NEW s \in Session, Touch(s)
  PROVE  RegistryInv'
<1> USE RegistryAssumption, IntervalType
<1>1. TypeOK'
  <2>1. registration[s].bridge \in Bridge
    BY DEF Touch, TypeOK, RegistryInv, Claim
  <2>2. 0 \in 0..TTL /\ 0 \in 0..(TouchInterval + MaxDelay)
    OBVIOUS
  <2>3. age' = [age EXCEPT ![registration[s].bridge] = 0]
    BY DEF Touch
  <2>4. age' \in [Bridge -> 0..TTL]
    BY <2>1, <2>2, <2>3 DEF TypeOK, RegistryInv
  <2>5. slept' \in [Session -> 0..(TouchInterval + MaxDelay)]
    BY <2>2 DEF Touch, TypeOK, RegistryInv
  <2>6. QED
    BY <2>4, <2>5 DEF Touch, TypeOK, RegistryInv
<1>2. NoEmptyRecord' /\ NoGhostMember'
  BY DEF Touch, NoEmptyRecord, NoGhostMember, RegistryInv
<1>3. QED
  BY <1>1, <1>2 DEF RegistryInv

LEMMA ReleaseInv ==
  ASSUME RegistryInv, NEW s \in Session, Release(s)
  PROVE  RegistryInv'
<1> USE RegistryAssumption, IntervalType
<1> DEFINE b == registration[s].bridge
           r == registration[s].role
           left == MembersWithout(b, r, s)
<1>1. registration[s] \in Claim /\ b \in Bridge /\ r \in Role
  BY DEF Release, TypeOK, RegistryInv, Claim
<1>2. left \in [Role -> Session \cup {NoSession}]
  BY <1>1 DEF MembersWithout, TypeOK, RegistryInv
<1>3. CASE owner[b] = NoToken
  <2>1. UNCHANGED registryVars
    BY <1>3 DEF Release
  <2>2. TypeOK'
    BY <2>1 DEF Release, TypeOK, RegistryInv, registryVars
  <2>3. NoEmptyRecord'
    BY <2>1 DEF NoEmptyRecord, RegistryInv, registryVars
  <2>4. NoGhostMember'
    <3> SUFFICES ASSUME NEW c \in Bridge, NEW q \in Role, members[c][q] # NoSession
                 PROVE  registration'[members[c][q]]
                          = [bridge |-> c, role |-> q, token |-> owner[c]]
      BY <2>1 DEF NoGhostMember, registryVars
    <3>1. registration[members[c][q]] = [bridge |-> c, role |-> q, token |-> owner[c]]
      BY DEF NoGhostMember, RegistryInv
    <3>2. owner[c] # NoToken
      BY DEF NoEmptyRecord, RegistryInv, Nobody
    <3>3. members[c][q] # s
      BY <3>1, <3>2, <1>3
    <3>4. QED
      BY <3>1, <3>3 DEF Release, TypeOK, RegistryInv
  <2>5. QED
    BY <2>2, <2>3, <2>4 DEF RegistryInv
<1>4. CASE owner[b] # NoToken
  <2>1. /\ members' = [members EXCEPT ![b] = left]
        /\ owner' = [owner EXCEPT ![b] = IF left = Nobody THEN NoToken ELSE @]
        /\ age' = [age EXCEPT ![b] = 0]
        /\ registration' = [registration EXCEPT ![s] = NoClaim]
        /\ slept' = [slept EXCEPT ![s] = 0]
    BY <1>4 DEF Release
  <2>2. TypeOK'
    BY <1>1, <1>2, <2>1 DEF TypeOK, RegistryInv
  <2>3. NoEmptyRecord'
    BY <1>1, <1>2, <1>4, <2>1 DEF NoEmptyRecord, RegistryInv, TypeOK
  <2>4. NoGhostMember'
    <3> SUFFICES ASSUME NEW c \in Bridge, NEW q \in Role, members'[c][q] # NoSession
                 PROVE  registration'[members'[c][q]]
                          = [bridge |-> c, role |-> q, token |-> owner'[c]]
      BY DEF NoGhostMember
    <3>1. members'[c][q] = members[c][q]
      BY <1>1, <2>1 DEF MembersWithout, TypeOK, RegistryInv
    <3>2. registration[members[c][q]] = [bridge |-> c, role |-> q, token |-> owner[c]]
      BY <3>1 DEF NoGhostMember, RegistryInv
    <3>3. members[c][q] # s
      BY <1>1, <2>1, <3>1, <3>2 DEF MembersWithout, TypeOK, RegistryInv
    <3>4. registration'[members[c][q]] = registration[members[c][q]]
      BY <2>1, <3>1, <3>3 DEF TypeOK, RegistryInv
    <3>5. owner'[c] = owner[c]
      BY <1>2, <2>1 DEF TypeOK, RegistryInv, Nobody
    <3>6. QED
      BY <3>1, <3>2, <3>4, <3>5
  <2>5. QED
    BY <2>2, <2>3, <2>4 DEF RegistryInv
<1>5. QED
  BY <1>3, <1>4

LEMMA TickInv ==
  ASSUME RegistryInv, Tick
  PROVE  RegistryInv'
<1> USE RegistryAssumption, IntervalType
<1>1. TypeOK'
  <2>1. age' \in [Bridge -> 0..TTL]
    BY DEF Tick, TypeOK, RegistryInv
  <2>2. slept' \in [Session -> 0..(TouchInterval + MaxDelay)]
    BY DEF Tick, TypeOK, RegistryInv
  <2>3. QED
    BY <2>1, <2>2 DEF Tick, TypeOK, RegistryInv
<1>2. NoEmptyRecord' /\ NoGhostMember'
  BY DEF Tick, NoEmptyRecord, NoGhostMember, RegistryInv
<1>3. QED
  BY <1>1, <1>2 DEF RegistryInv

LEMMA RegistryStep == RegistryInv /\ [Next]_vars => RegistryInv'
<1> SUFFICES ASSUME RegistryInv, [Next]_vars
             PROVE  RegistryInv'
  OBVIOUS
<1>1. ASSUME NEW s \in Session, NEW t \in Token, NEW b \in Bridge, NEW r \in Role,
             Register(s, t, b, r)
      PROVE  RegistryInv'
  BY <1>1, RegisterInv
<1>2. ASSUME NEW s \in Session, NEW t \in Token, NEW b \in Bridge, NEW r \in Role,
             RegisterRefused(s, t, b, r)
      PROVE  RegistryInv'
  BY <1>2, CleanupInv DEF RegisterRefused
<1>3. ASSUME NEW s \in Session, Touch(s)
      PROVE  RegistryInv'
  BY <1>3, TouchInv
<1>4. ASSUME NEW s \in Session, Release(s)
      PROVE  RegistryInv'
  BY <1>4, ReleaseInv
<1>5. CASE CleanupExpired
  BY <1>5, CleanupInv DEF CleanupExpired
<1>6. CASE Tick
  BY <1>6, TickInv
<1>7. CASE UNCHANGED vars
  BY <1>7 DEF vars, RegistryInv, TypeOK, NoEmptyRecord, NoGhostMember
<1>8. QED
  BY <1>1, <1>2, <1>3, <1>4, <1>5, <1>6, <1>7 DEF Next

(* Types, records without members and members without a live session: the  *)
(* registry never leaves its well-formed states.                           *)
THEOREM RegistryInvariant == Spec => []RegistryInv
<1>1. QED
  BY RegistryInit, RegistryStep, PTL DEF Spec

(* A session that ended leaves nothing in the registry.                    *)
THEOREM NoGhostTheorem == Spec => []NoGhostMember
<1>1. RegistryInv => NoGhostMember
  BY DEF RegistryInv
<1>2. QED
  BY <1>1, RegistryInvariant, PTL

(* Every variable of the registry keeps its type: in particular no age     *)
(* exceeds the ttl and no touch is later than the delay allows.            *)
THEOREM TypeTheorem == Spec => []TypeOK
<1>1. RegistryInv => TypeOK
  BY DEF RegistryInv
<1>2. QED
  BY <1>1, RegistryInvariant, PTL

-------------------------------------------------------------------------------

(* One step takes a seat from a live session only if its record is expired: *)
(* a newcomer finds the role taken, and whoever releases gives up his own. *)
LEMMA SeatStep ==
  ASSUME RegistryInv, [Next]_vars, NEW x \in Session,
         Seated(x), registration'[x] # NoClaim, ~Seated(x)'
  PROVE  age[registration[x].bridge] >= TTL
<1> USE RegistryAssumption, IntervalType
<1> DEFINE c == registration[x].bridge
           q == registration[x].role
<1>1. /\ registration[x] \in Claim
      /\ c \in Bridge /\ q \in Role
      /\ members[c][q] = x
      /\ x # NoSession
  BY DEF Seated, RegistryInv, TypeOK, Claim
<1> SUFFICES ASSUME c \notin Expired
             PROVE  FALSE
  <2>1. owner[c] # NoToken
    BY <1>1 DEF RegistryInv, NoEmptyRecord, Nobody
  <2>2. age[c] \in Nat /\ TTL \in Nat
    BY <1>1 DEF RegistryInv, TypeOK
  <2>3. QED
    BY <1>1, <2>1, <2>2 DEF Expired
<1>2. KeptMembers[c][q] = x
  BY <1>1 DEF KeptMembers
<1>3. ASSUME registration'[x] = registration[x], members'[c][q] = x
      PROVE  FALSE
  BY <1>3 DEF Seated
<1>4. ASSUME NEW s \in Session, NEW t \in Token, NEW b \in Bridge, NEW r \in Role,
             Register(s, t, b, r)
      PROVE  FALSE
  <2>1. s # x
    BY <1>4 DEF Register, Seated
  <2>2. registration'[x] = registration[x]
    BY <1>4, <2>1 DEF Register, RegistryInv, TypeOK
  <2>3. ~(b = c /\ r = q)
    <3> SUFFICES ASSUME b = c, r = q
                 PROVE  FALSE
      OBVIOUS
    <3>1. KeptOwner[c] = NoToken \/ KeptMembers[c][q] = NoSession
      BY <1>4 DEF Register, Admits
    <3>2. QED
      BY <1>1, <1>2, <3>1, KeptRecords DEF Nobody
  <2>4. members'[c][q] = x
    BY <1>1, <1>2, <1>4, <2>3, KeptRecords DEF Register
  <2>5. QED
    BY <1>3, <2>2, <2>4
<1>5. ASSUME registration' = registration, members' = KeptMembers
      PROVE  FALSE
  BY <1>2, <1>3, <1>5
<1>6. ASSUME NEW s \in Session, Release(s)
      PROVE  FALSE
  <2>1. s # x /\ registration'[x] = registration[x]
    BY <1>6 DEF Release, RegistryInv, TypeOK
  <2> DEFINE b == registration[s].bridge
             r == registration[s].role
  <2>2. b \in Bridge /\ r \in Role
    BY <1>6 DEF Release, RegistryInv, TypeOK, Claim
  <2>3. \/ members' = members
        \/ members' = [members EXCEPT ![b] = MembersWithout(b, r, s)]
    BY <1>6 DEF Release, registryVars
  <2>4. members'[c][q] = x
    BY <1>1, <2>1, <2>2, <2>3 DEF MembersWithout, RegistryInv, TypeOK
  <2>5. QED
    BY <1>3, <2>1, <2>4
<1>7. ASSUME registration' = registration, members' = members
      PROVE  FALSE
  BY <1>1, <1>3, <1>7
<1>8. QED
  BY <1>4, <1>5, <1>6, <1>7
  DEF Next, RegisterRefused, CleanupExpired, Touch, Tick, vars

(* A session keeps its seat against every other session, even one whose    *)
(* registration of the same seat is older or newer than its own.           *)
THEOREM SeatTheorem == Spec => SeatLostOnlyByExpiry
<1>1. RegistryInv /\ [Next]_vars =>
        [\A s \in Session :
           (Seated(s) /\ registration'[s] # NoClaim /\ ~Seated(s)')
             => age[registration[s].bridge] >= TTL]_vars
  BY SeatStep
<1>2. QED
  BY <1>1, RegistryInvariant, PTL DEF Spec, SeatLostOnlyByExpiry

(* A bridge both sessions left is no longer counted.                       *)
THEOREM NoEmptyRecordTheorem == Spec => []NoEmptyRecord
<1>1. RegistryInv => NoEmptyRecord
  BY DEF RegistryInv
<1>2. QED
  BY <1>1, RegistryInvariant, PTL

(* Cleanups and releases only ever take bridges from a token.              *)
LEMMA FewerBridges ==
  ASSUME NEW own1, NEW own2, NEW t,
         \A b \in Bridge : own2[b] = t => own1[b] = t
  PROVE  Cardinality(BridgesHeld(own2, t)) <= Cardinality(BridgesHeld(own1, t))
<1>1. IsFiniteSet(BridgesHeld(own1, t))
  BY FS_Subset, RegistryAssumption DEF BridgesHeld
<1>2. BridgesHeld(own2, t) \in SUBSET BridgesHeld(own1, t)
  BY DEF BridgesHeld
<1>3. QED
  BY <1>1, <1>2, FS_Subset

LEMMA HeldType ==
  ASSUME NEW own, NEW t
  PROVE  IsFiniteSet(BridgesHeld(own, t)) /\ Cardinality(BridgesHeld(own, t)) \in Nat
  BY FS_Subset, FS_CardinalityType, RegistryAssumption DEF BridgesHeld

LEMMA LimitStep == RegistryInv /\ TokenLimit /\ [Next]_vars => TokenLimit'
<1> SUFFICES ASSUME RegistryInv, TokenLimit, [Next]_vars, NEW u \in Token
             PROVE  Cardinality(BridgesHeld(owner', u)) <= MaxActivePerToken
  BY DEF TokenLimit
<1> USE RegistryAssumption
<1> DEFINE Card(own) == Cardinality(BridgesHeld(own, u))
<1>1. Card(owner) <= MaxActivePerToken
  BY DEF TokenLimit
<1>2. Card(KeptOwner) <= MaxActivePerToken
  <2>1. \A b \in Bridge : KeptOwner[b] = u => owner[b] = u
    BY KeptRecords
  <2>2. Card(KeptOwner) <= Card(owner)
    BY <2>1, FewerBridges
  <2>3. QED
    BY <1>1, <2>2, HeldType
<1>3. ASSUME NEW s \in Session, NEW t \in Token, NEW b \in Bridge, NEW r \in Role,
             Register(s, t, b, r)
      PROVE  Card(owner') <= MaxActivePerToken
  <2>1. \A c \in Bridge : owner'[c] = IF c = b THEN t ELSE KeptOwner[c]
    BY <1>3, KeptRecords DEF Register
  <2>2. CASE KeptOwner[b] = t \/ t # u
    <3>1. \A c \in Bridge : owner'[c] = u => KeptOwner[c] = u
      BY <2>1, <2>2
    <3>2. Card(owner') <= Card(KeptOwner)
      BY <3>1, FewerBridges
    <3>3. QED
      BY <1>2, <3>2, HeldType
  <2>3. CASE KeptOwner[b] # t /\ t = u
    <3>1. Card(KeptOwner) < MaxActivePerToken
      BY <1>3, <2>3 DEF Register, Admits
    <3>2. BridgesHeld(owner', u) = BridgesHeld(KeptOwner, u) \cup {b}
      BY <2>1, <2>3 DEF BridgesHeld
    <3>3. IsFiniteSet(BridgesHeld(KeptOwner, u)) /\ Card(KeptOwner) \in Nat
      BY HeldType
    <3>4. Card(owner') \in {Card(KeptOwner), Card(KeptOwner) + 1}
      BY <3>2, <3>3, FS_AddElement
    <3>5. QED
      BY <3>1, <3>3, <3>4
  <2>4. QED
    BY <2>2, <2>3
<1>4. ASSUME owner' = KeptOwner
      PROVE  Card(owner') <= MaxActivePerToken
  BY <1>2, <1>4
<1>5. ASSUME NEW s \in Session, Release(s)
      PROVE  Card(owner') <= MaxActivePerToken
  <2>1. \A b \in Bridge : owner'[b] = u => owner[b] = u
    BY <1>5 DEF Release, registryVars, RegistryInv, TypeOK
  <2>2. Card(owner') <= Card(owner)
    BY <2>1, FewerBridges
  <2>3. QED
    BY <1>1, <2>2, HeldType
<1>6. ASSUME UNCHANGED owner
      PROVE  Card(owner') <= MaxActivePerToken
  BY <1>1, <1>6
<1>7. QED
  BY <1>3, <1>4, <1>5, <1>6
  DEF Next, vars, RegisterRefused, Touch, CleanupExpired, Tick

LEMMA LimitInit == Init => TokenLimit
<1> SUFFICES ASSUME Init, NEW t \in Token
             PROVE  Cardinality(BridgesHeld(owner, t)) <= MaxActivePerToken
  BY DEF TokenLimit
<1>1. BridgesHeld(owner, t) = {}
  BY RegistryAssumption DEF Init, BridgesHeld
<1>2. QED
  BY <1>1, FS_EmptySet, RegistryAssumption

(* No token ever holds more bridges than the configured limit.             *)
THEOREM TokenLimitTheorem == Spec => []TokenLimit
<1>1. QED
  BY LimitInit, LimitStep, RegistryInvariant, PTL DEF Spec

-------------------------------------------------------------------------------

(* The deployment's obligation: a touch is never so late that the record   *)
(* reaches the ttl.  It is what config.validate does not ask for, and what *)
(* meeting_bridge_registry_ttl_seconds = 1 breaks.                         *)
TouchesInTime == TouchInterval + MaxDelay < TTL

(* Or it happens to be true of a behaviour.                                *)
NoTouchIsLate == \A s \in Session : slept[s] < TTL

(* A live session sits in its record, and the record is no older than the  *)
(* session's own sleep: whoever else touches it only makes it younger.     *)
SeatIsYoung ==
  \A s \in Session :
    registration[s] # NoClaim =>
      /\ Seated(s)
      /\ age[registration[s].bridge] <= slept[s]

LEMMA NobodyExpires ==
  ASSUME RegistryInv, SeatIsYoung, NoTouchIsLate
  PROVE  Expired = {}
<1> SUFFICES ASSUME NEW b \in Bridge, owner[b] # NoToken
             PROVE  age[b] < TTL
  BY IntervalType DEF Expired, RegistryInv, TypeOK
<1>1. PICK r \in Role : members[b][r] # NoSession
  BY NobodyHolds DEF RegistryInv, NoEmptyRecord, TypeOK
<1> DEFINE s == members[b][r]
<1>2. s \in Session /\ owner[b] \in Token
  BY <1>1 DEF RegistryInv, TypeOK
<1>3. registration[s] = [bridge |-> b, role |-> r, token |-> owner[b]]
  BY <1>1 DEF RegistryInv, NoGhostMember
<1>4. registration[s] # NoClaim
  BY <1>2, <1>3, ClaimAssumption DEF Claim
<1>5. age[b] <= slept[s]
  BY <1>2, <1>3, <1>4 DEF SeatIsYoung
<1>6. QED
  BY <1>2, <1>5, IntervalType, RegistryAssumption DEF RegistryInv, TypeOK, NoTouchIsLate

LEMMA YoungStep ==
  ASSUME NoTouchIsLate, RegistryInv, SeatIsYoung, [Next]_vars
  PROVE  SeatIsYoung'
<1> USE RegistryAssumption, IntervalType, ClaimAssumption
<1>0. KeptOwner = owner /\ KeptMembers = members /\ KeptAge = age
  BY NobodyExpires DEF KeptOwner, KeptMembers, KeptAge, RegistryInv, TypeOK
<1> SUFFICES ASSUME NEW x \in Session, registration'[x] # NoClaim
             PROVE  Seated(x)' /\ age'[registration'[x].bridge] <= slept'[x]
  BY DEF SeatIsYoung
<1> DEFINE Young(y) == /\ Seated(y)
                       /\ age[registration[y].bridge] <= slept[y]
<1>1. ASSUME registration[x] # NoClaim
      PROVE  Young(x)
  BY <1>1 DEF SeatIsYoung
<1>2. \A y \in Session : registration[y] # NoClaim =>
        registration[y].bridge \in Bridge /\ registration[y].role \in Role
  BY DEF RegistryInv, TypeOK, Claim
<1>3. ASSUME NEW s \in Session, NEW t \in Token, NEW b \in Bridge, NEW r \in Role,
             Register(s, t, b, r)
      PROVE  Seated(x)' /\ age'[registration'[x].bridge] <= slept'[x]
  <2>1. /\ members' = [members EXCEPT ![b] = [@ EXCEPT ![r] = s]]
        /\ age' = [age EXCEPT ![b] = 0]
        /\ registration' = [registration EXCEPT ![s] = [bridge |-> b, role |-> r, token |-> t]]
        /\ slept' = [slept EXCEPT ![s] = 0]
    BY <1>0, <1>3 DEF Register
  <2>2. CASE x = s
    BY <2>1, <2>2 DEF Seated, RegistryInv, TypeOK
  <2>3. CASE x # s
    <3>1. registration'[x] = registration[x] /\ slept'[x] = slept[x]
      BY <2>1, <2>3
    <3>2. Young(x)
      BY <1>1, <3>1
    <3>3. ~(registration[x].bridge = b /\ registration[x].role = r)
      <4>1. members[b][r] = NoSession
        BY <1>0, <1>3 DEF Register, Admits, RegistryInv, NoEmptyRecord, Nobody
      <4>2. QED
        BY <3>2, <4>1 DEF Seated
    <3>4. Seated(x)'
      BY <1>2, <2>1, <3>1, <3>2, <3>3 DEF Seated, RegistryInv, TypeOK
    <3>5. age'[registration[x].bridge] <= slept[x]
      BY <1>2, <2>1, <3>1, <3>2 DEF RegistryInv, TypeOK
    <3>6. QED
      BY <3>1, <3>4, <3>5
  <2>4. QED
    BY <2>2, <2>3
<1>4. ASSUME UNCHANGED <<members, registration, slept>>, age' = age
      PROVE  Seated(x)' /\ age'[registration'[x].bridge] <= slept'[x]
  BY <1>1, <1>4 DEF Seated
<1>5. ASSUME NEW s \in Session, Touch(s)
      PROVE  Seated(x)' /\ age'[registration'[x].bridge] <= slept'[x]
  <2>1. registration'[x] = registration[x] /\ Young(x) /\ members' = members
    BY <1>1, <1>5 DEF Touch
  <2>2. Seated(x)'
    BY <2>1 DEF Seated
  <2>3. CASE registration[x].bridge = registration[s].bridge
    <3>1. age'[registration[x].bridge] = 0
      BY <1>2, <1>5, <2>1, <2>3 DEF Touch, RegistryInv, TypeOK
    <3>2. slept'[x] \in Nat
      BY <1>5 DEF Touch, RegistryInv, TypeOK
    <3>3. QED
      BY <2>1, <2>2, <3>1, <3>2
  <2>4. CASE registration[x].bridge # registration[s].bridge
    <3>1. age'[registration[x].bridge] = age[registration[x].bridge]
      BY <1>2, <1>5, <2>1, <2>4 DEF Touch, RegistryInv, TypeOK
    <3>2. slept'[x] = slept[x]
      BY <1>5, <2>4 DEF Touch, RegistryInv, TypeOK
    <3>3. QED
      BY <2>1, <2>2, <3>1, <3>2
  <2>5. QED
    BY <2>3, <2>4
<1>6. ASSUME NEW s \in Session, Release(s)
      PROVE  Seated(x)' /\ age'[registration'[x].bridge] <= slept'[x]
  <2>1. x # s
    BY <1>6 DEF Release, RegistryInv, TypeOK
  <2>2. registration'[x] = registration[x] /\ slept'[x] = slept[x] /\ Young(x)
    BY <1>1, <1>6, <2>1 DEF Release, RegistryInv, TypeOK
  <2> DEFINE b == registration[s].bridge
             r == registration[s].role
             c == registration[x].bridge
             q == registration[x].role
  <2>3. b \in Bridge /\ r \in Role /\ c \in Bridge /\ q \in Role
    BY <1>2, <1>6, <2>2 DEF Release
  <2>4. members'[c][q] = members[c][q]
    BY <1>6, <2>1, <2>2, <2>3 DEF Release, registryVars, MembersWithout, Seated, RegistryInv, TypeOK
  <2>5. age'[c] <= slept[x]
    BY <1>6, <2>2, <2>3 DEF Release, registryVars, RegistryInv, TypeOK
  <2>6. QED
    BY <2>2, <2>4, <2>5 DEF Seated
<1>7. CASE Tick
  <2>1. registration'[x] = registration[x] /\ Young(x) /\ members' = members
    BY <1>1, <1>7 DEF Tick
  <2>2. registration[x].bridge \in Bridge
    BY <1>2, <2>1
  <2>3. age'[registration[x].bridge] <= age[registration[x].bridge] + 1
    BY <1>7, <2>2 DEF Tick, RegistryInv, TypeOK
  <2>4. slept'[x] = slept[x] + 1
    BY <1>7, <2>1 DEF Tick
  <2>5. age'[registration[x].bridge] \in Nat /\ age[registration[x].bridge] \in Nat
        /\ slept[x] \in Nat
    BY <1>7, <2>2 DEF Tick, RegistryInv, TypeOK
  <2>6. QED
    BY <2>1, <2>3, <2>4, <2>5 DEF Seated
<1>8. QED
  BY <1>0, <1>3, <1>4, <1>5, <1>6, <1>7
  DEF Next, vars, RegisterRefused, CleanupExpired

(* With touches in time, no live session ever loses its seat.              *)
THEOREM LiveSessionKeepsSeatTheorem ==
  ASSUME TouchesInTime
  PROVE  Spec => []LiveSessionKeepsSeat
<1>1. Init => SeatIsYoung
  BY DEF Init, SeatIsYoung
<1>2. RegistryInv => NoTouchIsLate
  BY IntervalType, RegistryAssumption DEF RegistryInv, TypeOK, TouchesInTime, NoTouchIsLate
<1>3. RegistryInv /\ SeatIsYoung /\ [Next]_vars => SeatIsYoung'
  BY <1>2, YoungStep
<1>4. SeatIsYoung => LiveSessionKeepsSeat
  BY DEF SeatIsYoung, LiveSessionKeepsSeat
<1>5. QED
  BY <1>1, <1>3, <1>4, RegistryInvariant, PTL DEF Spec

(* The delay of punctual behaviours is below a ttl minus an interval.       *)
PunctualInTime == PunctualDelay \in Nat /\ TouchInterval + PunctualDelay < TTL

PunctualInv ==
  punctual => /\ SeatIsYoung
              /\ \A s \in Session : slept[s] <= TouchInterval + PunctualDelay

(* Whatever delay the event loop is capable of, in a behaviour in which no *)
(* touch is late by a ttl minus an interval no live session loses its      *)
(* seat.                                                                   *)
THEOREM PunctualSeatTheorem ==
  ASSUME PunctualInTime
  PROVE  PunctualSpec => []SeatsKeptWhenPunctual
<1>1. PunctualInit => RegistryInv /\ PunctualInv
  <2>1. PunctualInit => RegistryInv
    BY RegistryInit DEF PunctualInit
  <2>2. PunctualInit => PunctualInv
    BY IntervalType DEF PunctualInit, Init, PunctualInv, SeatIsYoung, PunctualInTime
  <2>3. QED
    BY <2>1, <2>2
<1>2. RegistryInv /\ PunctualInv /\ [PunctualNext]_<<vars, punctual>> => (RegistryInv /\ PunctualInv)'
  <2> SUFFICES ASSUME RegistryInv, PunctualInv, [PunctualNext]_<<vars, punctual>>
               PROVE  RegistryInv' /\ PunctualInv'
    OBVIOUS
  <2>1. [Next]_vars /\ punctual' = punctual
    BY DEF PunctualNext
  <2>2. RegistryInv'
    BY <2>1, RegistryStep
  <2>3. ASSUME punctual
        PROVE  /\ SeatIsYoung'
               /\ \A s \in Session : slept'[s] <= TouchInterval + PunctualDelay
    <3>1. NoTouchIsLate /\ SeatIsYoung
      BY <2>3, IntervalType DEF PunctualInv, PunctualInTime, NoTouchIsLate, RegistryInv, TypeOK
    <3>2. SeatIsYoung'
      BY <2>1, <3>1, YoungStep
    <3>3. \A s \in Session : slept'[s] <= TouchInterval + PunctualDelay
      BY <2>3 DEF PunctualNext, PunctualInv, vars
    <3>4. QED
      BY <3>2, <3>3
  <2>4. QED
    BY <2>1, <2>2, <2>3 DEF PunctualInv
<1>3. PunctualInv => SeatsKeptWhenPunctual
  BY DEF PunctualInv, SeatIsYoung, SeatsKeptWhenPunctual, LiveSessionKeepsSeat
<1>4. QED
  BY <1>1, <1>2, <1>3, PTL DEF PunctualSpec

-------------------------------------------------------------------------------
(* The registry implements the abstract membership: each call is a join, a *)
(* leave or an expiry, or leaves the parties alone.                        *)

(* The instance counts as this module does.                                *)
LEMMA SameCardinality ==
  ASSUME NEW S
  PROVE  Membership!Cardinality(S) = Cardinality(S)
  BY DEF Membership!Cardinality, Cardinality, Membership!IsFiniteSet, IsFiniteSet

LEMMA PartyOfSeat ==
  ASSUME NEW own, NEW mem, NEW p
  PROVE  p \in SeatParties(own, mem) <=>
           \E b \in Bridge, r \in Role : mem[b][r] # NoSession /\ p = SeatParty(own, mem, b, r)
  BY DEF SeatParties

(* A well-formed registry has well-formed parties.                         *)
LEMMA SeatPartyType ==
  ASSUME RegistryInv, NEW b \in Bridge, NEW r \in Role, members[b][r] # NoSession
  PROVE  /\ SeatParty(owner, members, b, r) \in Membership!Party
         /\ owner[b] \in Token
<1>1. members[b][r] \in Session /\ owner[b] \in Token
  BY DEF RegistryInv, TypeOK, NoEmptyRecord, Nobody
<1>2. QED
  BY <1>1 DEF SeatParty, Membership!Party, Membership!Role, Role

(* _cleanup_locked forgets the parties of the expired bridges.             *)
LEMMA KeptParties ==
  ASSUME RegistryInv
  PROVE  SeatParties(KeptOwner, KeptMembers) = Membership!Survivors(PartiesBar, Expired)
<1>1. ASSUME NEW b \in Bridge, NEW r \in Role
      PROVE  /\ b \in Expired => KeptMembers[b][r] = NoSession
             /\ b \notin Expired => KeptMembers[b][r] = members[b][r] /\ KeptOwner[b] = owner[b]
  BY DEF KeptMembers, KeptOwner, Nobody
<1>2. ASSUME NEW p
      PROVE  p \in SeatParties(KeptOwner, KeptMembers) <=>
               p \in PartiesBar /\ p.bridge \notin Expired
  <2>1. ASSUME p \in SeatParties(KeptOwner, KeptMembers)
        PROVE  p \in PartiesBar /\ p.bridge \notin Expired
    <3>1. PICK b \in Bridge, r \in Role :
            KeptMembers[b][r] # NoSession /\ p = SeatParty(KeptOwner, KeptMembers, b, r)
      BY <2>1, PartyOfSeat
    <3>2. b \notin Expired /\ p = SeatParty(owner, members, b, r) /\ members[b][r] # NoSession
      BY <1>1, <3>1 DEF SeatParty
    <3>3. p \in PartiesBar
      BY <3>2, PartyOfSeat DEF PartiesBar
    <3>4. QED
      BY <3>2, <3>3 DEF SeatParty
  <2>2. ASSUME p \in PartiesBar, p.bridge \notin Expired
        PROVE  p \in SeatParties(KeptOwner, KeptMembers)
    <3>1. PICK b \in Bridge, r \in Role :
            members[b][r] # NoSession /\ p = SeatParty(owner, members, b, r)
      BY <2>2, PartyOfSeat DEF PartiesBar
    <3>2. b \notin Expired
      BY <2>2, <3>1 DEF SeatParty
    <3>3. KeptMembers[b][r] # NoSession /\ p = SeatParty(KeptOwner, KeptMembers, b, r)
      BY <1>1, <3>1, <3>2 DEF SeatParty
    <3>4. QED
      BY <3>3, PartyOfSeat
  <2>3. QED
    BY <2>1, <2>2
<1>3. QED
  BY <1>2 DEF Membership!Survivors

(* A registration is a join, once the expired bridges are forgotten.       *)
LEMMA RegisterJoins ==
  ASSUME RegistryInv, NEW s \in Session, NEW t \in Token, NEW b \in Bridge, NEW r \in Role,
         Register(s, t, b, r)
  PROVE  \E B \in SUBSET Bridge, p \in Membership!Party : Membership!Join(B, p)
<1> DEFINE new == [bridge |-> b, role |-> r, token |-> t, session |-> s]
           kept == Membership!Survivors(PartiesBar, Expired)
<1>1. new \in Membership!Party /\ Expired \in SUBSET Bridge
  BY DEF Membership!Party, Membership!Role, Role, Expired
<1>2. kept = SeatParties(KeptOwner, KeptMembers)
  BY KeptParties
<1>3. KeptOwner[b] \in {t, NoToken} /\ KeptMembers[b][r] = NoSession
  BY KeptRecords DEF Register, Admits, Nobody
<1>4. s # NoSession /\ t # NoToken
  BY RegistryAssumption
<1>5. PartiesBar' = kept \cup {new}
  <2>1. ASSUME NEW c \in Bridge, NEW q \in Role
        PROVE  /\ c = b /\ q = r => /\ members'[c][q] = s
                                    /\ owner'[c] = t
               /\ ~(c = b /\ q = r) => members'[c][q] = KeptMembers[c][q]
               /\ ~(c = b /\ q = r) /\ KeptMembers[c][q] # NoSession
                    => owner'[c] = KeptOwner[c]
    BY <1>3, KeptRecords DEF Register, Nobody
  <2>2. ASSUME NEW p
        PROVE  p \in PartiesBar' <=> p \in kept \cup {new}
    <3>1. ASSUME p \in PartiesBar'
          PROVE  p \in kept \cup {new}
      <4>1. PICK c \in Bridge, q \in Role :
              members'[c][q] # NoSession /\ p = SeatParty(owner', members', c, q)
        BY <3>1, PartyOfSeat DEF PartiesBar
      <4>2. CASE c = b /\ q = r
        BY <2>1, <4>1, <4>2 DEF SeatParty
      <4>3. CASE ~(c = b /\ q = r)
        <5>1. KeptMembers[c][q] # NoSession /\ p = SeatParty(KeptOwner, KeptMembers, c, q)
          BY <2>1, <4>1, <4>3 DEF SeatParty
        <5>2. QED
          BY <1>2, <5>1, PartyOfSeat
      <4>4. QED
        BY <4>2, <4>3
    <3>2. ASSUME p \in kept
          PROVE  p \in PartiesBar'
      <4>1. PICK c \in Bridge, q \in Role :
              KeptMembers[c][q] # NoSession /\ p = SeatParty(KeptOwner, KeptMembers, c, q)
        BY <1>2, <3>2, PartyOfSeat
      <4>2. members'[c][q] # NoSession /\ p = SeatParty(owner', members', c, q)
        BY <1>3, <2>1, <4>1 DEF SeatParty
      <4>3. QED
        BY <4>2, PartyOfSeat DEF PartiesBar
    <3>3. new \in PartiesBar'
      <4>1. members'[b][r] # NoSession /\ new = SeatParty(owner', members', b, r)
        BY <1>4, <2>1 DEF SeatParty
      <4>2. QED
        BY <4>1, PartyOfSeat DEF PartiesBar
    <3>4. QED
      BY <3>1, <3>2, <3>3
  <2>3. QED
    BY <2>2
<1>6. ASSUME NEW p \in kept, p.bridge = b
      PROVE  /\ p.token = t
             /\ p.role # r
  <2>1. PICK c \in Bridge, q \in Role :
          KeptMembers[c][q] # NoSession /\ p = SeatParty(KeptOwner, KeptMembers, c, q)
    BY <1>2, PartyOfSeat
  <2>2. c = b /\ p.role = q /\ p.token = KeptOwner[c]
    BY <1>6, <2>1 DEF SeatParty
  <2>3. KeptOwner[b] # NoToken
    BY <2>1, <2>2, KeptRecords DEF Nobody
  <2>4. QED
    BY <1>3, <2>1, <2>2, <2>3
<1>7. ASSUME Membership!On(kept, b) = {}
      PROVE  Cardinality(Membership!BridgesOf(kept, t)) < MaxActivePerToken
  <2>1. ASSUME NEW q \in Role
        PROVE  KeptMembers[b][q] = NoSession
    <3> SUFFICES ASSUME KeptMembers[b][q] # NoSession
                 PROVE  FALSE
      OBVIOUS
    <3>1. SeatParty(KeptOwner, KeptMembers, b, q) \in kept
      BY <1>2, PartyOfSeat
    <3>2. QED
      BY <1>7, <3>1 DEF Membership!On, SeatParty
  <2>2. KeptOwner[b] = NoToken
    BY <2>1, KeptRecords, NobodyHolds
  <2>3. Cardinality(BridgesHeld(KeptOwner, t)) < MaxActivePerToken
    BY <1>4, <2>2 DEF Register, Admits
  <2>4. Membership!BridgesOf(kept, t) = BridgesHeld(KeptOwner, t)
    <3>1. ASSUME NEW c \in Bridge, KeptOwner[c] = t
          PROVE  \E p \in kept : p.bridge = c /\ p.token = t
      <4>1. KeptMembers[c] # Nobody
        BY <1>4, <3>1, KeptRecords
      <4>2. PICK q \in Role : KeptMembers[c][q] # NoSession
        BY <4>1, KeptRecords, NobodyHolds
      <4>3. SeatParty(KeptOwner, KeptMembers, c, q) \in kept
        BY <1>2, <4>2, PartyOfSeat
      <4>4. QED
        BY <3>1, <4>3 DEF SeatParty
    <3>2. ASSUME NEW c \in Bridge, NEW p \in kept, p.bridge = c, p.token = t
          PROVE  KeptOwner[c] = t
      <4>1. PICK d \in Bridge, q \in Role :
              KeptMembers[d][q] # NoSession /\ p = SeatParty(KeptOwner, KeptMembers, d, q)
        BY <1>2, PartyOfSeat
      <4>2. QED
        BY <3>2, <4>1 DEF SeatParty
    <3>3. QED
      BY <3>1, <3>2 DEF Membership!BridgesOf, BridgesHeld
  <2>5. QED
    BY <2>3, <2>4
<1>8. Membership!Admissible(kept, new)
  <2>1. \A q \in Membership!On(kept, b) : q.token = t /\ q.role # r
    BY <1>6 DEF Membership!On
  <2>2. QED
    BY <1>7, <2>1, SameCardinality DEF Membership!Admissible
<1>9. Membership!Join(Expired, new)
  BY <1>5, <1>8 DEF Membership!Join
<1>10. QED
  BY <1>1, <1>9

(* A release takes away the session's own party, if it still has one.      *)
LEMMA ReleaseLeaves ==
  ASSUME RegistryInv, NEW s \in Session, Release(s)
  PROVE  \/ \E p \in Membership!Party : Membership!Leave(p)
         \/ PartiesBar' = PartiesBar
<1> DEFINE b == registration[s].bridge
           r == registration[s].role
           left == MembersWithout(b, r, s)
<1>1. b \in Bridge /\ r \in Role
  BY DEF Release, TypeOK, RegistryInv, Claim
<1>2. CASE owner[b] = NoToken
  <2>1. owner' = owner /\ members' = members
    BY <1>2 DEF Release, registryVars
  <2>2. QED
    BY <2>1 DEF PartiesBar
<1>3. CASE owner[b] # NoToken
  <2>1. /\ members' = [members EXCEPT ![b] = left]
        /\ owner' = [owner EXCEPT ![b] = IF left = Nobody THEN NoToken ELSE @]
    BY <1>3 DEF Release
  <2>2. left \in [Role -> Session \cup {NoSession}]
    BY <1>1 DEF MembersWithout, TypeOK, RegistryInv
  <2>3. CASE members[b][r] # s
    <3>1. left = members[b]
      BY <2>3 DEF MembersWithout
    <3>2. left # Nobody
      BY <1>1, <1>3, <3>1 DEF RegistryInv, NoEmptyRecord
    <3>3. members' = members /\ owner' = owner
      BY <1>1, <2>1, <3>1, <3>2 DEF RegistryInv, TypeOK
    <3>4. QED
      BY <3>3 DEF PartiesBar
  <2>4. CASE members[b][r] = s
    <3> DEFINE mine == SeatParty(owner, members, b, r)
    <3>1. members[b][r] # NoSession
      BY <2>4, RegistryAssumption
    <3>2. mine \in Membership!Party /\ mine \in PartiesBar
      BY <1>1, <3>1, SeatPartyType, PartyOfSeat DEF PartiesBar
    <3>3. ASSUME NEW c \in Bridge, NEW q \in Role
          PROVE  /\ c = b /\ q = r => members'[c][q] = NoSession
                 /\ ~(c = b /\ q = r) => members'[c][q] = members[c][q]
                 /\ members'[c][q] # NoSession => owner'[c] = owner[c]
      <4>1. left = [members[b] EXCEPT ![r] = NoSession]
        BY <2>4 DEF MembersWithout
      <4>2. /\ c = b /\ q = r => members'[c][q] = NoSession
            /\ ~(c = b /\ q = r) => members'[c][q] = members[c][q]
        BY <1>1, <2>1, <4>1 DEF RegistryInv, TypeOK
      <4>3. members'[c][q] # NoSession => owner'[c] = owner[c]
        BY <1>1, <2>1 DEF RegistryInv, TypeOK, Nobody
      <4>4. QED
        BY <4>2, <4>3
    <3>4. ASSUME NEW p
          PROVE  p \in PartiesBar' <=> p \in PartiesBar \ {mine}
      <4>1. ASSUME p \in PartiesBar'
            PROVE  p \in PartiesBar \ {mine}
        <5>1. PICK c \in Bridge, q \in Role :
                members'[c][q] # NoSession /\ p = SeatParty(owner', members', c, q)
          BY <4>1, PartyOfSeat DEF PartiesBar
        <5>2. /\ ~(c = b /\ q = r)
              /\ members[c][q] # NoSession
              /\ p = SeatParty(owner, members, c, q)
          BY <3>3, <5>1 DEF SeatParty
        <5>3. p # mine
          BY <5>2 DEF SeatParty
        <5>4. QED
          BY <5>2, <5>3, PartyOfSeat DEF PartiesBar
      <4>2. ASSUME p \in PartiesBar, p # mine
            PROVE  p \in PartiesBar'
        <5>1. PICK c \in Bridge, q \in Role :
                members[c][q] # NoSession /\ p = SeatParty(owner, members, c, q)
          BY <4>2, PartyOfSeat DEF PartiesBar
        <5>2. members'[c][q] # NoSession /\ p = SeatParty(owner', members', c, q)
          BY <3>3, <4>2, <5>1 DEF SeatParty
        <5>3. QED
          BY <5>2, PartyOfSeat DEF PartiesBar
      <4>3. QED
        BY <4>1, <4>2
    <3>5. Membership!Leave(mine)
      BY <3>2, <3>4 DEF Membership!Leave
    <3>6. QED
      BY <3>2, <3>5
  <2>5. QED
    BY <2>3, <2>4
<1>4. QED
  BY <1>2, <1>3

LEMMA CleanupExpires ==
  ASSUME RegistryInv, owner' = KeptOwner, members' = KeptMembers
  PROVE  \E B \in SUBSET Bridge : Membership!Expire(B)
<1>1. PartiesBar' = SeatParties(KeptOwner, KeptMembers)
  BY DEF PartiesBar
<1>2. Expired \in SUBSET Bridge
  BY DEF Expired
<1>3. QED
  BY <1>1, <1>2, KeptParties DEF Membership!Expire

(* Every behaviour of the registry is one of the abstract membership.      *)
THEOREM RefinementTheorem == Spec => ImplementsMembership
<1>1. Init => Membership!MInit
  <2> SUFFICES ASSUME Init
               PROVE  PartiesBar = {}
    BY DEF Membership!MInit
  <2>1. \A b \in Bridge, r \in Role : members[b][r] = NoSession
    BY DEF Init, Nobody
  <2>2. QED
    BY <2>1 DEF PartiesBar, SeatParties
<1>2. RegistryInv /\ [Next]_vars => [Membership!MNext]_PartiesBar
  <2> SUFFICES ASSUME RegistryInv, [Next]_vars
               PROVE  Membership!MNext \/ PartiesBar' = PartiesBar
    OBVIOUS
  <2>1. ASSUME NEW s \in Session, NEW t \in Token, NEW b \in Bridge, NEW r \in Role,
               Register(s, t, b, r)
        PROVE  Membership!MNext
    BY <2>1, RegisterJoins DEF Membership!MNext
  <2>2. ASSUME NEW s \in Session, NEW t \in Token, NEW b \in Bridge, NEW r \in Role,
               RegisterRefused(s, t, b, r)
        PROVE  Membership!MNext
    BY <2>2, CleanupExpires DEF RegisterRefused, Membership!MNext
  <2>3. ASSUME NEW s \in Session, Release(s)
        PROVE  Membership!MNext \/ PartiesBar' = PartiesBar
    BY <2>3, ReleaseLeaves DEF Membership!MNext
  <2>4. CASE CleanupExpired
    BY <2>4, CleanupExpires DEF CleanupExpired, Membership!MNext
  <2>5. CASE UNCHANGED <<owner, members>>
    BY <2>5 DEF PartiesBar
  <2>6. QED
    BY <2>1, <2>2, <2>3, <2>4, <2>5 DEF Next, Touch, Tick, vars
<1>3. QED
  BY <1>1, <1>2, RegistryInvariant, PTL DEF Spec, ImplementsMembership, Membership!MSpec

===============================================================================
