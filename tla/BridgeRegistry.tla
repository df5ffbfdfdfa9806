---------------------------- MODULE BridgeRegistry ----------------------------
(***************************************************************************)
(* The gateway's in-memory bridge registry                                 *)
(* (server/app/streaming/bridge_registry.py) together with the routed      *)
(* sessions that register with it, keep their record alive from a touch    *)
(* task and release it (server/app/streaming/router.py).                   *)
(*                                                                         *)
(* Every method of the registry runs under an asyncio lock and awaits      *)
(* nothing inside it, so the lock is never contended and a call is one     *)
(* step.  A BridgeRecord of the code is owner[b], members[b] and age[b];   *)
(* owner[b] = NoToken stands for "no record".  Ages replace the absolute   *)
(* times of the code: age[b] is now - last_activity_at.  The unit of time  *)
(* is a third of a second, which makes ttl/3 exact.                        *)
(***************************************************************************)
EXTENDS Naturals, FiniteSets, BridgeSeats

CONSTANTS Session,            \* session ids
          NoToken, NoSession,
          TTLSeconds,         \* meeting_bridge_registry_ttl_seconds
          MaxDelay            \* how late, in ticks, the event loop may run a touch

ASSUME RegistryAssumption ==
  /\ IsFiniteSet(Bridge)
  /\ MaxActivePerToken \in Nat \ {0}
  /\ TTLSeconds \in Nat \ {0}
  /\ MaxDelay \in Nat
  /\ NoToken \notin Token
  /\ NoSession \notin Session

\* What a routed session remembers of its registration.
Claim == [bridge : Bridge, role : Role, token : Token]

ASSUME ClaimAssumption == NoClaim \notin Claim

TTL == 3 * TTLSeconds

\* Mutation: a touch once per ttl instead of three.
TouchOncePerTTL == TTL

\* max(1.0, min(30.0, ttl / 3)) seconds.
TouchInterval ==
  IF TTLSeconds < 3 THEN 3 ELSE IF TTLSeconds > 90 THEN 90 ELSE TTLSeconds

VARIABLES owner,          \* owner[b]: the record's token, NoToken without a record
          members,        \* members[b][r]: the session that plays role r
          age,            \* age[b]: time since the record's last activity, up to TTL
          registration,   \* registration[s]: what session s has to release
          slept           \* slept[s]: how long the touch task of s has slept

registryVars == <<owner, members, age>>
vars == <<owner, members, age, registration, slept>>

-------------------------------------------------------------------------------

Nobody == [r \in Role |-> NoSession]

\* _cleanup_locked drops the records idle for the ttl or longer.
Expired == {b \in Bridge : owner[b] # NoToken /\ age[b] >= TTL}

KeptOwner   == [b \in Bridge |-> IF b \in Expired THEN NoToken ELSE owner[b]]
KeptMembers == [b \in Bridge |-> IF b \in Expired THEN Nobody ELSE members[b]]
KeptAge     == [b \in Bridge |-> IF b \in Expired THEN 0 ELSE age[b]]

BridgesHeld(own, t) == {b \in Bridge : own[b] = t}

\* Mutation: the owner of the record is not compared with the caller's token.
AdmitsAnyToken(t, b, r) ==
  \/ /\ KeptOwner[b] = NoToken
     /\ Cardinality(BridgesHeld(KeptOwner, t)) < MaxActivePerToken
  \/ /\ KeptOwner[b] # NoToken
     /\ KeptMembers[b][r] = NoSession

\* The checks of register, on the records that survive the cleanup.
Admits(t, b, r) ==
  \/ /\ KeptOwner[b] = NoToken
     /\ Cardinality(BridgesHeld(KeptOwner, t)) < MaxActivePerToken
  \/ /\ KeptOwner[b] = t
     /\ KeptMembers[b][r] = NoSession

-------------------------------------------------------------------------------

Init ==
  /\ owner = [b \in Bridge |-> NoToken]
  /\ members = [b \in Bridge |-> Nobody]
  /\ age = [b \in Bridge |-> 0]
  /\ registration = [s \in Session |-> NoClaim]
  /\ slept = [s \in Session |-> 0]

\* A session id is new when nothing refers to it: the ids of finished sessions
\* stand for the fresh ones that new_id would draw.
Register(s, t, b, r) ==
  /\ registration[s] = NoClaim
  /\ Admits(t, b, r)
  /\ owner' = [KeptOwner EXCEPT ![b] = t]
  /\ members' = [KeptMembers EXCEPT ![b] = [@ EXCEPT ![r] = s]]
  /\ age' = [KeptAge EXCEPT ![b] = 0]
  /\ registration' = [registration EXCEPT ![s] = [bridge |-> b, role |-> r, token |-> t]]
  /\ slept' = [slept EXCEPT ![s] = 0]

\* register raises BRIDGE_LIMIT_REACHED or BRIDGE_ROLE_CONFLICT: the cleanup it
\* began with stays done.
RegisterRefused(s, t, b, r) ==
  /\ registration[s] = NoClaim
  /\ ~Admits(t, b, r)
  /\ owner' = KeptOwner
  /\ members' = KeptMembers
  /\ age' = KeptAge
  /\ UNCHANGED <<registration, slept>>

\* The touch task of a routed session wakes up.  The registry refreshes whatever
\* record it has under that bridge id.
Touch(s) ==
  /\ registration[s] # NoClaim
  /\ slept[s] >= TouchInterval
  /\ LET b == registration[s].bridge
     IN  age' = [age EXCEPT ![b] = 0]
  /\ slept' = [slept EXCEPT ![s] = 0]
  /\ UNCHANGED <<owner, members, registration>>

\* Mutation: the role is given up whoever holds it.
MembersWithoutRole(b, r, s) == [members[b] EXCEPT ![r] = NoSession]

\* Mutation: the member is left in the record.
MembersKept(b, r, s) == members[b]

\* The members of b once session s has given up role r.
MembersWithout(b, r, s) ==
  IF members[b][r] = s THEN [members[b] EXCEPT ![r] = NoSession] ELSE members[b]

Release(s) ==
  /\ registration[s] # NoClaim
  /\ LET b == registration[s].bridge
         r == registration[s].role
     IN  IF owner[b] = NoToken
         THEN UNCHANGED registryVars
         ELSE /\ members' = [members EXCEPT ![b] = MembersWithout(b, r, s)]
              /\ owner' = [owner EXCEPT ![b] =
                             IF MembersWithout(b, r, s) = Nobody THEN NoToken ELSE @]
              /\ age' = [age EXCEPT ![b] = 0]
  /\ registration' = [registration EXCEPT ![s] = NoClaim]
  /\ slept' = [slept EXCEPT ![s] = 0]

\* The gateway's periodic cleanup.
CleanupExpired ==
  /\ Expired # {}
  /\ owner' = KeptOwner
  /\ members' = KeptMembers
  /\ age' = KeptAge
  /\ UNCHANGED <<registration, slept>>

\* A third of a second passes.  No touch is overdue by more than MaxDelay.
Tick ==
  /\ \A s \in Session :
       registration[s] # NoClaim => slept[s] < TouchInterval + MaxDelay
  /\ age' = [b \in Bridge |-> IF owner[b] = NoToken \/ age[b] >= TTL
                              THEN age[b] ELSE age[b] + 1]
  /\ slept' = [s \in Session |-> IF registration[s] = NoClaim
                                 THEN slept[s] ELSE slept[s] + 1]
  /\ UNCHANGED <<owner, members, registration>>

Next ==
  \/ \E s \in Session, t \in Token, b \in Bridge, r \in Role :
       Register(s, t, b, r) \/ RegisterRefused(s, t, b, r)
  \/ \E s \in Session : Touch(s) \/ Release(s)
  \/ CleanupExpired
  \/ Tick

Spec == Init /\ [][Next]_vars

-------------------------------------------------------------------------------

TypeOK ==
  /\ owner \in [Bridge -> Token \cup {NoToken}]
  /\ members \in [Bridge -> [Role -> Session \cup {NoSession}]]
  /\ age \in [Bridge -> 0..TTL]
  /\ registration \in [Session -> Claim \cup {NoClaim}]
  /\ slept \in [Session -> 0..(TouchInterval + MaxDelay)]

Seated(s) ==
  /\ registration[s] # NoClaim
  /\ members[registration[s].bridge][registration[s].role] = s

(* No token ever holds more bridges than the limit of the configuration,   *)
(* whatever records expire, are recreated or lose one of their directions. *)
TokenLimit ==
  \A t \in Token : Cardinality(BridgesHeld(owner, t)) <= MaxActivePerToken

(* A record exists exactly while one of its directions is held: a bridge   *)
(* both sessions left never counts against its token.                      *)
NoEmptyRecord ==
  \A b \in Bridge : owner[b] = NoToken <=> members[b] = Nobody

(* Every session a record names is alive, registered that very seat, and   *)
(* did so with the token that owns the record.  A session that ended       *)
(* leaves nothing behind, even after its record expired and was recreated. *)
NoGhostMember ==
  \A b \in Bridge, r \in Role :
    members[b][r] # NoSession =>
      registration[members[b][r]] = [bridge |-> b, role |-> r, token |-> owner[b]]

(* While touches run on time, expiry never takes the seat of a live        *)
(* session.                                                                *)
LiveSessionKeepsSeat ==
  \A s \in Session : registration[s] # NoClaim => Seated(s)

(* A live session loses its seat only because its record was idle for the  *)
(* ttl, never because some other session registered or released: a late    *)
(* release by a session whose seat was given away must not evict the new   *)
(* holder.                                                                 *)
SeatLostOnlyByExpiry ==
  [][\A s \in Session :
       (Seated(s) /\ registration'[s] # NoClaim /\ ~Seated(s)')
         => age[registration[s].bridge] >= TTL]_vars

\* The abstract membership this registry implements: a party for each taken seat.
SeatParty(own, mem, b, r) ==
  [bridge |-> b, role |-> r, token |-> own[b], session |-> mem[b][r]]

SeatParties(own, mem) ==
  UNION {{SeatParty(own, mem, b, r) : r \in {q \in Role : mem[b][q] # NoSession}} : b \in Bridge}

PartiesBar == SeatParties(owner, members)

Membership == INSTANCE BridgeMembership WITH parties <- PartiesBar

(* The registry implements the abstract membership: each call is a join, a *)
(* leave, an expiry or nothing.                                            *)
ImplementsMembership == Membership!MSpec

===============================================================================
