---------------------------- MODULE StreamEndsProofs ---------------------------
(***************************************************************************)
(* Theorems about the two ends of a stream: the connection handlers of the *)
(* gateway, for any number of connections, tokens, bridges and roles taken,*)
(* any limits, with and without the fallback; and the threads of the       *)
(* client, for queues of any size and any number of chunks and turns.      *)
(***************************************************************************)
EXTENDS GatewayStream, StreamingClient, FiniteSetTheorems, SequenceTheorems, TLAPS

-------------------------------------------------------------------------------
(* The connection handlers of the gateway.                                 *)

Places == {"new", "refused", "accepting", "lost", "ended"} \cup InRun \cup AfterRun

GatewayTypes ==
  /\ pc \in [Handler -> Places]
  /\ token \in [Handler -> Token]
  /\ total \in Nat
  /\ byToken \in [Token -> Nat]
  /\ seat \in [Handler -> Seat \cup {NoSeat}]
  /\ provider \in [Handler -> {"none", "livetranslate", "modular"}]
  /\ cleaned \in [Handler -> BOOLEAN]
  /\ switches \in [Handler -> {0, 1}]
  /\ claim \in [Handler -> Roster!Party \cup {NoClaim}]
  /\ closed \in [Handler -> BOOLEAN]
  /\ counted \in [Handler -> BOOLEAN]
  /\ active \in Nat
  /\ fired \in [Handler -> BOOLEAN]
  /\ unwinding \in [Handler -> BOOLEAN]
  /\ parties \subseteq Roster!Party

(* What is known of a handler by the await it is suspended at.             *)
Untouched(h) == ~closed[h] /\ ~counted[h] /\ switches[h] = 0

Upstream(h) == provider[h] = "livetranslate" /\ counted[h] /\ switches[h] = 0

Fresh(h) == ~cleaned[h] /\ ~fired[h] /\ ~unwinding[h]

HandlerInv(h) ==
  /\ pc[h] \in {"new", "refused", "accepting", "lost", "waiting_start"} =>
       Untouched(h) /\ Fresh(h) /\ provider[h] = "none" /\ claim[h] = NoClaim
  /\ pc[h] = "opening" => Untouched(h) /\ Fresh(h) /\ provider[h] = "livetranslate"
  /\ pc[h] = "handshake" => Upstream(h) /\ Fresh(h) /\ ~closed[h]
  /\ pc[h] = "start_closing" => Upstream(h) /\ Fresh(h) /\ closed[h]
  /\ pc[h] \in {"serving", "finishing", "reporting", "joining"} =>
       /\ ~cleaned[h] /\ ~unwinding[h]
       /\ \/ Upstream(h) /\ ~closed[h]
          \/ provider[h] = "modular" /\ ~counted[h]
  /\ pc[h] \in {"serving", "finishing"} => ~fired[h]
  /\ pc[h] = "stopping" => cleaned[h] /\ Upstream(h) /\ ~closed[h]
  /\ pc[h] = "closing" =>
       /\ cleaned[h]
       /\ \/ Upstream(h) /\ closed[h]
          \/ provider[h] = "modular" /\ ~counted[h]
  /\ pc[h] = "route_error" => ~counted[h] /\ ~unwinding[h]
  /\ pc[h] \in {"timeout_error", "cleanup"} /\ counted[h] =>
       Upstream(h) /\ fired[h] /\ ~unwinding[h] /\ (cleaned[h] => closed[h])
  /\ pc[h] = "late_closing" => closed[h] /\ Upstream(h)
  /\ pc[h] \in {"releasing", "ended"} /\ counted[h] => fired[h] /\ closed[h] /\ ~unwinding[h]
  /\ switches[h] = 1 => closed[h] /\ ~counted[h]
  /\ unwinding[h] => fired[h]
  /\ pc[h] = "ended" => claim[h] = NoClaim

(* A start-up failure puts the other pipeline into service once, or is     *)
(* reported.                                                               *)
LEMMA FallsBackOrFails ==
  ASSUME GatewayTypes, NEW h \in Handler, StartupFailed(h)
  PROVE  \/ /\ switches[h] = 0
            /\ provider' = [provider EXCEPT ![h] = "modular"]
            /\ switches' = [switches EXCEPT ![h] = 1]
            /\ cleaned' = [cleaned EXCEPT ![h] = FALSE]
            /\ pc' = [pc EXCEPT ![h] = "serving"]
         \/ /\ UNCHANGED <<provider, switches>>
            /\ cleaned' = [cleaned EXCEPT ![h] = TRUE]
            /\ pc' = [pc EXCEPT ![h] = "route_error"]
<1>1. CASE FallbackToModular /\ switches[h] = 0
  <2>1. switches' = [switches EXCEPT ![h] = 1]
    BY <1>1 DEF StartupFailed, GatewayTypes
  <2>2. QED
    BY <1>1, <2>1 DEF StartupFailed, Goto
<1>2. CASE ~(FallbackToModular /\ switches[h] = 0)
  BY <1>2 DEF StartupFailed, Goto
<1>3. QED
  BY <1>1, <1>2

(* What session.start comes to: a pipeline without a bridge or with a      *)
(* party of its own in one, or a refusal.                                  *)
Routed(h, p) ==
  /\ pc[h] = "waiting_start"
  /\ provider' = [provider EXCEPT ![h] = p]
  /\ UNCHANGED <<token, slotVars, cleaned, switches, upstreamVars, deadlineVars>>
  /\ \/ /\ pc' = [pc EXCEPT ![h] = FirstAwait(p)]
        /\ \/ UNCHANGED <<claim, parties>>
           \/ \E B \in SUBSET Bridge, party \in Roster!Party :
                /\ Roster!Join(B, party)
                /\ party.session = <<h, 0>>
                /\ claim' = [claim EXCEPT ![h] = party]
     \/ /\ pc' = [pc EXCEPT ![h] = "route_error"]
        /\ UNCHANGED claim
        /\ \E B \in SUBSET Bridge : Roster!Expire(B)

LEMMA RouteOutcome ==
  ASSUME GatewayTypes, NEW h \in Handler, NEW p \in {"livetranslate", "modular"},
         NEW st \in Seat \cup {NoSeat}, RouteStart(h, p, st)
  PROVE  Routed(h, p)
<1>1. CASE st = NoSeat
  BY <1>1 DEF RouteStart, Routed, At, Goto
<1>2. CASE st # NoSeat
  <2> DEFINE party == [bridge |-> st.bridge, role |-> st.role,
                       token |-> token[h], session |-> <<h, 0>>]
  <2>1. party \in Roster!Party /\ party.session = <<h, 0>>
    <3>1. st \in Seat
      BY <1>2
    <3>2. st.bridge \in Bridge /\ st.role \in Roster!Role /\ <<h, 0>> \in SessionId
      BY <3>1 DEF Seat, SessionId, Role, Roster!Role
    <3>3. QED
      BY <3>2 DEF Roster!Party, GatewayTypes
  <2> HIDE DEF party
  <2>2. PICK B \in SUBSET Bridge :
          \/ /\ Roster!Join(B, party)
             /\ claim' = [claim EXCEPT ![h] = party]
             /\ Goto(h, FirstAwait(p))
          \/ /\ ~Roster!Admissible(Roster!Survivors(parties, B), party)
             /\ Roster!Expire(B)
             /\ Goto(h, "route_error")
             /\ UNCHANGED claim
    BY <1>2 DEF RouteStart, party
  <2>3. QED
    BY <2>1, <2>2 DEF RouteStart, Routed, At, Goto
<1>3. QED
  BY <1>1, <1>2

LEMMA RouteTypes ==
  ASSUME GatewayTypes, NEW h \in Handler, NEW p \in {"livetranslate", "modular"},
         NEW st \in Seat \cup {NoSeat}, RouteStart(h, p, st)
  PROVE  GatewayTypes'
<1>1. Routed(h, p)
  BY RouteOutcome
<1>2. pc' \in [Handler -> Places]
  BY <1>1 DEF Routed, FirstAwait, GatewayTypes, Places, InRun, AfterRun
<1>3. claim' \in [Handler -> Roster!Party \cup {NoClaim}] /\ parties' \subseteq Roster!Party
  <2>1. claim \in [Handler -> Roster!Party \cup {NoClaim}] /\ parties \subseteq Roster!Party
    BY DEF GatewayTypes
  <2>2. CASE UNCHANGED <<claim, parties>>
    BY <2>1, <2>2
  <2>3. ASSUME NEW B \in SUBSET Bridge, NEW party \in Roster!Party,
               Roster!Join(B, party), claim' = [claim EXCEPT ![h] = party]
        PROVE  /\ claim' \in [Handler -> Roster!Party \cup {NoClaim}]
               /\ parties' \subseteq Roster!Party
    BY <2>1, <2>3 DEF Roster!Join, Roster!Survivors
  <2>4. ASSUME NEW B \in SUBSET Bridge, Roster!Expire(B), UNCHANGED claim
        PROVE  /\ claim' \in [Handler -> Roster!Party \cup {NoClaim}]
               /\ parties' \subseteq Roster!Party
    BY <2>1, <2>4 DEF Roster!Expire, Roster!Survivors
  <2>5. QED
    BY <1>1, <2>2, <2>3, <2>4 DEF Routed
<1>4. seat' \in [Handler -> Seat \cup {NoSeat}] /\ provider' \in [Handler -> {"none", "livetranslate", "modular"}]
  BY DEF RouteStart, GatewayTypes
<1>5. QED
  BY <1>1, <1>2, <1>3, <1>4 DEF Routed, GatewayTypes, slotVars, upstreamVars, deadlineVars

(* The start-up is given up: nothing is open any more, or the close that   *)
(* the failure began is over.                                              *)
LEMMA StartupTypes ==
  ASSUME GatewayTypes, NEW h \in Handler, Open(h) \/ StartClosed(h)
  PROVE  GatewayTypes'
<1> USE DEF GatewayTypes
<1>1. active' \in Nat /\ counted' \in [Handler -> BOOLEAN] /\ closed' \in [Handler -> BOOLEAN]
  <2>1. CASE Open(h)
    <3>1. /\ counted' = counted \/ counted' = [counted EXCEPT ![h] = TRUE]
          /\ closed' = closed \/ closed' = [closed EXCEPT ![h] = TRUE]
          /\ active' = active \/ active' = active + 1
      BY <2>1 DEF Open, upstreamVars
    <3>2. counted' \in [Handler -> BOOLEAN]
      BY <3>1
    <3>3. closed' \in [Handler -> BOOLEAN]
      BY <3>1
    <3>4. active' \in Nat
      BY <3>1
    <3>5. QED
      BY <3>2, <3>3, <3>4
  <2>2. CASE StartClosed(h)
    BY <2>2 DEF StartClosed, Uncount
  <2>3. QED
    BY <2>1, <2>2
<1>2. \/ pc' = [pc EXCEPT ![h] = "handshake"] /\ UNCHANGED pipelineVars
      \/ StartupFailed(h)
  BY DEF Open, StartClosed, Goto
<1>3. /\ pc' \in [Handler -> Places]
      /\ provider' \in [Handler -> {"none", "livetranslate", "modular"}]
      /\ cleaned' \in [Handler -> BOOLEAN]
      /\ switches' \in [Handler -> {0, 1}]
  BY <1>2, FallsBackOrFails DEF pipelineVars, Places, InRun, AfterRun
<1>4. UNCHANGED <<token, slotVars, deadlineVars, routeVars>>
  BY DEF Open, StartClosed
<1>5. QED
  BY <1>1, <1>3, <1>4 DEF slotVars, deadlineVars, routeVars

LEMMA StepTypes ==
  ASSUME GatewayTypes, NEW h \in Handler, Step(h) \/ Deadline(h)
  PROVE  GatewayTypes'
<1> USE DEF GatewayTypes, Places, InRun, AfterRun, At, Goto, slotVars, pipelineVars, upstreamVars,
            deadlineVars, routeVars
<1>1. CASE Acquire(h)
  BY <1>1 DEF Acquire
<1>2. CASE Accept(h)
  BY <1>2 DEF Accept
<1>3. CASE RejectStart(h)
  BY <1>3 DEF RejectStart
<1>4. CASE Open(h)
  BY <1>4, StartupTypes
<1>5. CASE Handshake(h)
  BY <1>5 DEF Handshake
<1>6. CASE StartClosed(h)
  BY <1>6, StartupTypes
<1>7. CASE LeaveService(h)
  BY <1>7 DEF LeaveService, BeginCleanup
<1>8. CASE Finish(h)
  BY <1>8 DEF Finish
<1>9. CASE Joined(h)
  BY <1>9 DEF Joined
<1>10. CASE Report(h)
  BY <1>10 DEF Report, BeginCleanup
<1>11. CASE Stopped(h)
  BY <1>11 DEF Stopped
<1>12. CASE Close(h)
  BY <1>12 DEF Close, Uncount
<1>13. CASE ErrorSent(h)
  BY <1>13 DEF ErrorSent
<1>14. CASE Cleanup(h)
  BY <1>14 DEF Cleanup
<1>15. CASE LateClosed(h)
  BY <1>15 DEF LateClosed, Uncount
<1>16. CASE GiveBack(h)
  BY <1>16 DEF GiveBack, ReleaseSeat, ReleaseSlot
<1>17. CASE Deadline(h)
  BY <1>17 DEF Deadline, BeginCleanup
<1>18. ASSUME NEW p \in {"livetranslate", "modular"}, NEW st \in Seat \cup {NoSeat}, RouteStart(h, p, st)
      PROVE  GatewayTypes'
  BY <1>18, RouteTypes
<1>19. QED
  BY <1>1, <1>2, <1>3, <1>4, <1>5, <1>6, <1>7, <1>8, <1>9, <1>10, <1>11, <1>12, <1>13, <1>14, <1>15, <1>16, <1>17, <1>18 DEF Step

(* A handler's step is its own: it changes nothing of another handler.     *)
Same(k) ==
  /\ pc'[k] = pc[k] /\ token'[k] = token[k]
  /\ provider'[k] = provider[k] /\ cleaned'[k] = cleaned[k] /\ switches'[k] = switches[k]
  /\ claim'[k] = claim[k]
  /\ closed'[k] = closed[k] /\ counted'[k] = counted[k]
  /\ fired'[k] = fired[k] /\ unwinding'[k] = unwinding[k]

LEMMA StepIsItsOwn ==
  ASSUME GatewayTypes, NEW h \in Handler, NEW k \in Handler, k # h, Step(h) \/ Deadline(h)
  PROVE  Same(k)
<1> USE DEF GatewayTypes, Same, At, Goto, slotVars, pipelineVars, upstreamVars, deadlineVars, routeVars
<1>1. CASE Acquire(h)
  BY <1>1 DEF Acquire
<1>2. CASE Accept(h)
  BY <1>2 DEF Accept
<1>3. CASE RejectStart(h)
  BY <1>3 DEF RejectStart
<1>4. CASE Open(h)
  BY <1>4 DEF Open, StartupFailed
<1>5. CASE Handshake(h)
  BY <1>5 DEF Handshake
<1>6. CASE StartClosed(h)
  BY <1>6 DEF StartClosed, StartupFailed, Uncount
<1>7. CASE LeaveService(h)
  BY <1>7 DEF LeaveService, BeginCleanup
<1>8. CASE Finish(h)
  BY <1>8 DEF Finish
<1>9. CASE Joined(h)
  BY <1>9 DEF Joined
<1>10. CASE Report(h)
  BY <1>10 DEF Report, BeginCleanup
<1>11. CASE Stopped(h)
  BY <1>11 DEF Stopped
<1>12. CASE Close(h)
  BY <1>12 DEF Close, Uncount
<1>13. CASE ErrorSent(h)
  BY <1>13 DEF ErrorSent
<1>14. CASE Cleanup(h)
  BY <1>14 DEF Cleanup
<1>15. CASE LateClosed(h)
  BY <1>15 DEF LateClosed, Uncount
<1>16. CASE GiveBack(h)
  BY <1>16 DEF GiveBack, ReleaseSeat, ReleaseSlot
<1>17. CASE Deadline(h)
  BY <1>17 DEF Deadline, BeginCleanup
<1>18. ASSUME NEW p \in {"livetranslate", "modular"}, NEW st \in Seat \cup {NoSeat}, RouteStart(h, p, st)
      PROVE  Same(k)
  BY <1>18, RouteOutcome DEF Routed
<1>19. QED
  BY <1>1, <1>2, <1>3, <1>4, <1>5, <1>6, <1>7, <1>8, <1>9, <1>10, <1>11, <1>12, <1>13, <1>14, <1>15, <1>16, <1>17, <1>18 DEF Step

(* What is known of a handler survives its own steps.                      *)
LEMMA OwnStep ==
  ASSUME GatewayTypes, NEW h \in Handler, HandlerInv(h), Step(h) \/ Deadline(h)
  PROVE  HandlerInv(h)'
<1> USE DEF GatewayTypes, HandlerInv, Untouched, Upstream, Fresh, At, Goto,
            slotVars, pipelineVars, upstreamVars, deadlineVars, routeVars
<1>1. CASE Acquire(h)
  BY <1>1 DEF Acquire
<1>2. CASE Accept(h)
  BY <1>2 DEF Accept
<1>3. CASE RejectStart(h)
  BY <1>3 DEF RejectStart
<1>4. CASE Open(h)
  BY <1>4 DEF Open, StartupFailed
<1>5. CASE Handshake(h)
  BY <1>5 DEF Handshake
<1>6. CASE StartClosed(h)
  BY <1>6 DEF StartClosed, StartupFailed, Uncount
<1>7. CASE LeaveService(h)
  BY <1>7 DEF LeaveService, BeginCleanup
<1>8. CASE Finish(h)
  BY <1>8 DEF Finish
<1>9. CASE Joined(h)
  BY <1>9 DEF Joined
<1>10. CASE Report(h)
  BY <1>10 DEF Report, BeginCleanup
<1>11. CASE Stopped(h)
  BY <1>11 DEF Stopped
<1>12. CASE Close(h)
  BY <1>12 DEF Close, Uncount
<1>13. CASE ErrorSent(h)
  BY <1>13 DEF ErrorSent
<1>14. CASE Cleanup(h)
  BY <1>14 DEF Cleanup
<1>15. CASE LateClosed(h)
  BY <1>15 DEF LateClosed, Uncount
<1>16. CASE GiveBack(h)
  BY <1>16 DEF GiveBack, ReleaseSeat, ReleaseSlot
<1>17. CASE Deadline(h)
  BY <1>17 DEF Deadline, BeginCleanup
<1>18. ASSUME NEW p \in {"livetranslate", "modular"}, NEW st \in Seat \cup {NoSeat}, RouteStart(h, p, st)
      PROVE  HandlerInv(h)'
  BY <1>18, RouteOutcome DEF Routed, FirstAwait
<1>19. QED
  BY <1>1, <1>2, <1>3, <1>4, <1>5, <1>6, <1>7, <1>8, <1>9, <1>10, <1>11, <1>12, <1>13, <1>14, <1>15, <1>16, <1>17, <1>18 DEF Step

(* Bridges expire without a handler's doing.                               *)
LEMMA ExpiryTypes ==
  ASSUME GatewayTypes, BridgeExpires \/ UNCHANGED gatewayVars
  PROVE  GatewayTypes' /\ \A k \in Handler : Same(k)
<1> USE DEF GatewayTypes, Same, BridgeExpires, Roster!Expire, Roster!Survivors,
            gatewayVars, slotVars, pipelineVars, upstreamVars, deadlineVars, routeVars
<1>1. GatewayTypes'
  OBVIOUS
<1>2. \A k \in Handler : Same(k)
  OBVIOUS
<1>3. QED
  BY <1>1, <1>2

LEMMA SameIsKept ==
  ASSUME NEW k \in Handler, HandlerInv(k), Same(k)
  PROVE  HandlerInv(k)'
BY DEF HandlerInv, Same, Untouched, Upstream, Fresh

GatewayInv == GatewayTypes /\ \A h \in Handler : HandlerInv(h)

LEMMA GatewayInvInit == GatewayInit => GatewayInv
<1>1. GatewayInit => GatewayTypes
  BY DEF GatewayInit, GatewayTypes, Places, Roster!MInit
<1>2. GatewayInit => \A h \in Handler : HandlerInv(h)
  BY DEF GatewayInit, HandlerInv, Untouched, Fresh, Upstream
<1>3. QED
  BY <1>1, <1>2 DEF GatewayInv

LEMMA GatewayInvNext ==
  ASSUME GatewayInv, [GatewayNext]_gatewayVars
  PROVE  GatewayInv'
<1>1. ASSUME NEW h \in Handler, Step(h) \/ Deadline(h)
      PROVE  GatewayInv'
  <2>1. ASSUME NEW k \in Handler
        PROVE  HandlerInv(k)'
    <3>1. CASE k = h
      BY <1>1, <3>1, OwnStep DEF GatewayInv
    <3>2. CASE k # h
      BY <1>1, <3>2, StepIsItsOwn, SameIsKept DEF GatewayInv
    <3>3. QED
      BY <3>1, <3>2
  <2>2. QED
    BY <1>1, <2>1, StepTypes DEF GatewayInv
<1>2. CASE BridgeExpires \/ UNCHANGED gatewayVars
  BY <1>2, ExpiryTypes, SameIsKept DEF GatewayInv
<1>3. QED
  BY <1>1, <1>2 DEF GatewayNext

(* At every await, what the handler has opened, given up and cleaned up,   *)
(* and whether the deadline has struck, is what the code after that await  *)
(* takes for granted; all variables have their types.                      *)
THEOREM HandlerInvariant == GatewaySpec => []GatewayInv
<1>1. GatewayInv /\ [GatewayNext]_gatewayVars => GatewayInv'
  BY GatewayInvNext
<1>2. QED
  BY <1>1, GatewayInvInit, PTL DEF GatewaySpec

(* A handler has ended only after its upstream connection was closed and   *)
(* taken off the count of active ones, except when the deadline struck     *)
(* while that very close was awaited.                                      *)
THEOREM UpstreamClosedTheorem == GatewaySpec => []UpstreamClosedByEnd
<1>1. GatewayInv => UpstreamClosedByEnd
  BY DEF GatewayInv, HandlerInv, UpstreamClosedByEnd
<1>2. QED
  BY <1>1, HandlerInvariant, PTL

(* The automatic switch to the modular pipeline happens after the upstream *)
(* of LiveTranslate was closed, so a client never has two pipelines.       *)
THEOREM OnePipelineTheorem == GatewaySpec => []OnePipelineAtATime
<1>1. GatewayInv => OnePipelineAtATime
  BY DEF GatewayInv, HandlerInv, OnePipelineAtATime
<1>2. QED
  BY <1>1, HandlerInvariant, PTL

(* Neither the fallback nor a deadline that finds the session anywhere in  *)
(* its start-up or clean-up puts a pipeline back into service.             *)
THEOREM NoServiceTheorem == GatewaySpec => NoServiceAfterCleanup
<1> DEFINE Kept(h) == (pc'[h] = "serving" /\ pc[h] # "serving") => ~fired'[h] /\ ~cleaned'[h]
<1>1. GatewayInv /\ GatewayInv' => \A h \in Handler : Kept(h)
  BY DEF GatewayInv, HandlerInv
<1>2. GatewaySpec => [][\A h \in Handler : Kept(h)]_gatewayVars
  BY <1>1, HandlerInvariant, PTL DEF GatewaySpec
<1>3. QED
  BY <1>2 DEF NoServiceAfterCleanup

-------------------------------------------------------------------------------
(* Bridge parties.                                                         *)

(* Only session.start and the release touch a handler's registration, and  *)
(* only between them may a handler leave the places where it has one.      *)
LEMMA ClaimIsKept ==
  ASSUME GatewayTypes, NEW h \in Handler, Step(h) \/ Deadline(h), ~GiveBack(h),
         \A p \in {"livetranslate", "modular"}, st \in Seat \cup {NoSeat} : ~RouteStart(h, p, st)
  PROVE  /\ UNCHANGED <<claim, parties>>
         /\ pc[h] \in InRun \cup AfterRun => pc'[h] \in InRun \cup AfterRun
<1> USE DEF GatewayTypes, InRun, AfterRun, At, Goto, routeVars
<1>1. CASE Acquire(h)
  BY <1>1 DEF Acquire
<1>2. CASE Accept(h)
  BY <1>2 DEF Accept
<1>3. CASE RejectStart(h)
  BY <1>3 DEF RejectStart
<1>4. CASE Open(h)
  BY <1>4 DEF Open, StartupFailed
<1>5. CASE Handshake(h)
  BY <1>5 DEF Handshake
<1>6. CASE StartClosed(h)
  BY <1>6 DEF StartClosed, StartupFailed
<1>7. CASE LeaveService(h)
  BY <1>7 DEF LeaveService, BeginCleanup
<1>8. CASE Finish(h)
  BY <1>8 DEF Finish
<1>9. CASE Joined(h)
  BY <1>9 DEF Joined
<1>10. CASE Report(h)
  BY <1>10 DEF Report, BeginCleanup
<1>11. CASE Stopped(h)
  BY <1>11 DEF Stopped
<1>12. CASE Close(h)
  BY <1>12 DEF Close
<1>13. CASE ErrorSent(h)
  BY <1>13 DEF ErrorSent
<1>14. CASE Cleanup(h)
  BY <1>14 DEF Cleanup
<1>15. CASE LateClosed(h)
  BY <1>15 DEF LateClosed
<1>16. CASE Deadline(h)
  BY <1>16 DEF Deadline, BeginCleanup
<1>17. QED
  BY <1>1, <1>2, <1>3, <1>4, <1>5, <1>6, <1>7, <1>8, <1>9, <1>10, <1>11, <1>12, <1>13, <1>14, <1>15, <1>16 DEF Step

LEMMA PartyStep ==
  ASSUME GatewayInv, PartyHasHandler, [GatewayNext]_gatewayVars
  PROVE  PartyHasHandler'
<1> SUFFICES ASSUME NEW p \in parties', NEW k, k = p.session[1]
             PROVE  claim'[k] = p /\ pc'[k] \in InRun \cup AfterRun
  BY DEF PartyHasHandler
<1>1. GatewayTypes /\ GatewayTypes'
  BY GatewayInvNext DEF GatewayInv
<1>2. k \in Handler /\ p # NoClaim
  BY <1>1, NoClaimAssumption DEF GatewayTypes, Roster!Party, SessionId
<1>3. ASSUME p \in parties
      PROVE  claim[k] = p /\ pc[k] \in InRun \cup AfterRun
  BY <1>3 DEF PartyHasHandler
<1>4. ASSUME p \in parties, Same(k)
      PROVE  claim'[k] = p /\ pc'[k] \in InRun \cup AfterRun
  BY <1>3, <1>4 DEF Same
<1>5. CASE BridgeExpires \/ UNCHANGED gatewayVars
  <2>1. p \in parties
    BY <1>5 DEF BridgeExpires, Roster!Expire, Roster!Survivors, gatewayVars, routeVars
  <2>2. QED
    BY <1>1, <1>2, <1>4, <1>5, <2>1, ExpiryTypes
<1>6. ASSUME NEW h \in Handler, GiveBack(h)
      PROVE  claim'[k] = p /\ pc'[k] \in InRun \cup AfterRun
  <2>1. p \in parties /\ p # claim[h]
    BY <1>6 DEF GiveBack, ReleaseSeat
  <2>2. k # h
    BY <1>3, <2>1
  <2>3. QED
    BY <1>1, <1>2, <1>4, <1>6, <2>1, <2>2, StepIsItsOwn DEF Step
<1>7. ASSUME NEW h \in Handler, NEW q \in {"livetranslate", "modular"},
             NEW st \in Seat \cup {NoSeat}, RouteStart(h, q, st)
      PROVE  claim'[k] = p /\ pc'[k] \in InRun \cup AfterRun
  <2>1. Routed(h, q)
    BY <1>1, <1>7, RouteOutcome
  <2>2. claim[h] = NoClaim
    BY <2>1 DEF Routed, GatewayInv, HandlerInv
  <2>3. CASE p \in parties
    <3>1. k # h
      BY <1>2, <1>3, <2>2, <2>3
    <3>2. QED
      BY <1>1, <1>2, <1>4, <1>7, <2>3, <3>1, StepIsItsOwn DEF Step
  <2>4. CASE p \notin parties
    <3>1. /\ pc' = [pc EXCEPT ![h] = FirstAwait(q)]
          /\ p.session = <<h, 0>> /\ claim' = [claim EXCEPT ![h] = p]
      BY <2>1, <2>4 DEF Routed, Roster!Join, Roster!Expire, Roster!Survivors
    <3>2. k = h
      BY <3>1
    <3>3. QED
      BY <1>1, <3>1, <3>2 DEF GatewayTypes, FirstAwait, InRun
  <2>5. QED
    BY <2>3, <2>4
<1>8. ASSUME NEW h \in Handler, Step(h) \/ Deadline(h), ~GiveBack(h),
             \A q \in {"livetranslate", "modular"}, st \in Seat \cup {NoSeat} : ~RouteStart(h, q, st)
      PROVE  claim'[k] = p /\ pc'[k] \in InRun \cup AfterRun
  <2>1. p \in parties /\ claim'[k] = p
    BY <1>1, <1>3, <1>8, ClaimIsKept
  <2>2. CASE k = h
    BY <1>1, <1>3, <1>8, <2>1, <2>2, ClaimIsKept
  <2>3. CASE k # h
    BY <1>1, <1>2, <1>4, <1>8, <2>1, <2>3, StepIsItsOwn
  <2>4. QED
    BY <2>2, <2>3
<1>9. QED
  BY <1>5, <1>6, <1>7, <1>8 DEF GatewayNext

(* A bridge has no party whose handler is gone, whichever pipeline ended   *)
(* up serving it, whatever ended it, and even if the record expired and    *)
(* was opened again in between.                                            *)
THEOREM PartyHasHandlerTheorem == GatewaySpec => []PartyHasHandler
<1>1. GatewayInit => PartyHasHandler
  BY DEF GatewayInit, Roster!MInit, PartyHasHandler
<1>2. GatewayInv /\ PartyHasHandler /\ [GatewayNext]_gatewayVars => PartyHasHandler'
  BY PartyStep
<1>3. QED
  BY <1>1, <1>2, HandlerInvariant, PTL DEF GatewaySpec

(* Seen from the bridges, the gateway is the abstract membership: every    *)
(* step of a handler is a join, a withdrawal, an expiry or none of them.   *)
THEOREM RosterTheorem == GatewaySpec => Roster!MSpec
<1>1. GatewayInit => Roster!MInit
  BY DEF GatewayInit
<1>2. GatewayInv /\ [GatewayNext]_gatewayVars => [Roster!MNext]_parties
  <2> SUFFICES ASSUME GatewayInv, [GatewayNext]_gatewayVars
               PROVE  Roster!MNext \/ UNCHANGED parties
    OBVIOUS
  <2>1. ASSUME NEW h \in Handler, GiveBack(h)
        PROVE  Roster!MNext \/ UNCHANGED parties
    <3>1. parties' = parties \ {claim[h]}
      BY <2>1 DEF GiveBack, ReleaseSeat
    <3>2. CASE claim[h] \in parties
      <4>1. claim[h] \in Roster!Party
        BY <3>2 DEF GatewayInv, GatewayTypes
      <4>2. QED
        BY <3>1, <3>2, <4>1 DEF Roster!MNext, Roster!Leave
    <3>3. QED
      BY <3>1, <3>2
  <2>2. ASSUME NEW h \in Handler, NEW q \in {"livetranslate", "modular"},
               NEW st \in Seat \cup {NoSeat}, RouteStart(h, q, st)
        PROVE  Roster!MNext \/ UNCHANGED parties
    <3>1. Routed(h, q)
      BY <2>2, RouteOutcome DEF GatewayInv
    <3>2. QED
      BY <3>1 DEF Routed, Roster!MNext
  <2>3. ASSUME NEW h \in Handler, Step(h) \/ Deadline(h), ~GiveBack(h),
               \A q \in {"livetranslate", "modular"}, st \in Seat \cup {NoSeat} : ~RouteStart(h, q, st)
        PROVE  UNCHANGED parties
    BY <2>3, ClaimIsKept DEF GatewayInv
  <2>4. CASE BridgeExpires
    BY <2>4 DEF BridgeExpires, Roster!MNext
  <2>5. CASE UNCHANGED gatewayVars
    BY <2>5 DEF gatewayVars, routeVars
  <2>6. QED
    BY <2>1, <2>2, <2>3, <2>4, <2>5 DEF GatewayNext
<1>3. QED
  BY <1>1, <1>2, HandlerInvariant, PTL DEF GatewaySpec, Roster!MSpec

RosterProofs == INSTANCE BridgeMembershipProofs WITH Session <- SessionId

(* Two handlers never hold one role of a bridge, the handlers of two       *)
(* tokens never share one, and no token exceeds its limit of bridges.      *)
THEOREM SeatsTheorem == GatewaySpec => [](Roster!OneHolderPerRole /\ Roster!WithinLimit)
<1>1. Roster!MInit => RosterProofs!MInit
  BY DEF Roster!MInit, RosterProofs!MInit
<1>2. [Roster!MNext]_parties => [RosterProofs!MNext]_parties
  BY DEF Roster!MNext, Roster!Join, Roster!Leave, Roster!Expire, Roster!Survivors,
     Roster!Party, Roster!Role, Roster!Admissible, Roster!On, Roster!BridgesOf,
     RosterProofs!MNext, RosterProofs!Join, RosterProofs!Leave, RosterProofs!Expire,
     RosterProofs!Survivors, RosterProofs!Party, RosterProofs!Role, RosterProofs!Admissible,
     RosterProofs!On, RosterProofs!BridgesOf, Roster!Cardinality, RosterProofs!Cardinality,
     Roster!IsFiniteSet, RosterProofs!IsFiniteSet
<1>3. RosterProofs!OneHolderPerRole => Roster!OneHolderPerRole
  BY DEF RosterProofs!OneHolderPerRole, Roster!OneHolderPerRole
<1>4. RosterProofs!WithinLimit => Roster!WithinLimit
  BY DEF RosterProofs!WithinLimit, Roster!WithinLimit, Roster!BridgesOf, RosterProofs!BridgesOf,
     Roster!Cardinality, RosterProofs!Cardinality, Roster!IsFiniteSet, RosterProofs!IsFiniteSet
<1>5. RosterProofs!MembershipConstants
  BY GatewayAssumption DEF RosterProofs!MembershipConstants, RosterProofs!IsFiniteSet, IsFiniteSet
<1>6. Roster!MSpec => RosterProofs!MSpec
  BY <1>1, <1>2, PTL DEF Roster!MSpec, RosterProofs!MSpec
<1>7. QED
  BY <1>3, <1>4, <1>5, <1>6, RosterTheorem, RosterProofs!OneHolderTheorem,
     RosterProofs!WithinLimitTheorem, PTL

-------------------------------------------------------------------------------
(* The slots of the connection registry.                                   *)

Holders == {h \in Handler : HoldsSlot(h)}
HoldersOf(t) == {h \in Handler : HoldsSlot(h) /\ token[h] = t}

(* A slot is taken by acquire, given back at the end and kept in between.  *)
LEMMA SlotIsKept ==
  ASSUME GatewayTypes, NEW h \in Handler, Step(h) \/ Deadline(h), ~GiveBack(h), ~Acquire(h)
  PROVE  UNCHANGED slotVars /\ HoldsSlot(h)' = HoldsSlot(h)
<1> USE DEF GatewayTypes, HoldsSlot, InRun, AfterRun, At, Goto, slotVars
<1>1. CASE Accept(h)
  BY <1>1 DEF Accept
<1>2. CASE RejectStart(h)
  BY <1>2 DEF RejectStart
<1>3. CASE Open(h)
  BY <1>3 DEF Open, StartupFailed
<1>4. CASE Handshake(h)
  BY <1>4 DEF Handshake
<1>5. CASE StartClosed(h)
  BY <1>5 DEF StartClosed, StartupFailed
<1>6. CASE LeaveService(h)
  BY <1>6 DEF LeaveService, BeginCleanup
<1>7. CASE Finish(h)
  BY <1>7 DEF Finish
<1>8. CASE Joined(h)
  BY <1>8 DEF Joined
<1>9. CASE Report(h)
  BY <1>9 DEF Report, BeginCleanup
<1>10. CASE Stopped(h)
  BY <1>10 DEF Stopped
<1>11. CASE Close(h)
  BY <1>11 DEF Close
<1>12. CASE ErrorSent(h)
  BY <1>12 DEF ErrorSent
<1>13. CASE Cleanup(h)
  BY <1>13 DEF Cleanup
<1>14. CASE LateClosed(h)
  BY <1>14 DEF LateClosed
<1>15. CASE Deadline(h)
  BY <1>15 DEF Deadline, BeginCleanup
<1>16. ASSUME NEW p \in {"livetranslate", "modular"}, NEW st \in Seat \cup {NoSeat}, RouteStart(h, p, st)
      PROVE  UNCHANGED slotVars /\ HoldsSlot(h)' = HoldsSlot(h)
  BY <1>16, RouteOutcome DEF Routed, FirstAwait
<1>17. QED
  BY <1>1, <1>2, <1>3, <1>4, <1>5, <1>6, <1>7, <1>8, <1>9, <1>10, <1>11, <1>12, <1>13, <1>14, <1>15, <1>16 DEF Step

(* One more or one fewer in a set of handlers.                             *)
LEMMA HandlersCounted ==
  ASSUME NEW S \in SUBSET Handler, NEW h \in Handler
  PROVE  /\ Cardinality(S) \in Nat
         /\ h \notin S => Cardinality(S \cup {h}) = Cardinality(S) + 1
         /\ h \in S => Cardinality(S) > 0 /\ Cardinality(S \ {h}) = Cardinality(S) - 1
<1>1. IsFiniteSet(S) /\ IsFiniteSet(S \ {h})
  BY GatewayAssumption, FS_Subset
<1>2. Cardinality(S) \in Nat /\ Cardinality(S \ {h}) \in Nat
  BY <1>1, FS_CardinalityType
<1>3. h \notin S => Cardinality(S \cup {h}) = Cardinality(S) + 1
  BY <1>1, FS_AddElement
<1>4. h \in S => Cardinality(S \ {h}) = Cardinality(S) - 1
  BY <1>1, FS_RemoveElement
<1>5. QED
  BY <1>2, <1>3, <1>4

LEMMA SlotsAsSets ==
  SlotsAreHandlers <=>
    /\ total = Cardinality(Holders) /\ total <= TotalLimit
    /\ \A t \in Token : byToken[t] = Cardinality(HoldersOf(t)) /\ byToken[t] <= PerTokenLimit
BY DEF SlotsAreHandlers, Holders, HoldersOf

LEMMA SlotStep ==
  ASSUME GatewayInv, SlotsAreHandlers, [GatewayNext]_gatewayVars
  PROVE  SlotsAreHandlers'
<1>1. GatewayTypes /\ GatewayTypes'
  BY GatewayInvNext DEF GatewayInv
<1>2. /\ total = Cardinality(Holders) /\ total <= TotalLimit
      /\ \A t \in Token : byToken[t] = Cardinality(HoldersOf(t)) /\ byToken[t] <= PerTokenLimit
  BY SlotsAsSets
<1>3. SUFFICES /\ total' = Cardinality(Holders') /\ total' <= TotalLimit
               /\ \A t \in Token : byToken'[t] = Cardinality(HoldersOf(t)') /\ byToken'[t] <= PerTokenLimit
  BY DEF SlotsAreHandlers, Holders, HoldersOf
<1>4. ASSUME UNCHANGED slotVars, \A k \in Handler : HoldsSlot(k)' = HoldsSlot(k) /\ token'[k] = token[k]
      PROVE  /\ total' = Cardinality(Holders') /\ total' <= TotalLimit
             /\ \A t \in Token : byToken'[t] = Cardinality(HoldersOf(t)') /\ byToken'[t] <= PerTokenLimit
  <2>1. Holders' = Holders /\ \A t \in Token : HoldersOf(t)' = HoldersOf(t)
    BY <1>4 DEF Holders, HoldersOf
  <2>2. QED
    BY <1>2, <1>4, <2>1 DEF slotVars
<1>5. ASSUME NEW h \in Handler, Step(h) \/ Deadline(h), NEW k \in Handler, k # h
      PROVE  HoldsSlot(k)' = HoldsSlot(k) /\ token'[k] = token[k]
  BY <1>1, <1>5, StepIsItsOwn DEF Same, HoldsSlot
<1>6. ASSUME NEW h \in Handler, Acquire(h), pc'[h] = "accepting"
      PROVE  /\ total' = Cardinality(Holders') /\ total' <= TotalLimit
             /\ \A t \in Token : byToken'[t] = Cardinality(HoldersOf(t)') /\ byToken'[t] <= PerTokenLimit
  <2>1. /\ total < TotalLimit /\ byToken[token[h]] < PerTokenLimit /\ total' = total + 1
        /\ byToken' = [byToken EXCEPT ![token[h]] = @ + 1]
        /\ token' = token /\ pc[h] = "new"
    BY <1>1, <1>6 DEF Acquire, At, Goto, GatewayTypes
  <2>2. ~HoldsSlot(h) /\ HoldsSlot(h)'
    BY <1>6, <2>1 DEF HoldsSlot, InRun, AfterRun
  <2>3. /\ Holders' = Holders \cup {h} /\ h \notin Holders
        /\ \A t \in Token : t # token[h] => HoldersOf(t)' = HoldersOf(t)
        /\ HoldersOf(token[h])' = HoldersOf(token[h]) \cup {h} /\ h \notin HoldersOf(token[h])
    BY <1>5, <1>6, <2>1, <2>2 DEF Holders, HoldersOf, Step
  <2>4. Holders \subseteq Handler /\ \A t \in Token : HoldersOf(t) \subseteq Handler
    BY DEF Holders, HoldersOf
  <2>5. token[h] \in Token
    BY <1>1 DEF GatewayTypes
  <2>6. Cardinality(Holders') = total' /\ total' <= TotalLimit
    <3>1. Cardinality(Holders \cup {h}) = total + 1
      BY <1>2, <2>3, <2>4, HandlersCounted
    <3>2. QED
      BY <1>1, <2>1, <2>3, <3>1, GatewayAssumption DEF GatewayTypes
  <2>7. /\ Cardinality(HoldersOf(token[h])') = byToken'[token[h]]
        /\ byToken'[token[h]] <= PerTokenLimit
    <3>1. byToken'[token[h]] = byToken[token[h]] + 1 /\ byToken[token[h]] \in Nat
      BY <1>1, <2>1, <2>5 DEF GatewayTypes
    <3>2. Cardinality(HoldersOf(token[h]) \cup {h}) = Cardinality(HoldersOf(token[h])) + 1
      BY <2>3, <2>4, <2>5, HandlersCounted
    <3>3. HoldersOf(token[h])' = HoldersOf(token[h]) \cup {h}
      BY <2>3
    <3>4. Cardinality(HoldersOf(token[h])') = byToken[token[h]] + 1
      BY <1>2, <2>5, <3>2, <3>3
    <3>5. QED
      BY <2>1, <3>1, <3>4, GatewayAssumption
  <2>8. ASSUME NEW t \in Token, t # token[h]
        PROVE  byToken'[t] = Cardinality(HoldersOf(t)') /\ byToken'[t] <= PerTokenLimit
    BY <1>1, <1>2, <2>1, <2>3, <2>8 DEF GatewayTypes
  <2>9. QED
    BY <2>1, <2>6, <2>7, <2>8
<1>7. ASSUME NEW h \in Handler, GiveBack(h)
      PROVE  /\ total' = Cardinality(Holders') /\ total' <= TotalLimit
             /\ \A t \in Token : byToken'[t] = Cardinality(HoldersOf(t)') /\ byToken'[t] <= PerTokenLimit
  <2>1. /\ pc[h] = "releasing" /\ pc'[h] = "ended" /\ token' = token /\ ReleaseSlot(h)
    BY <1>1, <1>7 DEF GiveBack, At, Goto, GatewayTypes
  <2>2. HoldsSlot(h) /\ ~HoldsSlot(h)'
    BY <2>1 DEF HoldsSlot, InRun, AfterRun
  <2>3. /\ Holders' = Holders \ {h} /\ h \in Holders
        /\ \A t \in Token : t # token[h] => HoldersOf(t)' = HoldersOf(t)
        /\ HoldersOf(token[h])' = HoldersOf(token[h]) \ {h} /\ h \in HoldersOf(token[h])
    BY <1>5, <1>7, <2>1, <2>2 DEF Holders, HoldersOf, Step
  <2>4. Holders \subseteq Handler /\ \A t \in Token : HoldersOf(t) \subseteq Handler
    BY DEF Holders, HoldersOf
  <2>5. token[h] \in Token
    BY <1>1 DEF GatewayTypes
  <2>6. Cardinality(Holders') = total' /\ total' <= TotalLimit
    <3>1. total > 0 /\ Cardinality(Holders') = total - 1
      BY <1>2, <2>3, <2>4, HandlersCounted
    <3>2. total' = total - 1
      BY <2>1, <3>1 DEF ReleaseSlot
    <3>3. QED
      BY <1>1, <1>2, <3>1, <3>2, GatewayAssumption DEF GatewayTypes
  <2>7. /\ Cardinality(HoldersOf(token[h])') = byToken'[token[h]]
        /\ byToken'[token[h]] <= PerTokenLimit
    <3>1. HoldersOf(token[h])' = HoldersOf(token[h]) \ {h}
      BY <2>3
    <3>2. /\ Cardinality(HoldersOf(token[h])) > 0
          /\ Cardinality(HoldersOf(token[h])') = Cardinality(HoldersOf(token[h])) - 1
      BY <2>3, <2>4, <2>5, <3>1, HandlersCounted
    <3>3. byToken[token[h]] > 0 /\ Cardinality(HoldersOf(token[h])') = byToken[token[h]] - 1
      BY <1>2, <2>5, <3>2
    <3>4. byToken'[token[h]] = byToken[token[h]] - 1 /\ byToken[token[h]] \in Nat
      BY <1>1, <2>1, <2>5, <3>3 DEF ReleaseSlot, GatewayTypes
    <3>5. QED
      BY <1>2, <2>5, <3>3, <3>4, GatewayAssumption
  <2>8. ASSUME NEW t \in Token, t # token[h]
        PROVE  byToken'[t] = Cardinality(HoldersOf(t)') /\ byToken'[t] <= PerTokenLimit
    BY <1>1, <1>2, <2>1, <2>3, <2>8 DEF GatewayTypes, ReleaseSlot
  <2>9. QED
    BY <2>1, <2>6, <2>7, <2>8
<1>8. CASE \E h \in Handler : Acquire(h) /\ pc'[h] # "accepting"
  <2>1. PICK h \in Handler : Acquire(h) /\ pc'[h] # "accepting"
    BY <1>8
  <2>2. UNCHANGED slotVars /\ token' = token /\ HoldsSlot(h)' = HoldsSlot(h)
    BY <1>1, <2>1 DEF Acquire, At, Goto, GatewayTypes, HoldsSlot, InRun, AfterRun
  <2>3. QED
    BY <1>4, <1>5, <2>1, <2>2 DEF Step
<1>9. ASSUME NEW h \in Handler, Step(h) \/ Deadline(h), ~GiveBack(h), ~Acquire(h)
      PROVE  UNCHANGED slotVars /\ \A k \in Handler : HoldsSlot(k)' = HoldsSlot(k) /\ token'[k] = token[k]
  <2>1. token' = token
    BY <1>9, <1>5 DEF Step, Accept, RejectStart, RouteStart, Open, Handshake, StartClosed, LeaveService,
       Finish, Joined, Report, Stopped, Close, ErrorSent, Cleanup, LateClosed, Deadline
  <2>2. QED
    BY <1>1, <1>5, <1>9, <2>1, SlotIsKept
<1>10. CASE BridgeExpires \/ UNCHANGED gatewayVars
  <2>1. UNCHANGED slotVars /\ \A k \in Handler : HoldsSlot(k)' = HoldsSlot(k) /\ token'[k] = token[k]
    BY <1>10 DEF BridgeExpires, gatewayVars, HoldsSlot
  <2>2. QED
    BY <1>4, <2>1
<1>11. QED
  BY <1>4, <1>6, <1>7, <1>8, <1>9, <1>10 DEF GatewayNext

(* The counters of the connection registry are the numbers of handlers     *)
(* that hold a slot, so a release never finds them at zero, and neither    *)
(* limit is ever exceeded.                                                 *)
THEOREM SlotsTheorem == GatewaySpec => []SlotsAreHandlers
<1>1. GatewayInit => SlotsAreHandlers
  <2> SUFFICES ASSUME GatewayInit
               PROVE  SlotsAreHandlers
    OBVIOUS
  <2>1. Holders = {} /\ \A t \in Token : HoldersOf(t) = {}
    BY DEF GatewayInit, Holders, HoldersOf, HoldsSlot, InRun, AfterRun
  <2>2. total = 0 /\ \A t \in Token : byToken[t] = 0
    BY DEF GatewayInit
  <2>3. Cardinality({}) = 0
    BY FS_EmptySet
  <2>4. QED
    BY <2>1, <2>2, <2>3, SlotsAsSets, GatewayAssumption
<1>2. GatewayInv /\ SlotsAreHandlers /\ [GatewayNext]_gatewayVars => SlotsAreHandlers'
  BY SlotStep
<1>3. QED
  BY <1>1, <1>2, HandlerInvariant, PTL DEF GatewaySpec

-------------------------------------------------------------------------------
(* The count of active upstream connections.                               *)

Connected == {h \in Handler : counted[h]}

ActiveIsCounted == active = Cardinality(Connected)

LEMMA ConnectedStep ==
  ASSUME GatewayInv, ActiveIsCounted, [GatewayNext]_gatewayVars
  PROVE  ActiveIsCounted'
<1> USE DEF GatewayTypes, Connected, ActiveIsCounted
<1>1. GatewayTypes
  BY DEF GatewayInv
<1>2. Connected \in SUBSET Handler
  OBVIOUS
<1>3. ASSUME NEW h \in Handler, active' = active + 1, counted' = [counted EXCEPT ![h] = TRUE], ~counted[h]
      PROVE  ActiveIsCounted'
  <2>1. Connected' = Connected \cup {h} /\ h \notin Connected
    BY <1>1, <1>3
  <2>2. QED
    BY <1>2, <1>3, <2>1, HandlersCounted
<1>4. ASSUME NEW h \in Handler, Uncount(h)
      PROVE  ActiveIsCounted'
  <2>1. Connected' = Connected \ {h}
    BY <1>1, <1>4 DEF Uncount
  <2>2. CASE counted[h]
    <3>1. h \in Connected
      BY <2>2
    <3>2. Cardinality(Connected) > 0 /\ Cardinality(Connected \ {h}) = Cardinality(Connected) - 1
      BY <1>2, <3>1, HandlersCounted
    <3>3. QED
      BY <1>4, <2>1, <2>2, <3>2 DEF Uncount
  <2>3. CASE ~counted[h]
    <3>1. Connected' = Connected
      BY <2>1, <2>3
    <3>2. QED
      BY <1>4, <2>3, <3>1 DEF Uncount
  <2>4. QED
    BY <2>2, <2>3
<1>5. ASSUME UNCHANGED <<active, counted>>
      PROVE  ActiveIsCounted'
  BY <1>5
<1>6. ASSUME NEW h \in Handler, Open(h)
      PROVE  ActiveIsCounted'
  <2>1. ~counted[h]
    BY <1>6 DEF Open, At, GatewayInv, HandlerInv, Untouched
  <2>2. QED
    BY <1>3, <1>5, <1>6, <2>1 DEF Open
<1>7. ASSUME NEW h \in Handler, StartClosed(h) \/ Close(h) \/ LateClosed(h)
      PROVE  ActiveIsCounted'
  BY <1>4, <1>7 DEF StartClosed, Close, LateClosed
<1>8. ASSUME NEW h \in Handler, Step(h) \/ Deadline(h),
             ~Open(h), ~StartClosed(h), ~Close(h), ~LateClosed(h)
      PROVE  UNCHANGED <<active, counted>>
  BY <1>8 DEF Step, Deadline, Acquire, Accept, RejectStart, RouteStart, Handshake, LeaveService,
     Finish, Joined, Report, Stopped, ErrorSent, Cleanup, GiveBack, upstreamVars
<1>9. CASE BridgeExpires \/ UNCHANGED gatewayVars
  BY <1>5, <1>9 DEF BridgeExpires, gatewayVars, upstreamVars
<1>10. QED
  BY <1>5, <1>6, <1>7, <1>8, <1>9 DEF GatewayNext

(* active_connections is the number of sessions that count themselves in:  *)
(* no close takes a connection off twice or takes off another's, although  *)
(* the start-up, the run and the late clean-up can each be the one.        *)
THEOREM ConnectedTheorem == GatewaySpec => []ActiveIsCounted
<1>1. GatewayInit => ActiveIsCounted
  <2> SUFFICES ASSUME GatewayInit
               PROVE  ActiveIsCounted
    OBVIOUS
  <2>1. Connected = {} /\ active = 0
    BY DEF GatewayInit, Connected
  <2>2. QED
    BY <2>1, FS_EmptySet DEF ActiveIsCounted
<1>2. GatewayInv /\ ActiveIsCounted /\ [GatewayNext]_gatewayVars => ActiveIsCounted'
  BY ConnectedStep
<1>3. QED
  BY <1>1, <1>2, HandlerInvariant, PTL DEF GatewaySpec

-------------------------------------------------------------------------------
(* The threads of the client.                                              *)

WorkerPlaces == {"open", "start", "pump", "put", "halt", "finish", "join_sender",
               "send_stop", "join_receiver", "except", "except_halt", "cancel", "drain",
               "join_cancelled", "decide", "fallback", "last_drain", "last_join", "close",
               "cleanup", "join_player", "check_player", "done"}

(* Where the client's threads are.                                         *)
ClientScalars ==
  /\ mode \in {"safe", "headphones"}
  /\ main \in WorkerPlaces
  /\ outcome \in {"none", "completed", "failed", "fallback"}
  /\ sender \in {"none", "get", "send", "ended", "joined"}
  /\ receiver \in {"none", "recv", "stop_mic", "halt_mic", "clear_mic", "start_turn", "feed",
                   "stop_turn", "join_writer", "check_writer", "after_turn", "restart",
                   "assign_mic", "ended"}
  /\ writer \in {"none", "begin", "open", "get", "write", "flush", "dead", "ended"}
  /\ link \in {"none", "open", "broken", "abandoned", "closed"}

(* The queues and what is between them; held is set exactly between the    *)
(* read and the put of the pump.                                           *)
MicTypes ==
  /\ captured \in Nat /\ held \in Nat /\ (held = NoChunk <=> main # "put")
  /\ micq \in Seq(Nat \ {0}) /\ Len(micq) <= CaptureMax

SendTypes ==
  /\ sendq \in Seq(Nat) /\ Len(sendq) <= SendMax
  /\ sent \in Seq(Nat) /\ sending \in Nat

PlayTypes ==
  /\ fed \in Nat /\ played \in Nat /\ buffered \in Nat
  /\ playq \in Seq(Nat) /\ Len(playq) <= PlaybackMax

micTypeVars == <<main, captured, held, micq>>
sendTypeVars == <<sendq, sent, sending>>
playTypeVars == <<playq, fed, played, buffered>>

-------------------------------------------------------------------------------
(* What is appended to a queue, and what is taken from it.                 *)
LEMMA QueueGrows ==
  ASSUME NEW S, NEW q \in Seq(S), NEW x \in S
  PROVE  /\ Append(q, x) \in Seq(S) /\ Len(Append(q, x)) = Len(q) + 1
         /\ Append(q, x) # <<>>
         /\ \A i \in 1..Len(q) : Append(q, x)[i] = q[i]
         /\ Append(q, x)[Len(q) + 1] = x
  OBVIOUS

LEMMA QueueShrinks ==
  ASSUME NEW S, NEW q \in Seq(S), q # <<>>
  PROVE  /\ Tail(q) \in Seq(S) /\ Len(Tail(q)) = Len(q) - 1 /\ Len(q) \in Nat \ {0}
         /\ \A i \in 1..Len(q) - 1 : Tail(q)[i] = q[i + 1]
         /\ Head(q) = q[1] /\ Head(q) \in S
  OBVIOUS

(* The end finds room in the player's queue, or makes it.                  *)
LEMMA TakenQueue ==
  ASSUME PlayTypes, TakeQueue, ClientAssumption
  PROVE  playq' \in Seq(Nat) /\ Len(playq') <= PlaybackMax
<1> USE DEF PlayTypes, LastFrame
<1>1. CASE ~queueSet
  BY <1>1 DEF TakeQueue
<1>2. CASE queueSet /\ Len(playq) < PlaybackMax
  <2>1. Append(playq, 0) \in Seq(Nat) /\ Len(Append(playq, 0)) = Len(playq) + 1
    BY QueueGrows
  <2>2. playq' = Append(playq, 0) /\ Len(playq) + 1 <= PlaybackMax
    BY <1>2, ClientAssumption DEF TakeQueue
  <2>3. QED
    BY <2>1, <2>2
<1>3. CASE queueSet /\ Len(playq) = PlaybackMax
  <2>1. Tail(playq) \in Seq(Nat) /\ Len(Tail(playq)) = Len(playq) - 1
    BY <1>3, QueueShrinks, ClientAssumption
  <2>2. Append(Tail(playq), 0) \in Seq(Nat) /\ Len(Append(Tail(playq), 0)) = Len(playq)
    BY <2>1, QueueGrows
  <2>3. playq' = Append(Tail(playq), 0)
    BY <1>3, ClientAssumption DEF TakeQueue
  <2>4. QED
    BY <1>3, <2>2, <2>3
<1>4. QED
  BY <1>1, <1>2, <1>3 DEF TakeQueue

-------------------------------------------------------------------------------
(* What is known by the place of the worker's thread.                      *)
Pumping == main \in {"open", "start", "pump", "put", "halt", "finish"}
Well == outcome \in {"none", "completed"}
Ending == {"except_halt", "cancel", "drain", "join_cancelled", "decide", "fallback",
           "last_drain", "last_join", "close", "cleanup", "join_player", "check_player", "done"}

Left == Len(sent) + (IF sending = NoChunk THEN 0 ELSE 1)
Waiting == Left + Len(sendq)

OutcomeFits ==
  /\ outcome = "none" => main \notin Ending
  /\ outcome \in {"failed", "fallback"} => main \in Ending
  /\ outcome = "completed" =>
       main \in {"close", "cleanup", "join_player", "check_player", "done"}

(* The sender and its queue. The end of the queue is put once and last,    *)
(* after the pump, so a sender that has returned without an error has left *)
(* nothing.                                                                *)
SenderInv ==
  /\ sender = "send" <=> sending # NoChunk
  /\ Well =>
    /\ senderError => sender = "ended"
    /\ Pumping /\ ~senderError => sender \in {"none", "get", "send"}
    /\ main = "join_sender" => sender # "joined"
    /\ main \in {"send_stop", "join_receiver"} \/ outcome = "completed" => sender = "joined"
    /\ ~Pumping /\ sender \in {"ended", "joined"} /\ ~senderError =>
         sendq = <<>> \/ main = "except"
    /\ main \in {"open", "start"} => sender = "none"
    /\ \A i \in 1..Len(sendq) : sendq[i] = LastChunk => i = Len(sendq) /\ ~Pumping

(* What the microphone captured lies in order along its way: sent, in the  *)
(* sender's hand, in the send queue, held by the pump, in the microphone's *)
(* queue. After a chunk was dropped only the first that is left is known   *)
(* to follow; the pump ends the session with it.                           *)
SentInOrder == \A i \in 1..Len(sent) : sent[i] = i

QueuedInOrder ==
  /\ sending # NoChunk => sending = Len(sent) + 1
  /\ \A i \in 1..Len(sendq) : sendq[i] \in {Left + i, LastChunk}

CapturedInOrder ==
  /\ main = "put" => held = Waiting + 1
  /\ main = "pump" /\ dropped => micq # <<>> /\ micq[1] = Waiting + 1
  /\ main \in {"open", "start", "pump"} /\ ~dropped =>
       captured = Waiting + Len(micq) /\ \A i \in 1..Len(micq) : micq[i] = Waiting + i
  /\ main = "put" /\ ~dropped =>
       captured = held + Len(micq) /\ \A i \in 1..Len(micq) : micq[i] = held + i

HeardInv ==
  mode = "headphones" /\ Well =>
    /\ SentInOrder
    /\ main \in {"open", "start"} => ~dropped
    /\ ~senderError => QueuedInOrder /\ CapturedInOrder

(* The receiver, the writer and the microphone. In safe mode, until the    *)
(* worker takes the player away, the microphone is taken from the time     *)
(* that playback is asked for until the writer was waited for; a stream    *)
(* the receiver has outside it is being stopped, or about to be put there. *)
TurnInv ==
  /\ main \in {"open", "start"} => receiver = "none" /\ ~mic /\ loose = {}
  /\ receiver = "none" => writer = "none" /\ ~speaking /\ ~queueSet /\ ~completed
  /\ completed => receiver = "ended" /\ (PlayerTaken \/ writer \in Over)
  /\ outcome = "completed" => completed /\ writer \in Over
  /\ "receiver" \in loose => receiver \in {"halt_mic", "assign_mic"}
  /\ ~PlayerTaken =>
     /\ mode = "safe" /\ mic =>
          writer \in Over /\ receiver \notin {"halt_mic", "clear_mic", "start_turn"}
     /\ receiver = "recv" => (IF speaking THEN queueSet ELSE writer \in Over)
     /\ receiver \in {"feed", "stop_turn"} => queueSet
     /\ receiver \in {"stop_mic", "halt_mic", "clear_mic"} => writer \in Over
     /\ receiver \in {"stop_mic", "halt_mic", "clear_mic", "start_turn", "feed"} => speaking
     /\ receiver \in {"stop_turn", "join_writer", "after_turn", "restart", "assign_mic"} =>
          ~speaking
     /\ receiver # "check_writer"
     /\ receiver \in {"after_turn", "restart", "assign_mic"} => writer \in {"ended", "dead"}
     /\ receiver = "join_writer" => ~queueSet /\ writer # "none"
     /\ queueSet => writer \notin {"none", "dead"}

(* The frames of a turn: fed is what was written, what the writer holds    *)
(* back and what is queued; the end, put after the queue was taken from    *)
(* the receiver, is the last thing in it, and what is held back then is    *)
(* written before the writer ends. A frame that made room for the end is   *)
(* an error of the player.                                                 *)
EndIsLast == \A i \in 1..Len(playq) : playq[i] = LastFrame => i = Len(playq) /\ ~queueSet

FramesCounted ==
  /\ queueSet => writer \notin {"flush", "ended"} /\ fed = played + buffered + Len(playq)
  /\ ~queueSet /\ writer \in {"begin", "open", "get", "write", "dead"} =>
       /\ playq # <<>> /\ playq[Len(playq)] = LastFrame
       /\ fed = played + buffered + Len(playq) - 1
  /\ writer = "flush" => playq = <<>> /\ fed = played + buffered
  /\ writer = "ended" => playq = <<>> /\ fed = played /\ buffered = 0

PlayInv ==
  ~PlayerTaken =>
     /\ receiver = "after_turn" => ~playerError
     /\ EndIsLast
     /\ writer = "none" => playq = <<>> /\ fed = played /\ buffered = 0
     /\ ~playerError => FramesCounted

(* The connection and, in headphones mode, the microphone of a session     *)
(* that is on its way to completion.                                       *)
QuietInv ==
  /\ main \in {"start", "pump", "put", "halt", "finish", "join_sender", "send_stop",
               "join_receiver"} => link \in {"open", "broken"}
  /\ outcome = "completed" =>
       link \in (IF main = "close" THEN {"open", "broken"} ELSE {"closed"})
  /\ mode = "headphones" =>
       /\ receiver \notin {"stop_mic", "halt_mic", "clear_mic", "restart", "assign_mic"}
       /\ mic => main \in {"pump", "put"} \/ (main = "except" /\ outcome = "none")
       /\ main = "halt" => loose = {"main"}
       /\ loose # {} => main \in {"halt", "except"} \/ outcome \in {"failed", "fallback"}

placeVars == <<main, outcome>>
endVars == <<main, outcome, sender, senderError, sending, sendq>>
heardVars == <<mode, main, outcome, sender, senderError, sending, sent, sendq, held,
  captured, micq, dropped>>
turnVars == <<mode, main, outcome, mic, loose, receiver, speaking, completed, writer, queueSet>>
playInvVars == <<main, receiver, writer, queueSet, playq, playerError, fed, played, buffered>>
quietVars == <<mode, main, outcome, mic, loose, receiver, link>>

-------------------------------------------------------------------------------
(* Each part of the invariant is kept by every step of every thread.       *)
LEMMA ClientScalarsStep ==
  ASSUME ClientScalars, [ClientNext]_clientVars
  PROVE  ClientScalars'
<1> USE DEF ClientScalars, WorkerPlaces, ReceiverRaises, TakeQueue, StopAsked,
            clientVars, mainVars, recvVars, sendVars, micVars, gateVars, playVars
<1>1. CASE OpenConnection
  BY <1>1 DEF OpenConnection
<1>2. CASE StartThreads
  BY <1>2 DEF StartThreads
<1>3. CASE Pump
  BY <1>3 DEF Pump
<1>4. CASE Put
  BY <1>4 DEF Put
<1>5. CASE StopMicrophone
  BY <1>5 DEF StopMicrophone
<1>6. CASE Halt
  BY <1>6 DEF Halt
<1>7. CASE FinishSender
  BY <1>7 DEF FinishSender
<1>8. CASE JoinSender
  BY <1>8 DEF JoinSender
<1>9. CASE SendStop
  BY <1>9 DEF SendStop
<1>10. CASE JoinReceiver
  BY <1>10 DEF JoinReceiver
<1>11. CASE Except
  BY <1>11 DEF Except
<1>12. CASE ExceptHalt
  BY <1>12 DEF ExceptHalt
<1>13. CASE CancelSender
  BY <1>13 DEF CancelSender
<1>14. CASE Drain
  BY <1>14 DEF Drain
<1>15. CASE JoinCancelled
  BY <1>15 DEF JoinCancelled
<1>16. CASE DecideFallback
  BY <1>16 DEF DecideFallback
<1>17. CASE Fallback
  BY <1>17 DEF Fallback
<1>18. CASE CloseConnection
  BY <1>18 DEF CloseConnection
<1>19. CASE CleanupPlayer
  BY <1>19 DEF CleanupPlayer
<1>20. CASE CleanupEnds
  BY <1>20 DEF CleanupEnds
<1>21. CASE SenderTakes
  BY <1>21 DEF SenderTakes
<1>22. CASE SenderSends
  BY <1>22 DEF SenderSends
<1>23. CASE SenderFails
  BY <1>23 DEF SenderFails
<1>24. CASE ReceiveFails
  BY <1>24 DEF ReceiveFails
<1>25. CASE ReceiveStart
  BY <1>25 DEF ReceiveStart
<1>26. CASE PauseMicrophone
  BY <1>26 DEF PauseMicrophone
<1>27. CASE PauseHalts
  BY <1>27 DEF PauseHalts
<1>28. CASE ClearPending
  BY <1>28 DEF ClearPending
<1>29. CASE ReceiveAudio
  BY <1>29 DEF ReceiveAudio
<1>30. CASE ReceiveEnd
  BY <1>30 DEF ReceiveEnd
<1>31. CASE ReceiveCompleted
  BY <1>31 DEF ReceiveCompleted
<1>32. CASE AfterTurn
  BY <1>32 DEF AfterTurn
<1>33. CASE RestartMicrophone
  BY <1>33 DEF RestartMicrophone
<1>34. CASE AssignMicrophone
  BY <1>34 DEF AssignMicrophone
<1>35. CASE StartTurn
  BY <1>35 DEF StartTurn
<1>36. CASE Feed
  BY <1>36 DEF Feed
<1>37. CASE StopTurn
  BY <1>37 DEF StopTurn
<1>38. CASE JoinWriter
  BY <1>38 DEF JoinWriter
<1>39. CASE WriterBegins
  BY <1>39 DEF WriterBegins
<1>40. CASE WriterOpens
  BY <1>40 DEF WriterOpens
<1>41. CASE WriterTakes
  BY <1>41 DEF WriterTakes
<1>42. CASE WriterWrites
  BY <1>42 DEF WriterWrites
<1>43. CASE PressStop
  BY <1>43 DEF PressStop
<1>44. CASE Capture
  BY <1>44 DEF Capture
<1>45. CASE ConnectionBreaks
  BY <1>45 DEF ConnectionBreaks
<1>46. CASE UNCHANGED clientVars
  BY <1>46
<1>47. QED
  BY <1>1, <1>2, <1>3, <1>4, <1>5, <1>6, <1>7, <1>8, <1>9, <1>10, <1>11, <1>12, <1>13,
     <1>14, <1>15, <1>16, <1>17, <1>18, <1>19, <1>20, <1>21, <1>22, <1>23, <1>24, <1>25,
     <1>26, <1>27, <1>28, <1>29, <1>30, <1>31, <1>32, <1>33, <1>34, <1>35, <1>36, <1>37,
     <1>38, <1>39, <1>40, <1>41, <1>42, <1>43, <1>44, <1>45, <1>46
     DEF ClientNext, ThreadsNext, MainNext, ReceiverNext

LEMMA MicTypesStep ==
  ASSUME MicTypes, ClientAssumption, [ClientNext]_clientVars
  PROVE  MicTypes'
<1> USE DEF MicTypes, StopAsked, NoChunk, TakeQueue, clientVars, mainVars, recvVars,
            sendVars, micVars, gateVars, playVars
<1>1. CASE UNCHANGED micTypeVars
  BY <1>1 DEF micTypeVars
<1>2. CASE OpenConnection
  BY <1>2 DEF OpenConnection
<1>3. CASE StartThreads
  BY <1>3 DEF StartThreads
<1>4. CASE Pump
  <2>1. CASE micq # <<>>
    <3>1. Tail(micq) \in Seq(Nat \ {0}) /\ Len(Tail(micq)) <= CaptureMax /\
          Head(micq) \in Nat \ {0}
      BY <2>1, QueueShrinks, ClientAssumption
    <3>2. QED
      BY <2>1, <3>1, <1>4 DEF Pump
  <2>2. CASE micq = <<>>
    BY <2>2, <1>4 DEF Pump
  <2>3. QED
    BY <2>1, <2>2
<1>5. CASE Put
  <2>1. main' # "put" /\ held' = NoChunk /\ UNCHANGED <<captured, micq>>
    BY <1>5 DEF Put
  <2>2. QED
    BY <2>1
<1>6. CASE StopMicrophone
  BY <1>6 DEF StopMicrophone
<1>7. CASE Halt
  BY <1>7 DEF Halt
<1>8. CASE FinishSender
  BY <1>8 DEF FinishSender
<1>9. CASE JoinSender
  BY <1>9 DEF JoinSender
<1>10. CASE SendStop
  BY <1>10 DEF SendStop
<1>11. CASE JoinReceiver
  BY <1>11 DEF JoinReceiver
<1>12. CASE Except
  BY <1>12 DEF Except
<1>13. CASE ExceptHalt
  BY <1>13 DEF ExceptHalt
<1>14. CASE CancelSender
  BY <1>14 DEF CancelSender
<1>15. CASE Drain
  BY <1>15 DEF Drain
<1>16. CASE JoinCancelled
  BY <1>16 DEF JoinCancelled
<1>17. CASE DecideFallback
  BY <1>17 DEF DecideFallback
<1>18. CASE Fallback
  BY <1>18 DEF Fallback
<1>19. CASE CloseConnection
  BY <1>19 DEF CloseConnection
<1>20. CASE CleanupPlayer
  BY <1>20 DEF CleanupPlayer
<1>21. CASE CleanupEnds
  BY <1>21 DEF CleanupEnds
<1>22. CASE ClearPending
  <2>1. micq # <<>> => Tail(micq) \in Seq(Nat \ {0}) /\ Len(Tail(micq)) <= CaptureMax
    BY QueueShrinks, ClientAssumption
  <2>2. micq' \in {micq, Tail(micq)} /\ (micq = <<>> => micq' = micq)
          /\ UNCHANGED <<main, captured, held>>
    BY <1>22 DEF ClearPending
  <2>3. QED
    BY <2>1, <2>2
<1>23. CASE Capture
  <2>1. captured' = captured + 1
    BY <1>23 DEF Capture
  <2>2. captured' \in Nat \ {0}
    BY <2>1
  <2>3. UNCHANGED <<main, held>>
    BY <1>23 DEF Capture
  <2>4. CASE Len(micq) < CaptureMax
    <3>1. Append(micq, captured') \in Seq(Nat \ {0}) /\ Len(Append(micq, captured')) <=
          CaptureMax
      BY <2>2, <2>4, QueueGrows, ClientAssumption
    <3>2. micq' = Append(micq, captured')
      BY <2>4, <1>23 DEF Capture
    <3>3. QED
      BY <2>2, <2>3, <3>1, <3>2
  <2>5. CASE ~(Len(micq) < CaptureMax)
    <3>1. UNCHANGED micq
      BY <2>5, <1>23 DEF Capture
    <3>2. QED
      BY <2>2, <2>3, <3>1
  <2>6. QED
    BY <2>4, <2>5
<1>24. CASE SenderTakes \/ SenderSends \/ SenderFails \/ ReceiveFails \/ ReceiveStart \/
            PauseMicrophone \/ PauseHalts \/ ReceiveAudio \/ ReceiveEnd \/
            ReceiveCompleted \/ AfterTurn \/ RestartMicrophone \/ AssignMicrophone \/
            StartTurn \/ Feed \/ StopTurn \/ JoinWriter \/ WriterBegins \/
            WriterOpens \/ WriterTakes \/ WriterWrites \/ PressStop \/
            ConnectionBreaks \/ UNCHANGED clientVars
  <2>1. UNCHANGED micTypeVars
    BY <1>24 DEF SenderTakes, SenderSends, SenderFails, ReceiveFails, ReceiveStart,
       PauseMicrophone, PauseHalts, ReceiveAudio, ReceiveEnd, ReceiveCompleted,
       AfterTurn, RestartMicrophone, AssignMicrophone, StartTurn, Feed, StopTurn,
       JoinWriter, WriterBegins, WriterOpens, WriterTakes, WriterWrites, PressStop,
       ConnectionBreaks, micTypeVars
  <2>2. QED
    BY <2>1, <1>1
<1>25. QED
  BY <1>2, <1>3, <1>4, <1>5, <1>6, <1>7, <1>8, <1>9, <1>10, <1>11, <1>12, <1>13, <1>14,
     <1>15, <1>16, <1>17, <1>18, <1>19, <1>20, <1>21, <1>22, <1>23, <1>24
     DEF ClientNext, ThreadsNext, MainNext, ReceiverNext

LEMMA SendTypesStep ==
  ASSUME SendTypes, MicTypes, ClientAssumption, [ClientNext]_clientVars
  PROVE  SendTypes'
<1> USE DEF SendTypes, MicTypes, NoChunk, LastChunk, TakeQueue, clientVars, mainVars,
            recvVars, sendVars, micVars, gateVars, playVars
<1>1. CASE UNCHANGED sendTypeVars
  BY <1>1 DEF sendTypeVars
<1>2. CASE Put
  <2>1. CASE Len(sendq) < SendMax
    <3>1. Append(sendq, held) \in Seq(Nat) /\ Len(Append(sendq, held)) = Len(sendq) + 1
      BY QueueGrows
    <3>2. sendq' = Append(sendq, held) /\ UNCHANGED <<sent, sending>>
      BY <2>1, <1>2 DEF Put
    <3>3. QED
      BY <2>1, <3>1, <3>2, ClientAssumption
  <2>2. CASE ~(Len(sendq) < SendMax)
    BY <2>2, <1>2 DEF Put
  <2>3. QED
    BY <2>1, <2>2
<1>3. CASE FinishSender
  <2>1. CASE ~receiverError /\ Len(sendq) < SendMax
    <3>1. Append(sendq, 0) \in Seq(Nat) /\ Len(Append(sendq, 0)) = Len(sendq) + 1
      BY QueueGrows
    <3>2. sendq' = Append(sendq, 0) /\ UNCHANGED <<sent, sending>>
      BY <2>1, <1>3 DEF FinishSender
    <3>3. QED
      BY <2>1, <3>1, <3>2, ClientAssumption
  <2>2. CASE ~(~receiverError /\ Len(sendq) < SendMax)
    BY <2>2, <1>3 DEF FinishSender
  <2>3. QED
    BY <2>1, <2>2
<1>4. CASE Drain
  <2>1. CASE sendq # <<>>
    <3>1. Tail(sendq) \in Seq(Nat) /\ Len(Tail(sendq)) <= SendMax
      BY <2>1, QueueShrinks, ClientAssumption
    <3>2. QED
      BY <2>1, <3>1, <1>4 DEF Drain
  <2>2. CASE sendq = <<>>
    <3>1. <<0>> \in Seq(Nat) /\ Len(<<0>>) <= SendMax
      BY ClientAssumption
    <3>2. QED
      BY <2>2, <3>1, <1>4 DEF Drain
  <2>3. QED
    BY <2>1, <2>2
<1>5. CASE SenderTakes
  BY <1>5 DEF SenderTakes
<1>6. CASE SenderSends
  BY <1>6 DEF SenderSends
<1>7. CASE SenderFails
  BY <1>7 DEF SenderFails
<1>8. CASE OpenConnection \/ StartThreads \/ Pump \/ StopMicrophone \/ Halt \/
           JoinSender \/ SendStop \/ JoinReceiver \/ Except \/ ExceptHalt \/
           CancelSender \/ JoinCancelled \/ DecideFallback \/ Fallback \/
           CloseConnection \/ CleanupPlayer \/ CleanupEnds \/ ReceiveFails \/
           ReceiveStart \/ PauseMicrophone \/ PauseHalts \/ ClearPending \/
           ReceiveAudio \/ ReceiveEnd \/ ReceiveCompleted \/ AfterTurn \/
           RestartMicrophone \/ AssignMicrophone \/ StartTurn \/ Feed \/ StopTurn \/
           JoinWriter \/ WriterBegins \/ WriterOpens \/ WriterTakes \/ WriterWrites \/
           PressStop \/ Capture \/ ConnectionBreaks \/ UNCHANGED clientVars
  <2>1. UNCHANGED sendTypeVars
    BY <1>8 DEF OpenConnection, StartThreads, Pump, StopMicrophone, Halt, JoinSender,
       SendStop, JoinReceiver, Except, ExceptHalt, CancelSender, JoinCancelled,
       DecideFallback, Fallback, CloseConnection, CleanupPlayer, CleanupEnds,
       ReceiveFails, ReceiveStart, PauseMicrophone, PauseHalts, ClearPending,
       ReceiveAudio, ReceiveEnd, ReceiveCompleted, AfterTurn, RestartMicrophone,
       AssignMicrophone, StartTurn, Feed, StopTurn, JoinWriter, WriterBegins,
       WriterOpens, WriterTakes, WriterWrites, PressStop, Capture, ConnectionBreaks,
       sendTypeVars
  <2>2. QED
    BY <2>1, <1>1
<1>9. QED
  BY <1>2, <1>3, <1>4, <1>5, <1>6, <1>7, <1>8
     DEF ClientNext, ThreadsNext, MainNext, ReceiverNext

LEMMA PlayTypesStep ==
  ASSUME PlayTypes, ClientAssumption, [ClientNext]_clientVars
  PROVE  PlayTypes'
<1> USE DEF PlayTypes, LastFrame, clientVars, mainVars, recvVars, sendVars, micVars,
            gateVars, playVars
<1>1. CASE UNCHANGED playTypeVars
  BY <1>1 DEF playTypeVars
<1>2. CASE CleanupPlayer
  <2>1. playq' \in Seq(Nat) /\ Len(playq') <= PlaybackMax
    BY TakenQueue, <1>2 DEF CleanupPlayer
  <2>2. UNCHANGED <<fed, played, buffered>>
    BY <1>2 DEF CleanupPlayer
  <2>3. QED
    BY <2>1, <2>2
<1>3. CASE StartTurn
  <2>1. CASE playerError
    BY <1>3, <2>1 DEF StartTurn
  <2>2. CASE ~playerError
    <3>1. playq' = <<>> /\ fed' = 0 /\ played' = 0 /\ buffered' = 0
      BY <1>3, <2>2 DEF StartTurn
    <3>2. <<>> \in Seq(Nat) /\ Len(<<>>) <= PlaybackMax
      BY ClientAssumption
    <3>3. QED
      BY <3>1, <3>2
  <2>3. QED
    BY <2>1, <2>2
<1>4. CASE Feed
  <2>0. fed + 1 \in Nat
    OBVIOUS
  <2>1. CASE playq' = Append(playq, fed + 1) /\ Len(playq) < PlaybackMax /\ fed' = fed + 1
    <3>1. Append(playq, fed + 1) \in Seq(Nat) /\ Len(Append(playq, fed + 1)) = Len(playq) +
          1
      BY <2>0, QueueGrows
    <3>2. UNCHANGED <<played, buffered>>
      BY <1>4 DEF Feed
    <3>3. QED
      BY <2>1, <3>1, <3>2, ClientAssumption
  <2>2. CASE UNCHANGED <<playq, fed>>
    BY <2>2, <1>4 DEF Feed
  <2>3. QED
    BY <2>1, <2>2, <1>4 DEF Feed
<1>5. CASE StopTurn
  <2>1. playq' \in Seq(Nat) /\ Len(playq') <= PlaybackMax
    BY TakenQueue, <1>5 DEF StopTurn
  <2>2. UNCHANGED <<fed, played, buffered>>
    BY <1>5 DEF StopTurn
  <2>3. QED
    BY <2>1, <2>2
<1>6. CASE WriterTakes
  <2>1. playq # <<>> /\ playq' = Tail(playq) /\ buffered' \in {buffered, buffered + 1}
          /\ UNCHANGED <<fed, played>>
    BY <1>6 DEF WriterTakes
  <2>2. Tail(playq) \in Seq(Nat) /\ Len(Tail(playq)) <= PlaybackMax
    BY <2>1, QueueShrinks, ClientAssumption
  <2>3. QED
    BY <2>1, <2>2
<1>7. CASE WriterWrites
  BY <1>7 DEF WriterWrites
<1>8. CASE OpenConnection \/ StartThreads \/ Pump \/ Put \/ StopMicrophone \/ Halt \/
           FinishSender \/ JoinSender \/ SendStop \/ JoinReceiver \/ Except \/
           ExceptHalt \/ CancelSender \/ Drain \/ JoinCancelled \/ DecideFallback \/
           Fallback \/ CloseConnection \/ CleanupEnds \/ SenderTakes \/ SenderSends \/
           SenderFails \/ ReceiveFails \/ ReceiveStart \/ PauseMicrophone \/
           PauseHalts \/ ClearPending \/ ReceiveAudio \/ ReceiveEnd \/
           ReceiveCompleted \/ AfterTurn \/ RestartMicrophone \/ AssignMicrophone \/
           JoinWriter \/ WriterBegins \/ WriterOpens \/ PressStop \/ Capture \/
           ConnectionBreaks \/ UNCHANGED clientVars
  <2>1. UNCHANGED playTypeVars
    BY <1>8 DEF OpenConnection, StartThreads, Pump, Put, StopMicrophone, Halt,
       FinishSender, JoinSender, SendStop, JoinReceiver, Except, ExceptHalt,
       CancelSender, Drain, JoinCancelled, DecideFallback, Fallback, CloseConnection,
       CleanupEnds, SenderTakes, SenderSends, SenderFails, ReceiveFails, ReceiveStart,
       PauseMicrophone, PauseHalts, ClearPending, ReceiveAudio, ReceiveEnd,
       ReceiveCompleted, AfterTurn, RestartMicrophone, AssignMicrophone, JoinWriter,
       WriterBegins, WriterOpens, PressStop, Capture, ConnectionBreaks, playTypeVars
  <2>2. QED
    BY <2>1, <1>1
<1>9. QED
  BY <1>2, <1>3, <1>4, <1>5, <1>6, <1>7, <1>8
     DEF ClientNext, ThreadsNext, MainNext, ReceiverNext

LEMMA OutcomeStep ==
  ASSUME ClientScalars, OutcomeFits, [ClientNext]_clientVars
  PROVE  OutcomeFits'
<1> USE DEF OutcomeFits, Ending, WorkerPlaces, ClientScalars, clientVars, mainVars,
            recvVars, sendVars, micVars, gateVars, playVars
<1>1. CASE UNCHANGED placeVars
  BY <1>1 DEF placeVars
<1>2. CASE OpenConnection
  BY <1>2 DEF OpenConnection
<1>3. CASE StartThreads
  BY <1>3 DEF StartThreads
<1>4. CASE Pump
  BY <1>4 DEF Pump
<1>5. CASE Put
  BY <1>5 DEF Put
<1>6. CASE StopMicrophone
  BY <1>6 DEF StopMicrophone
<1>7. CASE Halt
  BY <1>7 DEF Halt
<1>8. CASE FinishSender
  BY <1>8 DEF FinishSender
<1>9. CASE JoinSender
  BY <1>9 DEF JoinSender
<1>10. CASE SendStop
  BY <1>10 DEF SendStop
<1>11. CASE JoinReceiver
  BY <1>11 DEF JoinReceiver
<1>12. CASE Except
  BY <1>12 DEF Except
<1>13. CASE ExceptHalt
  BY <1>13 DEF ExceptHalt
<1>14. CASE CancelSender
  BY <1>14 DEF CancelSender
<1>15. CASE Drain
  BY <1>15 DEF Drain
<1>16. CASE JoinCancelled
  BY <1>16 DEF JoinCancelled
<1>17. CASE DecideFallback
  BY <1>17 DEF DecideFallback
<1>18. CASE Fallback
  BY <1>18 DEF Fallback
<1>19. CASE CloseConnection
  BY <1>19 DEF CloseConnection
<1>20. CASE CleanupPlayer
  BY <1>20 DEF CleanupPlayer
<1>21. CASE CleanupEnds
  BY <1>21 DEF CleanupEnds
<1>22. CASE SenderTakes \/ SenderSends \/ SenderFails \/ ReceiveFails \/ ReceiveStart \/
            PauseMicrophone \/ PauseHalts \/ ClearPending \/ ReceiveAudio \/
            ReceiveEnd \/ ReceiveCompleted \/ AfterTurn \/ RestartMicrophone \/
            AssignMicrophone \/ StartTurn \/ Feed \/ StopTurn \/ JoinWriter \/
            WriterBegins \/ WriterOpens \/ WriterTakes \/ WriterWrites \/ PressStop \/
            Capture \/ ConnectionBreaks \/ UNCHANGED clientVars
  <2>1. UNCHANGED placeVars
    BY <1>22 DEF SenderTakes, SenderSends, SenderFails, ReceiveFails, ReceiveStart,
       PauseMicrophone, PauseHalts, ClearPending, ReceiveAudio, ReceiveEnd,
       ReceiveCompleted, AfterTurn, RestartMicrophone, AssignMicrophone, StartTurn,
       Feed, StopTurn, JoinWriter, WriterBegins, WriterOpens, WriterTakes, WriterWrites,
       PressStop, Capture, ConnectionBreaks, placeVars
  <2>2. QED
    BY <2>1, <1>1
<1>23. QED
  BY <1>2, <1>3, <1>4, <1>5, <1>6, <1>7, <1>8, <1>9, <1>10, <1>11, <1>12, <1>13, <1>14,
     <1>15, <1>16, <1>17, <1>18, <1>19, <1>20, <1>21, <1>22
     DEF ClientNext, ThreadsNext, MainNext, ReceiverNext

LEMMA SenderStep ==
  ASSUME ClientScalars, MicTypes, SendTypes, OutcomeFits, SenderInv, [ClientNext]_clientVars
  PROVE  SenderInv'
<1> USE DEF SenderInv, OutcomeFits, Ending, Well, Pumping, WorkerPlaces, ClientScalars,
            MicTypes, SendTypes, NoChunk, LastChunk, StopAsked, clientVars, mainVars,
            recvVars, sendVars, micVars, gateVars, playVars
<1>1. CASE UNCHANGED endVars
  BY <1>1 DEF endVars
<1>2. CASE OpenConnection
  BY <1>2 DEF OpenConnection
<1>3. CASE StartThreads
  BY <1>3 DEF StartThreads
<1>4. CASE Pump
  BY <1>4 DEF Pump
<1>5. CASE Put
  <2>1. CASE Len(sendq) < SendMax
    <3>1. Append(sendq, held) \in Seq(Nat) /\ Len(Append(sendq, held)) = Len(sendq) + 1
            /\ \A i \in 1..Len(sendq) : Append(sendq, held)[i] = sendq[i]
            /\ Append(sendq, held)[Len(sendq) + 1] = held
      BY QueueGrows
    <3>2. sendq' = Append(sendq, held) /\ UNCHANGED <<outcome, sender, senderError,
          sending>> /\ main' \in {"pump", "except"}
      BY <2>1, <1>5 DEF Put
    <3>3. Well => \A i \in 1..Len(sendq) : sendq[i] # LastChunk
      BY <1>5 DEF Put
    <3>4. Well => \A i \in 1..Len(sendq') : sendq'[i] = LastChunk => i = Len(sendq') /\
          ~Pumping'
      BY <3>1, <3>2, <3>3, <1>5 DEF Put
    <3>5. QED
      BY <2>1, <3>2, <3>4, <1>5 DEF Put
  <2>2. CASE ~(Len(sendq) < SendMax)
    BY <2>2, <1>5 DEF Put
  <2>3. QED
    BY <2>1, <2>2
<1>6. CASE StopMicrophone
  BY <1>6 DEF StopMicrophone
<1>7. CASE Halt
  BY <1>7 DEF Halt
<1>8. CASE FinishSender
  <2>1. CASE ~receiverError /\ Len(sendq) < SendMax
    <3>1. Append(sendq, 0) \in Seq(Nat) /\ Len(Append(sendq, 0)) = Len(sendq) + 1
            /\ \A i \in 1..Len(sendq) : Append(sendq, 0)[i] = sendq[i]
            /\ Append(sendq, 0)[Len(sendq) + 1] = 0
      BY QueueGrows
    <3>2. sendq' = Append(sendq, 0) /\ UNCHANGED <<outcome, sender, senderError,
          sending>> /\ main' = "join_sender"
      BY <2>1, <1>8 DEF FinishSender
    <3>3. Well => \A i \in 1..Len(sendq) : sendq[i] # LastChunk
      BY <1>8 DEF FinishSender
    <3>4. Well => \A i \in 1..Len(sendq') : sendq'[i] = LastChunk => i = Len(sendq') /\
          ~Pumping'
      BY <3>1, <3>2, <3>3, <1>8 DEF FinishSender
    <3>5. QED
      BY <2>1, <3>2, <3>4, <1>8 DEF FinishSender
  <2>2. CASE ~(~receiverError /\ Len(sendq) < SendMax)
    BY <2>2, <1>8 DEF FinishSender
  <2>3. QED
    BY <2>1, <2>2
<1>9. CASE JoinSender
  BY <1>9 DEF JoinSender
<1>10. CASE SendStop
  BY <1>10 DEF SendStop
<1>11. CASE JoinReceiver
  BY <1>11 DEF JoinReceiver
<1>12. CASE Except
  BY <1>12 DEF Except
<1>13. CASE ExceptHalt
  BY <1>13 DEF ExceptHalt
<1>14. CASE CancelSender
  BY <1>14 DEF CancelSender
<1>15. CASE Drain
  BY <1>15 DEF Drain
<1>16. CASE JoinCancelled
  BY <1>16 DEF JoinCancelled
<1>17. CASE DecideFallback
  BY <1>17 DEF DecideFallback
<1>18. CASE Fallback
  BY <1>18 DEF Fallback
<1>19. CASE CloseConnection
  BY <1>19 DEF CloseConnection
<1>20. CASE CleanupPlayer
  BY <1>20 DEF CleanupPlayer
<1>21. CASE CleanupEnds
  BY <1>21 DEF CleanupEnds
<1>22. CASE SenderTakes
  BY <1>22 DEF SenderTakes
<1>23. CASE SenderSends
  BY <1>23 DEF SenderSends
<1>24. CASE SenderFails
  BY <1>24 DEF SenderFails
<1>25. CASE ReceiveFails \/ ReceiveStart \/ PauseMicrophone \/ PauseHalts \/
            ClearPending \/ ReceiveAudio \/ ReceiveEnd \/ ReceiveCompleted \/
            AfterTurn \/ RestartMicrophone \/ AssignMicrophone \/ StartTurn \/ Feed \/
            StopTurn \/ JoinWriter \/ WriterBegins \/ WriterOpens \/ WriterTakes \/
            WriterWrites \/ PressStop \/ Capture \/ ConnectionBreaks \/
            UNCHANGED clientVars
  <2>1. UNCHANGED endVars
    BY <1>25 DEF ReceiveFails, ReceiveStart, PauseMicrophone, PauseHalts, ClearPending,
       ReceiveAudio, ReceiveEnd, ReceiveCompleted, AfterTurn, RestartMicrophone,
       AssignMicrophone, StartTurn, Feed, StopTurn, JoinWriter, WriterBegins,
       WriterOpens, WriterTakes, WriterWrites, PressStop, Capture, ConnectionBreaks,
       endVars
  <2>2. QED
    BY <2>1, <1>1
<1>26. QED
  BY <1>2, <1>3, <1>4, <1>5, <1>6, <1>7, <1>8, <1>9, <1>10, <1>11, <1>12, <1>13, <1>14,
     <1>15, <1>16, <1>17, <1>18, <1>19, <1>20, <1>21, <1>22, <1>23, <1>24, <1>25
     DEF ClientNext, ThreadsNext, MainNext, ReceiverNext

LEMMA TurnStep ==
  ASSUME ClientScalars, OutcomeFits, TurnInv, PlayInv, [ClientNext]_clientVars
  PROVE  TurnInv'
<1> USE DEF TurnInv, PlayInv, OutcomeFits, Ending, PlayerTaken, Over, WorkerPlaces,
            ClientScalars, ReceiverRaises, TakeQueue, TakeStream, StopStream,
            StopRaises, StopAsked, clientVars, mainVars, recvVars, sendVars, micVars,
            gateVars, playVars
<1>1. CASE UNCHANGED turnVars
  BY <1>1 DEF turnVars
<1>2. CASE OpenConnection
  BY <1>2 DEF OpenConnection
<1>3. CASE StartThreads
  BY <1>3 DEF StartThreads
<1>4. CASE Pump
  BY <1>4 DEF Pump
<1>5. CASE Put
  BY <1>5 DEF Put
<1>6. CASE StopMicrophone
  BY <1>6 DEF StopMicrophone
<1>7. CASE Halt
  BY <1>7 DEF Halt
<1>8. CASE FinishSender
  BY <1>8 DEF FinishSender
<1>9. CASE JoinSender
  BY <1>9 DEF JoinSender
<1>10. CASE SendStop
  BY <1>10 DEF SendStop
<1>11. CASE JoinReceiver
  BY <1>11 DEF JoinReceiver
<1>12. CASE Except
  BY <1>12 DEF Except
<1>13. CASE ExceptHalt
  BY <1>13 DEF ExceptHalt
<1>14. CASE CancelSender
  BY <1>14 DEF CancelSender
<1>15. CASE Drain
  BY <1>15 DEF Drain
<1>16. CASE JoinCancelled
  BY <1>16 DEF JoinCancelled
<1>17. CASE DecideFallback
  BY <1>17 DEF DecideFallback
<1>18. CASE Fallback
  BY <1>18 DEF Fallback
<1>19. CASE CloseConnection
  BY <1>19 DEF CloseConnection
<1>20. CASE CleanupPlayer
  BY <1>20 DEF CleanupPlayer
<1>21. CASE CleanupEnds
  BY <1>21 DEF CleanupEnds
<1>22. CASE ReceiveFails
  BY <1>22 DEF ReceiveFails
<1>23. CASE ReceiveStart
  BY <1>23 DEF ReceiveStart
<1>24. CASE PauseMicrophone
  BY <1>24 DEF PauseMicrophone
<1>25. CASE PauseHalts
  BY <1>25 DEF PauseHalts
<1>26. CASE ClearPending
  BY <1>26 DEF ClearPending
<1>27. CASE ReceiveAudio
  BY <1>27 DEF ReceiveAudio
<1>28. CASE ReceiveEnd
  BY <1>28 DEF ReceiveEnd
<1>29. CASE ReceiveCompleted
  BY <1>29 DEF ReceiveCompleted
<1>30. CASE AfterTurn
  BY <1>30 DEF AfterTurn
<1>31. CASE RestartMicrophone
  BY <1>31 DEF RestartMicrophone
<1>32. CASE AssignMicrophone
  BY <1>32 DEF AssignMicrophone
<1>33. CASE StartTurn
  BY <1>33 DEF StartTurn
<1>34. CASE Feed
  BY <1>34 DEF Feed
<1>35. CASE StopTurn
  BY <1>35 DEF StopTurn
<1>36. CASE JoinWriter
  BY <1>36 DEF JoinWriter
<1>37. CASE WriterBegins
  BY <1>37 DEF WriterBegins
<1>38. CASE WriterOpens
  BY <1>38 DEF WriterOpens
<1>39. CASE WriterTakes
  BY <1>39 DEF WriterTakes
<1>40. CASE WriterWrites
  BY <1>40 DEF WriterWrites
<1>41. CASE SenderTakes \/ SenderSends \/ SenderFails \/ PressStop \/ Capture \/
            ConnectionBreaks \/ UNCHANGED clientVars
  <2>1. UNCHANGED turnVars
    BY <1>41 DEF SenderTakes, SenderSends, SenderFails, PressStop, Capture,
       ConnectionBreaks, turnVars
  <2>2. QED
    BY <2>1, <1>1
<1>42. QED
  BY <1>2, <1>3, <1>4, <1>5, <1>6, <1>7, <1>8, <1>9, <1>10, <1>11, <1>12, <1>13, <1>14,
     <1>15, <1>16, <1>17, <1>18, <1>19, <1>20, <1>21, <1>22, <1>23, <1>24, <1>25, <1>26,
     <1>27, <1>28, <1>29, <1>30, <1>31, <1>32, <1>33, <1>34, <1>35, <1>36, <1>37, <1>38,
     <1>39, <1>40, <1>41
     DEF ClientNext, ThreadsNext, MainNext, ReceiverNext

LEMMA QuietStep ==
  ASSUME ClientScalars, OutcomeFits, QuietInv, [ClientNext]_clientVars
  PROVE  QuietInv'
<1> USE DEF QuietInv, OutcomeFits, Ending, WorkerPlaces, ClientScalars, ReceiverRaises,
            TakeQueue, TakeStream, StopStream, StopRaises, StopAsked, clientVars,
            mainVars, recvVars, sendVars, micVars, gateVars, playVars
<1>1. CASE UNCHANGED quietVars
  BY <1>1 DEF quietVars
<1>2. CASE OpenConnection
  BY <1>2 DEF OpenConnection
<1>3. CASE StartThreads
  BY <1>3 DEF StartThreads
<1>4. CASE Pump
  BY <1>4 DEF Pump
<1>5. CASE Put
  BY <1>5 DEF Put
<1>6. CASE StopMicrophone
  BY <1>6 DEF StopMicrophone
<1>7. CASE Halt
  BY <1>7 DEF Halt
<1>8. CASE FinishSender
  BY <1>8 DEF FinishSender
<1>9. CASE JoinSender
  BY <1>9 DEF JoinSender
<1>10. CASE SendStop
  BY <1>10 DEF SendStop
<1>11. CASE JoinReceiver
  BY <1>11 DEF JoinReceiver
<1>12. CASE Except
  BY <1>12 DEF Except
<1>13. CASE ExceptHalt
  BY <1>13 DEF ExceptHalt
<1>14. CASE CancelSender
  BY <1>14 DEF CancelSender
<1>15. CASE Drain
  BY <1>15 DEF Drain
<1>16. CASE JoinCancelled
  BY <1>16 DEF JoinCancelled
<1>17. CASE DecideFallback
  BY <1>17 DEF DecideFallback
<1>18. CASE Fallback
  BY <1>18 DEF Fallback
<1>19. CASE CloseConnection
  BY <1>19 DEF CloseConnection
<1>20. CASE CleanupPlayer
  BY <1>20 DEF CleanupPlayer
<1>21. CASE CleanupEnds
  BY <1>21 DEF CleanupEnds
<1>22. CASE ReceiveFails
  BY <1>22 DEF ReceiveFails
<1>23. CASE ReceiveStart
  BY <1>23 DEF ReceiveStart
<1>24. CASE PauseMicrophone
  BY <1>24 DEF PauseMicrophone
<1>25. CASE PauseHalts
  BY <1>25 DEF PauseHalts
<1>26. CASE ClearPending
  BY <1>26 DEF ClearPending
<1>27. CASE ReceiveAudio
  BY <1>27 DEF ReceiveAudio
<1>28. CASE ReceiveEnd
  BY <1>28 DEF ReceiveEnd
<1>29. CASE ReceiveCompleted
  BY <1>29 DEF ReceiveCompleted
<1>30. CASE AfterTurn
  BY <1>30 DEF AfterTurn
<1>31. CASE RestartMicrophone
  BY <1>31 DEF RestartMicrophone
<1>32. CASE AssignMicrophone
  BY <1>32 DEF AssignMicrophone
<1>33. CASE StartTurn
  BY <1>33 DEF StartTurn
<1>34. CASE Feed
  BY <1>34 DEF Feed
<1>35. CASE StopTurn
  BY <1>35 DEF StopTurn
<1>36. CASE JoinWriter
  BY <1>36 DEF JoinWriter
<1>37. CASE ConnectionBreaks
  BY <1>37 DEF ConnectionBreaks
<1>38. CASE SenderTakes \/ SenderSends \/ SenderFails \/ WriterBegins \/ WriterOpens \/
            WriterTakes \/ WriterWrites \/ PressStop \/ Capture \/ UNCHANGED clientVars
  <2>1. UNCHANGED quietVars
    BY <1>38 DEF SenderTakes, SenderSends, SenderFails, WriterBegins, WriterOpens,
       WriterTakes, WriterWrites, PressStop, Capture, quietVars
  <2>2. QED
    BY <2>1, <1>1
<1>39. QED
  BY <1>2, <1>3, <1>4, <1>5, <1>6, <1>7, <1>8, <1>9, <1>10, <1>11, <1>12, <1>13, <1>14,
     <1>15, <1>16, <1>17, <1>18, <1>19, <1>20, <1>21, <1>22, <1>23, <1>24, <1>25, <1>26,
     <1>27, <1>28, <1>29, <1>30, <1>31, <1>32, <1>33, <1>34, <1>35, <1>36, <1>37, <1>38
     DEF ClientNext, ThreadsNext, MainNext, ReceiverNext

-------------------------------------------------------------------------------
(* Every step keeps the order of the chunks.                               *)
LEMMA SendNumbers ==
  ASSUME SendTypes
  PROVE  Len(sent) \in Nat /\ Len(sendq) \in Nat /\ Left \in Nat /\ Waiting \in Nat
  BY DEF SendTypes, Left, Waiting

LEMMA HeardPump ==
  ASSUME MicTypes, SendTypes, HeardInv, Pump
  PROVE  HeardInv'
<1>1. UNCHANGED <<mode, outcome, sender, senderError, sending, sent, sendq, captured,
      dropped>>
  BY DEF Pump, clientVars, mainVars, recvVars, sendVars, micVars, gateVars, playVars
<1>2. main = "pump" /\ ~senderError
  BY DEF Pump, StopAsked
<1>3. UNCHANGED <<Left, Waiting, Well, SentInOrder, QueuedInOrder>>
  BY <1>1 DEF Left, Waiting, Well, SentInOrder, QueuedInOrder
<1>4. CASE main' # "put"
  <2>1. main' = "except"
    BY <1>4 DEF Pump
  <2>2. CapturedInOrder'
    BY <2>1 DEF CapturedInOrder
  <2>3. QED
    BY <1>1, <1>2, <1>3, <2>1, <2>2 DEF HeardInv
<1>5. CASE main' = "put"
  <2>1. micq # <<>> /\ held' = Head(micq) /\ micq' = Tail(micq)
    BY <1>5 DEF Pump
  <2>2. /\ Len(micq) \in Nat \ {0} /\ Len(micq') = Len(micq) - 1 /\ held' = micq[1]
        /\ \A i \in 1..Len(micq) - 1 : micq'[i] = micq[i + 1]
    BY <2>1, QueueShrinks DEF MicTypes
  <2>3. 1 \in 1..Len(micq) /\ \A i \in 1..Len(micq') : i \in 1..Len(micq) - 1 /\ i +
        1 \in 1..Len(micq)
    BY <2>2
  <2>4. captured \in Nat /\ Waiting \in Nat
    BY SendNumbers DEF MicTypes
  <2>5. CapturedInOrder => CapturedInOrder'
    BY <1>1, <1>2, <1>3, <1>5, <2>2, <2>3, <2>4 DEF CapturedInOrder
  <2>6. QED
    BY <1>1, <1>2, <1>3, <1>5, <2>5 DEF HeardInv
<1>6. QED
  BY <1>4, <1>5

LEMMA HeardPut ==
  ASSUME MicTypes, SendTypes, SenderInv, HeardInv, Put
  PROVE  HeardInv'
<1>1. UNCHANGED <<mode, outcome, sender, senderError, sending, sent, captured, micq,
      dropped>>
  BY DEF Put, clientVars, mainVars, recvVars, sendVars, micVars, gateVars, playVars
<1>2. main = "put"
  BY DEF Put
<1>3. UNCHANGED <<Left, Well, SentInOrder>>
  BY <1>1 DEF Left, Well, SentInOrder
<1>4. CASE Len(sendq) < SendMax
  <2>1. sendq' = Append(sendq, held) /\ main' = (IF dropped THEN "except" ELSE "pump")
    BY <1>4 DEF Put
  <2>2. sendq \in Seq(Nat) /\ held \in Nat
    BY DEF SendTypes, MicTypes
  <2>3. /\ Len(sendq') = Len(sendq) + 1 /\ sendq'[Len(sendq) + 1] = held
        /\ \A i \in 1..Len(sendq) : sendq'[i] = sendq[i]
    BY <2>1, <2>2, QueueGrows
  <2>4. Waiting' = Waiting + 1 /\ Left \in Nat /\ Len(sendq) \in Nat /\ Waiting = Left +
        Len(sendq)
    BY <1>3, <2>3, SendNumbers DEF Waiting
  <2>5. \A i \in 1..Len(sendq') : i \in 1..Len(sendq) \/ i = Len(sendq) + 1
    BY <2>3, <2>4
  <2>6. CapturedInOrder /\ QueuedInOrder => QueuedInOrder'
    BY <1>1, <1>2, <1>3, <2>3, <2>4, <2>5 DEF QueuedInOrder, CapturedInOrder
  <2>7. CapturedInOrder => CapturedInOrder'
    BY <1>1, <1>2, <2>1, <2>4 DEF CapturedInOrder
  <2>8. QED
    BY <1>1, <1>2, <1>3, <2>1, <2>6, <2>7 DEF HeardInv
<1>5. CASE ~(Len(sendq) < SendMax)
  <2>1. UNCHANGED sendq /\ main' = "except"
    BY <1>5 DEF Put
  <2>2. UNCHANGED QueuedInOrder /\ CapturedInOrder'
    BY <1>1, <2>1 DEF QueuedInOrder, CapturedInOrder, Left
  <2>3. QED
    BY <1>1, <1>3, <2>1, <2>2 DEF HeardInv
<1>6. QED
  BY <1>4, <1>5

LEMMA HeardFinish ==
  ASSUME MicTypes, SendTypes, HeardInv, FinishSender
  PROVE  HeardInv'
<1>1. UNCHANGED <<mode, outcome, sender, senderError, sending, sent, held, captured, micq,
      dropped>>
  BY DEF FinishSender, clientVars, mainVars, recvVars, sendVars, micVars, gateVars, playVars
<1>2. main' \in {"join_sender", "except"}
  BY DEF FinishSender
<1>3. UNCHANGED <<Left, Well, SentInOrder>>
  BY <1>1 DEF Left, Well, SentInOrder
<1>4. CapturedInOrder'
  BY <1>2 DEF CapturedInOrder
<1>5. QueuedInOrder => QueuedInOrder'
  <2>1. CASE sendq' = Append(sendq, LastChunk)
    <3>1. /\ Len(sendq') = Len(sendq) + 1 /\ sendq'[Len(sendq) + 1] = LastChunk
          /\ \A i \in 1..Len(sendq) : sendq'[i] = sendq[i]
      BY <2>1, QueueGrows DEF SendTypes, LastChunk
    <3>2. \A i \in 1..Len(sendq') : i \in 1..Len(sendq) \/ i = Len(sendq) + 1
      BY <3>1, SendNumbers
    <3>3. QED
      BY <1>1, <1>3, <3>1, <3>2 DEF QueuedInOrder
  <2>2. CASE UNCHANGED sendq
    BY <1>1, <1>3, <2>2 DEF QueuedInOrder
  <2>3. QED
    BY <2>1, <2>2 DEF FinishSender
<1>6. QED
  BY <1>1, <1>2, <1>3, <1>4, <1>5 DEF HeardInv

LEMMA HeardTake ==
  ASSUME SendTypes, SenderInv, HeardInv, SenderTakes
  PROVE  HeardInv'
<1>1. UNCHANGED <<mode, main, outcome, senderError, sent, held, captured, micq, dropped>>
  BY DEF SenderTakes, clientVars, mainVars, recvVars, sendVars, micVars, gateVars, playVars
<1>2. sender = "get" /\ sendq # <<>> /\ sendq' = Tail(sendq) /\ sending' = Head(sendq)
  BY DEF SenderTakes
<1>3. /\ Len(sendq) \in Nat \ {0} /\ Len(sendq') = Len(sendq) - 1 /\ sending' = sendq[1]
      /\ \A i \in 1..Len(sendq) - 1 : sendq'[i] = sendq[i + 1]
  BY <1>2, QueueShrinks DEF SendTypes
<1>4. 1 \in 1..Len(sendq) /\ \A i \in 1..Len(sendq') : i \in 1..Len(sendq) - 1 /\ i +
      1 \in 1..Len(sendq)
  BY <1>3
<1>5. sending = NoChunk /\ Left = Len(sent) /\ Len(sent) \in Nat /\ Waiting = Len(sent) +
      Len(sendq)
  BY <1>2, SendNumbers DEF SenderInv, Left, Waiting
<1>6. UNCHANGED <<Well, SentInOrder>>
  BY <1>1 DEF Well, SentInOrder
<1>7. CASE sendq[1] = LastChunk /\ Well
  <2>1. Len(sendq) = 1 /\ ~Pumping
    BY <1>4, <1>7 DEF SenderInv
  <2>2. CapturedInOrder'
    BY <1>1, <2>1 DEF CapturedInOrder, Pumping
  <2>3. QueuedInOrder'
    BY <1>3, <1>7, <2>1 DEF QueuedInOrder, NoChunk, LastChunk
  <2>4. QED
    BY <1>1, <1>6, <2>2, <2>3 DEF HeardInv
<1>8. CASE sendq[1] # LastChunk /\ QueuedInOrder
  <2>1. sending' = Len(sent) + 1 /\ Left' = Len(sent) + 1
    BY <1>1, <1>3, <1>4, <1>5, <1>8 DEF QueuedInOrder, Left, NoChunk
  <2>2. Waiting' = Waiting
    BY <1>3, <1>5, <2>1 DEF Waiting
  <2>3. QueuedInOrder'
    <3>1. ASSUME NEW i \in 1..Len(sendq')
          PROVE  sendq'[i] \in {Left' + i, LastChunk}
      <4>1. sendq'[i] \in {Left + (i + 1), LastChunk}
        BY <1>3, <1>4, <1>8 DEF QueuedInOrder
      <4>2. QED
        BY <1>3, <1>5, <2>1, <4>1
    <3>2. QED
      BY <1>1, <2>1, <3>1 DEF QueuedInOrder, NoChunk, LastChunk
  <2>4. UNCHANGED CapturedInOrder
    BY <1>1, <2>2 DEF CapturedInOrder
  <2>5. QED
    BY <1>1, <1>6, <2>3, <2>4 DEF HeardInv
<1>9. CASE ~QueuedInOrder \/ ~Well
  BY <1>1, <1>2, <1>6, <1>9 DEF HeardInv, SenderInv
<1>10. QED
  BY <1>7, <1>8, <1>9

LEMMA HeardCapture ==
  ASSUME MicTypes, SendTypes, TurnInv, HeardInv, Capture, ClientAssumption
  PROVE  HeardInv'
<1>1. UNCHANGED <<mode, main, outcome, sender, senderError, sending, sent, sendq, held>>
  BY DEF Capture, clientVars, mainVars, recvVars, sendVars, micVars, gateVars, playVars
<1>2. main \notin {"open", "start"} /\ captured' = captured + 1
  BY DEF Capture, Capturing, TurnInv
<1>3. UNCHANGED <<Left, Waiting, Well, SentInOrder, QueuedInOrder>>
  BY <1>1 DEF Left, Waiting, Well, SentInOrder, QueuedInOrder
<1>4. /\ captured \in Nat /\ captured' \in Nat \ {0} /\ micq \in Seq(Nat \ {0}) /\
         held \in Nat
      /\ Waiting \in Nat /\ Len(micq) \in Nat /\ Len(micq) <= CaptureMax /\
         CaptureMax \in Nat \ {0}
  BY <1>2, SendNumbers, ClientAssumption DEF MicTypes
<1>5. CASE Len(micq) < CaptureMax
  <2>1. micq' = Append(micq, captured') /\ UNCHANGED dropped
    BY <1>5 DEF Capture
  <2>2. /\ Len(micq') = Len(micq) + 1 /\ micq'[Len(micq) + 1] = captured + 1
        /\ \A i \in 1..Len(micq) : micq'[i] = micq[i]
    BY <1>2, <1>4, <2>1, QueueGrows
  <2>3. \A i \in 1..Len(micq') : i \in 1..Len(micq) \/ i = Len(micq) + 1
    BY <1>4, <2>2
  <2>4. micq # <<>> => micq' # <<>> /\ micq'[1] = micq[1]
    <3>1. micq # <<>> => 1 \in 1..Len(micq) /\ 1 \in 1..Len(micq')
      BY <1>4, <2>2
    <3>2. QED
      BY <2>2, <3>1
  <2>5. CapturedInOrder => CapturedInOrder'
    <3>1. ASSUME NEW n \in Nat, captured = n + Len(micq), \A i \in 1..Len(micq) : micq[i] =
          n + i
          PROVE  captured' = n + Len(micq') /\ \A i \in 1..Len(micq') : micq'[i] = n + i
      <4>1. captured' = n + Len(micq')
        BY <1>2, <1>4, <2>2, <3>1
      <4>2. ASSUME NEW i \in 1..Len(micq')
            PROVE  micq'[i] = n + i
        <5>1. CASE i \in 1..Len(micq)
          BY <2>2, <3>1, <5>1
        <5>2. CASE i = Len(micq) + 1
          BY <1>4, <2>2, <3>1, <5>2
        <5>3. QED
          BY <2>3, <5>1, <5>2
      <4>3. QED
        BY <4>1, <4>2
    <3>2. QED
      BY <1>1, <1>2, <1>3, <1>4, <2>1, <2>4, <3>1 DEF CapturedInOrder
  <2>6. QED
    BY <1>1, <1>2, <1>3, <2>5 DEF HeardInv
<1>6. CASE ~(Len(micq) < CaptureMax)
  <2>1. dropped' = TRUE /\ UNCHANGED micq
    BY <1>6 DEF Capture
  <2>2. 1 \in 1..Len(micq) /\ micq # <<>>
    BY <1>4, <1>6
  <2>3. CapturedInOrder => CapturedInOrder'
    BY <1>1, <1>2, <1>3, <1>4, <2>1, <2>2 DEF CapturedInOrder
  <2>4. QED
    BY <1>1, <1>2, <1>3, <2>3 DEF HeardInv
<1>7. QED
  BY <1>5, <1>6

LEMMA HeardStep ==
  ASSUME ClientScalars, MicTypes, SendTypes, OutcomeFits, SenderInv, TurnInv, HeardInv,
         QuietInv, ClientAssumption, [ClientNext]_clientVars
  PROVE  HeardInv'
<1> USE DEF HeardInv, SentInOrder, QueuedInOrder, CapturedInOrder, SenderInv,
            OutcomeFits, Ending, Well, Pumping, WorkerPlaces, ClientScalars, MicTypes,
            SendTypes, NoChunk, LastChunk, Left, Waiting, StopAsked, clientVars,
            mainVars, recvVars, sendVars, micVars, gateVars, playVars
<1>1. CASE UNCHANGED heardVars
  BY <1>1 DEF heardVars
<1>2. CASE OpenConnection
  BY <1>2 DEF OpenConnection
<1>3. CASE StartThreads
  BY <1>3 DEF StartThreads
<1>4. CASE Pump
  BY HeardPump, <1>4
<1>5. CASE Put
  BY HeardPut, <1>5
<1>6. CASE StopMicrophone
  BY <1>6 DEF StopMicrophone
<1>7. CASE Halt
  BY <1>7 DEF Halt
<1>8. CASE FinishSender
  BY HeardFinish, <1>8
<1>9. CASE JoinSender
  BY <1>9 DEF JoinSender
<1>10. CASE SendStop
  BY <1>10 DEF SendStop
<1>11. CASE JoinReceiver
  BY <1>11 DEF JoinReceiver
<1>12. CASE Except
  BY <1>12 DEF Except
<1>13. CASE ExceptHalt
  BY <1>13 DEF ExceptHalt
<1>14. CASE CancelSender
  BY <1>14 DEF CancelSender
<1>15. CASE Drain
  BY <1>15 DEF Drain
<1>16. CASE JoinCancelled
  BY <1>16 DEF JoinCancelled
<1>17. CASE DecideFallback
  BY <1>17 DEF DecideFallback
<1>18. CASE Fallback
  BY <1>18 DEF Fallback
<1>19. CASE CloseConnection
  BY <1>19 DEF CloseConnection
<1>20. CASE CleanupPlayer
  BY <1>20 DEF CleanupPlayer
<1>21. CASE CleanupEnds
  BY <1>21 DEF CleanupEnds
<1>22. CASE SenderTakes
  BY HeardTake, <1>22
<1>23. CASE SenderSends
  BY <1>23 DEF SenderSends
<1>24. CASE SenderFails
  BY <1>24 DEF SenderFails
<1>25. CASE ClearPending
  BY <1>25 DEF ClearPending, QuietInv
<1>26. CASE Capture
  BY HeardCapture, <1>26
<1>27. CASE ReceiveFails \/ ReceiveStart \/ PauseMicrophone \/ PauseHalts \/
            ReceiveAudio \/ ReceiveEnd \/ ReceiveCompleted \/ AfterTurn \/
            RestartMicrophone \/ AssignMicrophone \/ StartTurn \/ Feed \/ StopTurn \/
            JoinWriter \/ WriterBegins \/ WriterOpens \/ WriterTakes \/ WriterWrites \/
            PressStop \/ ConnectionBreaks \/ UNCHANGED clientVars
  <2>1. UNCHANGED heardVars
    BY <1>27 DEF ReceiveFails, ReceiveStart, PauseMicrophone, PauseHalts, ReceiveAudio,
       ReceiveEnd, ReceiveCompleted, AfterTurn, RestartMicrophone, AssignMicrophone,
       StartTurn, Feed, StopTurn, JoinWriter, WriterBegins, WriterOpens, WriterTakes,
       WriterWrites, PressStop, ConnectionBreaks, heardVars
  <2>2. QED
    BY <2>1, <1>1
<1>28. QED
  BY <1>2, <1>3, <1>4, <1>5, <1>6, <1>7, <1>8, <1>9, <1>10, <1>11, <1>12, <1>13, <1>14,
     <1>15, <1>16, <1>17, <1>18, <1>19, <1>20, <1>21, <1>22, <1>23, <1>24, <1>25, <1>26,
     <1>27
     DEF ClientNext, ThreadsNext, MainNext, ReceiverNext

-------------------------------------------------------------------------------
(* The steps of the player and its writer keep the count of the frames.    *)
LEMMA FeedStep ==
  ASSUME PlayTypes, TurnInv, PlayInv, Feed
  PROVE  PlayInv'
<1>1. UNCHANGED <<main, writer, queueSet, playerError, played, buffered>> /\ receiver = "feed" /\
      receiver' # "after_turn"
  BY DEF Feed, ReceiverRaises, clientVars, mainVars, recvVars, sendVars, micVars, gateVars,
     playVars
<1>2. PlayerTaken' = PlayerTaken
  BY <1>1 DEF PlayerTaken
<1>3. CASE PlayerTaken
  BY <1>2, <1>3 DEF PlayInv
<1>4. CASE ~PlayerTaken
  <2>1. EndIsLast /\ (~playerError => FramesCounted) /\ queueSet /\ writer \notin {"none",
        "dead"}
    BY <1>1, <1>4 DEF PlayInv, TurnInv
  <2>2. fed \in Nat /\ played \in Nat /\ buffered \in Nat /\ playq \in Seq(Nat) /\ Len(playq) \in Nat
    BY DEF PlayTypes
  <2>3. CASE playq' = Append(playq, fed + 1) /\ fed' = fed + 1
    <3>1. /\ Len(playq') = Len(playq) + 1 /\ playq'[Len(playq) + 1] = fed + 1
          /\ \A i \in 1..Len(playq) : playq'[i] = playq[i]
      BY <2>2, <2>3, QueueGrows
    <3>2. \A i \in 1..Len(playq') : i \in 1..Len(playq) \/ i = Len(playq) + 1
      BY <2>2, <3>1
    <3>3. \A i \in 1..Len(playq') : playq'[i] # LastFrame
      BY <2>1, <2>2, <3>1, <3>2 DEF EndIsLast, LastFrame
    <3>4. EndIsLast'
      BY <3>3 DEF EndIsLast, LastFrame
    <3>5. ~playerError => FramesCounted'
      BY <1>1, <2>1, <2>2, <2>3, <3>1 DEF FramesCounted
    <3>6. QED
      BY <1>1, <2>1, <3>4, <3>5 DEF PlayInv
  <2>4. CASE UNCHANGED <<playq, fed>>
    BY <1>1, <2>1, <2>4 DEF PlayInv, EndIsLast, FramesCounted
  <2>5. QED
    BY <2>3, <2>4 DEF Feed
<1>5. QED
  BY <1>3, <1>4

LEMMA StopTurnStep ==
  ASSUME PlayTypes, TurnInv, PlayInv, StopTurn, ClientAssumption
  PROVE  PlayInv'
<1>1. /\ UNCHANGED <<main, writer, fed, played, buffered>> /\ receiver = "stop_turn" /\ receiver' #
         "after_turn"
      /\ queueSet' = FALSE /\ TakeQueue
  BY DEF StopTurn, TakeQueue, clientVars, mainVars, recvVars, sendVars, micVars, gateVars,
     playVars
<1>2. PlayerTaken' = PlayerTaken
  BY <1>1 DEF PlayerTaken
<1>3. CASE PlayerTaken
  BY <1>2, <1>3 DEF PlayInv
<1>4. CASE ~PlayerTaken
  <2>1. EndIsLast /\ (~playerError => FramesCounted) /\ queueSet /\ writer \notin {"none",
        "dead"}
    BY <1>1, <1>4 DEF PlayInv, TurnInv
  <2>2. fed \in Nat /\ played \in Nat /\ buffered \in Nat /\ playq \in Seq(Nat) /\ Len(playq) \in Nat /\
        PlaybackMax \in Nat \ {0}
    BY ClientAssumption DEF PlayTypes
  <2>3. \A i \in 1..Len(playq) : playq[i] # LastFrame
    BY <2>1 DEF EndIsLast
  <2>4. CASE playq' = Append(playq, LastFrame) /\ UNCHANGED playerError
    <3>1. /\ Len(playq') = Len(playq) + 1 /\ playq'[Len(playq) + 1] = LastFrame
          /\ \A i \in 1..Len(playq) : playq'[i] = playq[i]
      BY <2>2, <2>4, QueueGrows DEF LastFrame
    <3>2. \A i \in 1..Len(playq') : i \in 1..Len(playq) \/ i = Len(playq')
      BY <2>2, <3>1
    <3>3. EndIsLast'
      BY <1>1, <2>3, <3>1, <3>2 DEF EndIsLast, LastFrame
    <3>4. ~playerError => FramesCounted'
      <4>1. playq' # <<>>
        BY <2>2, <3>1
      <4>2. QED
        BY <1>1, <2>1, <2>2, <3>1, <4>1 DEF FramesCounted
    <3>5. QED
      BY <1>1, <2>1, <2>4, <3>3, <3>4 DEF PlayInv
  <2>5. CASE playq' = Append(Tail(playq), LastFrame) /\ playerError' = TRUE /\ playq # <<>>
    <3> DEFINE rest == Tail(playq)
    <3>1. rest \in Seq(Nat) /\ Len(rest) = Len(playq) - 1 /\ \A i \in 1..Len(playq) - 1 :
          rest[i] = playq[i + 1]
      BY <2>2, <2>5, QueueShrinks
    <3>2. playq' = Append(rest, LastFrame)
      BY <2>5
    <3> HIDE DEF rest
    <3>3. Len(playq') = Len(rest) + 1 /\ \A i \in 1..Len(rest) : playq'[i] = rest[i]
      BY <3>1, <3>2, QueueGrows DEF LastFrame
    <3>4. \A i \in 1..Len(playq') : i = Len(playq') \/ (i \in 1..Len(rest) /\
          i \in 1..Len(playq) - 1 /\ i + 1 \in 1..Len(playq))
      BY <2>2, <3>1, <3>3
    <3>5. EndIsLast'
      BY <1>1, <2>3, <3>1, <3>3, <3>4 DEF EndIsLast, LastFrame
    <3>6. QED
      BY <1>1, <2>1, <2>5, <3>5 DEF PlayInv
  <2>6. QED
    BY <1>1, <2>1, <2>2, <2>4, <2>5 DEF TakeQueue
<1>5. QED
  BY <1>3, <1>4

LEMMA TakeFrameStep ==
  ASSUME PlayTypes, TurnInv, PlayInv, WriterTakes
  PROVE  PlayInv'
<1>1. /\ UNCHANGED <<main, receiver, queueSet, playerError, fed, played>>
      /\ writer = "get" /\ playq # <<>> /\ playq' = Tail(playq)
  BY DEF WriterTakes, clientVars, mainVars, recvVars, sendVars, micVars, gateVars, playVars
<1>2. PlayerTaken' = PlayerTaken
  BY <1>1 DEF PlayerTaken
<1>3. CASE PlayerTaken
  BY <1>2, <1>3 DEF PlayInv
<1>4. CASE ~PlayerTaken
  <2>1. EndIsLast /\ (~playerError => FramesCounted) /\ (receiver = "after_turn" =>
        ~playerError)
    BY <1>4 DEF PlayInv
  <2>2. fed \in Nat /\ played \in Nat /\ buffered \in Nat /\ Len(playq) \in Nat \ {0} /\
        playq \in Seq(Nat)
    BY <1>1, QueueShrinks DEF PlayTypes
  <2>3. /\ playq' \in Seq(Nat) /\ Len(playq') = Len(playq) - 1 /\ Head(playq) = playq[1]
        /\ \A i \in 1..Len(playq) - 1 : playq'[i] = playq[i + 1]
    BY <1>1, <2>2, QueueShrinks
  <2>4. \A i \in 1..Len(playq') : i \in 1..Len(playq) - 1 /\ i + 1 \in 1..Len(playq)
    BY <2>2, <2>3
  <2>5. EndIsLast'
    <3>1. SUFFICES ASSUME NEW i \in 1..Len(playq'), playq'[i] = LastFrame
                   PROVE  i = Len(playq') /\ ~queueSet
      BY <1>1 DEF EndIsLast, LastFrame
    <3>2. i + 1 \in 1..Len(playq) /\ playq[i + 1] = LastFrame
      BY <2>3, <2>4, <3>1
    <3>3. i + 1 = Len(playq) /\ ~queueSet
      BY <2>1, <3>2 DEF EndIsLast
    <3>4. QED
      BY <2>2, <2>3, <3>3
  <2>6. CASE playq[1] = LastFrame /\ UNCHANGED buffered
             /\ writer' = (IF buffered > 0 THEN "flush" ELSE "ended")
    <3>1. 1 \in 1..Len(playq)
      BY <2>2
    <3>2. Len(playq) = 1 /\ ~queueSet
      BY <2>1, <2>6, <3>1 DEF EndIsLast
    <3>3. playq' = <<>>
      BY <2>3, <3>2
    <3>4. ~playerError => FramesCounted'
      BY <1>1, <2>1, <2>2, <2>6, <3>2, <3>3 DEF FramesCounted
    <3>5. writer' # "none"
      BY <2>6
    <3>6. QED
      BY <1>1, <2>1, <2>5, <3>4, <3>5 DEF PlayInv
  <2>7. CASE playq[1] # LastFrame /\ buffered' = buffered + 1 /\ writer' \in {"get", "write"}
    <3>1. CASE queueSet /\ ~playerError
      BY <1>1, <2>1, <2>2, <2>3, <2>5, <2>7, <3>1 DEF FramesCounted, PlayInv
    <3>2. CASE ~queueSet /\ ~playerError
      <4>1. playq[Len(playq)] = LastFrame /\ fed = played + buffered + Len(playq) - 1
        BY <1>1, <2>1, <3>2 DEF FramesCounted
      <4>2. Len(playq) # 1
        BY <2>7, <4>1
      <4>3. Len(playq') \in 1..Len(playq) - 1 /\ Len(playq') + 1 = Len(playq)
        BY <2>2, <2>3, <4>2
      <4>4. playq' # <<>> /\ playq'[Len(playq')] = LastFrame
              /\ fed = played + buffered' + Len(playq') - 1
        BY <2>2, <2>3, <2>7, <4>1, <4>3
      <4>5. FramesCounted'
        BY <1>1, <2>7, <3>2, <4>4 DEF FramesCounted
      <4>6. QED
        BY <1>1, <2>5, <2>7, <3>2, <4>5 DEF PlayInv
    <3>3. CASE playerError
      BY <1>1, <2>1, <2>5, <2>7, <3>3 DEF PlayInv
    <3>4. QED
      BY <3>1, <3>2, <3>3
  <2>8. QED
    BY <2>3, <2>6, <2>7 DEF WriterTakes
<1>5. QED
  BY <1>3, <1>4

LEMMA WriteStep ==
  ASSUME PlayTypes, TurnInv, PlayInv, WriterWrites
  PROVE  PlayInv'
<1>1. UNCHANGED <<main, receiver, queueSet, playq, fed>> /\ writer \in {"write", "flush"}
  BY DEF WriterWrites, clientVars, mainVars, recvVars, sendVars, micVars, gateVars, playVars
<1>2. PlayerTaken' = PlayerTaken /\ EndIsLast' = EndIsLast
  BY <1>1 DEF PlayerTaken, EndIsLast
<1>3. CASE PlayerTaken
  BY <1>2, <1>3 DEF PlayInv
<1>4. CASE ~PlayerTaken
  <2>1. EndIsLast /\ (~playerError => FramesCounted) /\ receiver # "after_turn"
    BY <1>1, <1>4 DEF PlayInv, TurnInv
  <2>2. fed \in Nat /\ played \in Nat /\ buffered \in Nat /\ playq \in Seq(Nat)
    BY DEF PlayTypes
  <2>3. CASE played' = played + buffered /\ buffered' = 0 /\ UNCHANGED playerError
             /\ writer' = (IF writer = "write" THEN "get" ELSE "ended")
    <3>1. played' + buffered' = played + buffered /\ Len(playq) \in Nat
      BY <2>2, <2>3
    <3>2. SUFFICES ASSUME ~playerError
                   PROVE  FramesCounted'
      BY <1>1, <1>2, <2>1, <2>3 DEF PlayInv
    <3>3. CASE writer = "write"
      BY <1>1, <2>1, <2>2, <2>3, <3>1, <3>2, <3>3 DEF FramesCounted
    <3>4. CASE writer = "flush"
      <4>1. ~queueSet /\ playq = <<>> /\ fed = played + buffered
        BY <2>1, <3>2, <3>4 DEF FramesCounted
      <4>2. ~queueSet' /\ playq' = <<>> /\ fed' = played' /\ buffered' = 0
              /\ writer' = "ended"
        BY <1>1, <2>2, <2>3, <3>4, <4>1
      <4>3. QED
        BY <4>2 DEF FramesCounted
    <3>5. QED
      BY <1>1, <3>3, <3>4
  <2>4. CASE writer' = "ended" /\ playerError' = TRUE
    BY <1>1, <1>2, <2>1, <2>4 DEF PlayInv
  <2>5. QED
    BY <2>3, <2>4 DEF WriterWrites
<1>5. QED
  BY <1>3, <1>4

LEMMA PlayStep ==
  ASSUME ClientScalars, PlayTypes, OutcomeFits, TurnInv, PlayInv, ClientAssumption,
         [ClientNext]_clientVars
  PROVE  PlayInv'
<1> USE DEF TurnInv, PlayInv, EndIsLast, FramesCounted, OutcomeFits, Ending,
            PlayerTaken, Over, WorkerPlaces, ClientScalars, PlayTypes, ReceiverRaises,
            StopAsked, LastFrame, clientVars, mainVars, recvVars, sendVars, micVars,
            gateVars, playVars
<1>1. CASE UNCHANGED playInvVars
  BY <1>1 DEF playInvVars
<1>2. CASE OpenConnection
  BY <1>2 DEF OpenConnection
<1>3. CASE StartThreads
  BY <1>3 DEF StartThreads
<1>4. CASE Pump
  BY <1>4 DEF Pump
<1>5. CASE Put
  BY <1>5 DEF Put
<1>6. CASE StopMicrophone
  BY <1>6 DEF StopMicrophone
<1>7. CASE Halt
  BY <1>7 DEF Halt
<1>8. CASE FinishSender
  BY <1>8 DEF FinishSender
<1>9. CASE JoinSender
  BY <1>9 DEF JoinSender
<1>10. CASE SendStop
  BY <1>10 DEF SendStop
<1>11. CASE JoinReceiver
  BY <1>11 DEF JoinReceiver
<1>12. CASE Except
  BY <1>12 DEF Except
<1>13. CASE ExceptHalt
  BY <1>13 DEF ExceptHalt
<1>14. CASE CancelSender
  BY <1>14 DEF CancelSender
<1>15. CASE Drain
  BY <1>15 DEF Drain
<1>16. CASE JoinCancelled
  BY <1>16 DEF JoinCancelled
<1>17. CASE DecideFallback
  BY <1>17 DEF DecideFallback
<1>18. CASE Fallback
  BY <1>18 DEF Fallback
<1>19. CASE CloseConnection
  BY <1>19 DEF CloseConnection
<1>20. CASE CleanupPlayer
  BY <1>20 DEF CleanupPlayer
<1>21. CASE CleanupEnds
  BY <1>21 DEF CleanupEnds
<1>22. CASE ReceiveFails
  BY <1>22 DEF ReceiveFails
<1>23. CASE ReceiveStart
  BY <1>23 DEF ReceiveStart
<1>24. CASE PauseMicrophone
  BY <1>24 DEF PauseMicrophone
<1>25. CASE PauseHalts
  BY <1>25 DEF PauseHalts
<1>26. CASE ClearPending
  BY <1>26 DEF ClearPending
<1>27. CASE ReceiveAudio
  BY <1>27 DEF ReceiveAudio
<1>28. CASE ReceiveEnd
  BY <1>28 DEF ReceiveEnd
<1>29. CASE ReceiveCompleted
  BY <1>29 DEF ReceiveCompleted
<1>30. CASE AfterTurn
  BY <1>30 DEF AfterTurn
<1>31. CASE RestartMicrophone
  BY <1>31 DEF RestartMicrophone
<1>32. CASE AssignMicrophone
  BY <1>32 DEF AssignMicrophone
<1>33. CASE StartTurn
  BY <1>33 DEF StartTurn
<1>34. CASE Feed
  BY FeedStep, <1>34
<1>35. CASE StopTurn
  BY StopTurnStep, <1>35
<1>36. CASE JoinWriter
  BY <1>36 DEF JoinWriter
<1>37. CASE WriterBegins
  BY <1>37 DEF WriterBegins
<1>38. CASE WriterOpens
  BY <1>38 DEF WriterOpens
<1>39. CASE WriterTakes
  BY TakeFrameStep, <1>39
<1>40. CASE WriterWrites
  BY WriteStep, <1>40
<1>41. CASE SenderTakes \/ SenderSends \/ SenderFails \/ PressStop \/ Capture \/
            ConnectionBreaks \/ UNCHANGED clientVars
  <2>1. UNCHANGED playInvVars
    BY <1>41 DEF SenderTakes, SenderSends, SenderFails, PressStop, Capture,
       ConnectionBreaks, playInvVars
  <2>2. QED
    BY <2>1, <1>1
<1>42. QED
  BY <1>2, <1>3, <1>4, <1>5, <1>6, <1>7, <1>8, <1>9, <1>10, <1>11, <1>12, <1>13, <1>14,
     <1>15, <1>16, <1>17, <1>18, <1>19, <1>20, <1>21, <1>22, <1>23, <1>24, <1>25, <1>26,
     <1>27, <1>28, <1>29, <1>30, <1>31, <1>32, <1>33, <1>34, <1>35, <1>36, <1>37, <1>38,
     <1>39, <1>40, <1>41
     DEF ClientNext, ThreadsNext, MainNext, ReceiverNext

-------------------------------------------------------------------------------
ClientInv ==
  /\ ClientScalars /\ MicTypes /\ SendTypes /\ PlayTypes
  /\ OutcomeFits /\ SenderInv /\ HeardInv /\ TurnInv /\ PlayInv /\ QuietInv

LEMMA ClientInvInit ==
  ASSUME ClientInit
  PROVE  ClientInv
<1> USE DEF ClientInit
<1>1. \A S : <<>> \in Seq(S) /\ Len(<<>>) = 0 /\ 1..0 = {}
  OBVIOUS
<1>2. MicTypes /\ SendTypes /\ PlayTypes
  BY <1>1, ClientAssumption DEF MicTypes, SendTypes, PlayTypes, NoChunk
<1>3. ClientScalars /\ OutcomeFits /\ TurnInv /\ QuietInv
  BY DEF ClientScalars, WorkerPlaces, OutcomeFits, Ending, TurnInv, QuietInv, PlayerTaken, Over
<1>4. SenderInv
  BY <1>1 DEF SenderInv, NoChunk, LastChunk, Pumping
<1>5. HeardInv
  BY <1>1 DEF HeardInv, SentInOrder, QueuedInOrder, CapturedInOrder, Waiting, Left, NoChunk
<1>6. PlayInv
  BY <1>1 DEF PlayInv, EndIsLast, FramesCounted
<1>7. QED
  BY <1>2, <1>3, <1>4, <1>5, <1>6 DEF ClientInv

(* The places of the five threads, what lies between them, and how far the *)
(* worker has come, fit together at every step, for queues of any size and *)
(* any number of chunks and turns.                                         *)
THEOREM ClientInvariant == ClientSpec => []ClientInv
<1>1. ClientInv /\ [ClientNext]_clientVars => ClientInv'
  BY ClientScalarsStep, MicTypesStep, SendTypesStep, PlayTypesStep, OutcomeStep, SenderStep,
     HeardStep, TurnStep, PlayStep, QuietStep, ClientAssumption DEF ClientInv
<1>2. QED
  BY <1>1, ClientInvInit, PTL DEF ClientSpec

(* Whatever overtakes what, a session that has not failed has sent what    *)
(* was captured without a gap, and one that completes has sent all of it.  *)
THEOREM HeardTheorem == ClientSpec => []HeardWithoutGap
<1>1. ClientInv => HeardWithoutGap
  <2> SUFFICES ASSUME ClientInv, mode = "headphones"
               PROVE  /\ outcome \in {"none", "completed"} => sent = UpTo(Len(sent))
                      /\ outcome = "completed" => sendq = <<>> /\ sending = NoChunk
    BY DEF HeardWithoutGap
  <2>1. ASSUME outcome \in {"none", "completed"}
        PROVE  sent = UpTo(Len(sent))
    <3>1. sent \in Seq(Nat) /\ \A i \in 1..Len(sent) : sent[i] = i
      BY <2>1 DEF ClientInv, SendTypes, HeardInv, SentInOrder, Well
    <3>2. sent = [i \in 1..Len(sent) |-> sent[i]]
      BY <3>1
    <3>3. QED
      BY <3>1, <3>2 DEF UpTo
  <2>2. ASSUME outcome = "completed"
        PROVE  sendq = <<>> /\ sending = NoChunk
    <3>1. main \in {"close", "cleanup", "join_player", "check_player", "done"}
      BY <2>2 DEF ClientInv, OutcomeFits
    <3>2. sender = "joined" /\ ~senderError
      BY <2>2 DEF ClientInv, SenderInv, Well
    <3>3. QED
      BY <2>2, <3>1, <3>2 DEF ClientInv, SenderInv, Well, Pumping
  <2>3. QED
    BY <2>1, <2>2
<1>2. QED
  BY <1>1, ClientInvariant, PTL

(* In safe mode a turn is played only after its microphone was told to     *)
(* stop, also by a worker that fails or is stopped by the user meanwhile,  *)
(* and the microphone is started again only after the writer was waited    *)
(* for.                                                                    *)
THEOREM PauseTheorem == ClientSpec => []PlaybackPausesMicrophone
<1>1. ClientInv => PlaybackPausesMicrophone
  BY DEF ClientInv, TurnInv, PlaybackPausesMicrophone, Over
<1>2. QED
  BY <1>1, ClientInvariant, PTL

(* A turn ended without an error by a writer that had begun was written in *)
(* full: what is held back is flushed before the writer ends, and the end  *)
(* takes the place of a frame only with an error.                          *)
THEOREM PlayedTheorem == ClientSpec => []EndedTurnIsPlayed
<1>1. ClientInv => EndedTurnIsPlayed
  BY DEF ClientInv, TurnInv, PlayInv, FramesCounted, EndedTurnIsPlayed
<1>2. QED
  BY <1>1, ClientInvariant, PTL

(* A session that completes has left no thread, connection or capture      *)
(* behind.                                                                 *)
THEOREM QuietTheorem == ClientSpec => []CompletedIsQuiet
<1>1. ClientInv => CompletedIsQuiet
  BY DEF ClientInv, ClientScalars, SenderInv, TurnInv, QuietInv, Over, Well, Capturing,
     CompletedIsQuiet
<1>2. QED
  BY <1>1, ClientInvariant, PTL

===============================================================================
