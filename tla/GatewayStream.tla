----------------------------- MODULE GatewayStream -----------------------------
(***************************************************************************)
(* The life of a /v1/stream connection on the gateway: admission by the    *)
(* connection registry, routing of session.start to a pipeline, the        *)
(* meeting bridge, the one automatic fallback, the session deadline that   *)
(* cancels whatever is awaited when it strikes, and the clean-up.          *)
(*   server/app/main.py                          stream                    *)
(*   server/app/streaming/session.py             StreamingConnectionRegistry*)
(*   server/app/streaming/router.py              RoutedStreamingSession    *)
(*   server/app/streaming/livetranslate_session.py   run, cleanup          *)
(*   server/app/providers/livetranslate.py           start, cancel         *)
(*                                                                         *)
(* A handler is an asyncio task; pc[h] names the await it is suspended at, *)
(* so every action is what one handler does between two awaits.  What the  *)
(* pipelines do with audio is left to the modules of the pipelines: here   *)
(* they serve, end by themselves, fail or are cancelled.                   *)
(***************************************************************************)
EXTENDS Naturals, FiniteSets, BridgeSeats

CONSTANTS Handler,            \* connection attempts
          NoSeat,
          TotalLimit,         \* streaming_max_sessions
          PerTokenLimit,      \* streaming_max_sessions_per_token
          FallbackToModular,  \* stream_pipeline_fallback_provider = "modular"
          AcceptMayFail       \* the peer may vanish during the handshake

ASSUME GatewayAssumption ==
  /\ IsFiniteSet(Handler)
  /\ IsFiniteSet(Bridge)
  /\ MaxActivePerToken \in Nat \ {0}
  /\ TotalLimit \in Nat
  /\ PerTokenLimit \in Nat
  /\ FallbackToModular \in BOOLEAN
  /\ AcceptMayFail \in BOOLEAN

VARIABLES pc,          \* pc[h]: the await handler h is suspended at
          token,       \* token[h]: its bearer token
          total,       \* StreamingConnectionRegistry._total
          byToken,     \* StreamingConnectionRegistry._by_token
          seat,        \* seat[h]: bridge and role its session.start asked for
          provider,    \* provider[h]: pipeline of the active session
          cleaned,     \* cleaned[h]: _closed of the active session
          switches,    \* switches[h]: _automatic_switches
          claim,       \* claim[h]: _bridge_registration
          closed,      \* closed[h]: _closed of the upstream session
          counted,     \* counted[h]: _counted_active of the upstream session
          active,      \* LiveTranslateUpstreamSession.active_connections
          fired,       \* fired[h]: the deadline has cancelled the run
          unwinding,   \* unwinding[h]: run is ending because of that
          parties      \* the bridge registry, as BridgeMembership

slotVars == <<total, byToken>>
pipelineVars == <<provider, cleaned, switches>>
upstreamVars == <<closed, counted, active>>
deadlineVars == <<fired, unwinding>>
routeVars == <<seat, claim, parties>>
gatewayVars == <<pc, token, slotVars, pipelineVars, upstreamVars, deadlineVars, routeVars>>

-------------------------------------------------------------------------------

\* Session ids are drawn per pipeline object: the fallback has an id of its own.
SessionId == Handler \X {0, 1}

Roster == INSTANCE BridgeMembership WITH Session <- SessionId

\* None is not a registration.
ASSUME NoClaimAssumption == NoClaim \notin Roster!Party

Seat == [bridge : Bridge, role : Role]

\* The awaits inside asyncio.wait_for(session.run(), ...).
InRun == {"waiting_start", "opening", "handshake", "start_closing", "serving",
          "finishing", "joining", "reporting", "stopping", "closing", "route_error"}

\* The awaits after it, up to the release of the slot.
AfterRun == {"timeout_error", "cleanup", "late_closing", "releasing"}

HoldsSlot(h) == pc[h] \in {"accepting", "lost"} \cup InRun \cup AfterRun

At(h, place) == pc[h] = place
Goto(h, place) == pc' = [pc EXCEPT ![h] = place]

-------------------------------------------------------------------------------

GatewayInit ==
  /\ pc = [h \in Handler |-> "new"]
  /\ token \in [Handler -> Token]
  /\ total = 0
  /\ byToken = [t \in Token |-> 0]
  /\ seat = [h \in Handler |-> NoSeat]
  /\ provider = [h \in Handler |-> "none"]
  /\ cleaned = [h \in Handler |-> FALSE]
  /\ switches = [h \in Handler |-> 0]
  /\ claim = [h \in Handler |-> NoClaim]
  /\ closed = [h \in Handler |-> FALSE]
  /\ counted = [h \in Handler |-> FALSE]
  /\ active = 0
  /\ fired = [h \in Handler |-> FALSE]
  /\ unwinding = [h \in Handler |-> FALSE]
  /\ Roster!MInit

-------------------------------------------------------------------------------
(* Admission.                                                              *)

\* acquire: the two limits are checked and both counters raised in one step.
Acquire(h) ==
  /\ At(h, "new")
  /\ IF total < TotalLimit /\ byToken[token[h]] < PerTokenLimit
     THEN /\ total' = total + 1
          /\ byToken' = [byToken EXCEPT ![token[h]] = @ + 1]
          /\ Goto(h, "accepting")
     ELSE /\ UNCHANGED slotVars
          /\ Goto(h, "refused")
  /\ UNCHANGED <<token, pipelineVars, upstreamVars, deadlineVars, routeVars>>

\* websocket.accept() precedes the try block: when it raises, nothing that
\* follows is run, the release of the slot included.
Accept(h) ==
  /\ At(h, "accepting")
  /\ \/ Goto(h, "waiting_start")
     \/ AcceptMayFail /\ Goto(h, "lost")
  /\ UNCHANGED <<token, slotVars, pipelineVars, upstreamVars, deadlineVars, routeVars>>

-------------------------------------------------------------------------------
(* Routing: from the first message to the pipeline's first await.          *)

\* No session.start in time, an invalid one, or one the configuration refuses.
RejectStart(h) ==
  /\ At(h, "waiting_start")
  /\ Goto(h, "route_error")
  /\ UNCHANGED <<token, slotVars, pipelineVars, upstreamVars, deadlineVars, routeVars>>

FirstAwait(p) == IF p = "livetranslate" THEN "opening" ELSE "serving"

\* The session object is created first, then the bridge is asked.
RouteStart(h, p, st) ==
  /\ At(h, "waiting_start")
  /\ provider' = [provider EXCEPT ![h] = p]
  /\ seat' = [seat EXCEPT ![h] = st]
  /\ IF st = NoSeat
     THEN /\ Goto(h, FirstAwait(p))
          /\ UNCHANGED <<claim, parties>>
     ELSE \E B \in SUBSET Bridge :
            LET party == [bridge |-> st.bridge, role |-> st.role,
                          token |-> token[h], session |-> <<h, 0>>]
            IN  \/ /\ Roster!Join(B, party)
                   /\ claim' = [claim EXCEPT ![h] = party]
                   /\ Goto(h, FirstAwait(p))
                \/ /\ ~Roster!Admissible(Roster!Survivors(parties, B), party)
                   /\ Roster!Expire(B)
                   /\ Goto(h, "route_error")
                   /\ UNCHANGED claim
  /\ UNCHANGED <<token, slotVars, cleaned, switches, upstreamVars, deadlineVars>>

-------------------------------------------------------------------------------
(* LiveTranslate start-up and the fallback.                                *)

\* LiveTranslateStartupFailure in the router: one switch to modular, or an error.
StartupFailed(h) ==
  IF FallbackToModular /\ switches[h] = 0
  THEN /\ provider' = [provider EXCEPT ![h] = "modular"]
       /\ switches' = [switches EXCEPT ![h] = @ + 1]
       /\ cleaned' = [cleaned EXCEPT ![h] = FALSE]
       /\ Goto(h, "serving")
  ELSE /\ Goto(h, "route_error")
       /\ cleaned' = [cleaned EXCEPT ![h] = TRUE]
       /\ UNCHANGED <<provider, switches>>

\* The connect factory returned a connection, or raised: without a connection
\* cancel() has nothing to await.
Open(h) ==
  /\ At(h, "opening")
  /\ \/ /\ Goto(h, "handshake")
        /\ counted' = [counted EXCEPT ![h] = TRUE]
        /\ active' = active + 1
        /\ UNCHANGED <<pipelineVars, closed>>
     \/ /\ StartupFailed(h)
        /\ closed' = [closed EXCEPT ![h] = TRUE]
        /\ UNCHANGED <<counted, active>>
  /\ UNCHANGED <<token, slotVars, deadlineVars, routeVars>>

\* Mutation: a failed handshake falls back before the connection is closed.
HandshakeNotClosed(h) ==
  /\ At(h, "handshake")
  /\ \/ /\ Goto(h, "serving")
        /\ UNCHANGED pipelineVars
     \/ StartupFailed(h)
  /\ UNCHANGED <<token, slotVars, upstreamVars, deadlineVars, routeVars>>

\* session.created, session.update and session.updated, or a failure among them:
\* start() then awaits cancel(), which closes the connection first.
Handshake(h) ==
  /\ At(h, "handshake")
  /\ \/ /\ Goto(h, "serving")
        /\ UNCHANGED closed
     \/ /\ Goto(h, "start_closing")
        /\ closed' = [closed EXCEPT ![h] = TRUE]
  /\ UNCHANGED <<token, slotVars, pipelineVars, counted, active, deadlineVars, routeVars>>

\* The end of upstream.cancel(), after the connection was closed.
Uncount(h) ==
  /\ active' = IF counted[h] /\ active > 0 THEN active - 1 ELSE active
  /\ counted' = [counted EXCEPT ![h] = FALSE]

StartClosed(h) ==
  /\ At(h, "start_closing")
  /\ Uncount(h)
  /\ StartupFailed(h)
  /\ UNCHANGED <<token, slotVars, closed, deadlineVars, routeVars>>

-------------------------------------------------------------------------------
(* Service and its ends.                                                   *)

\* The finally clause of run: cleanup() of a pipeline that was serving.  The
\* LiveTranslate session first awaits its own tasks and those of the upstream.
BeginCleanup(h) ==
  /\ cleaned' = [cleaned EXCEPT ![h] = TRUE]
  /\ Goto(h, IF provider[h] = "modular" THEN "closing" ELSE "stopping")

\* Client stop: the pipeline is asked to finish.  A protocol or provider error:
\* it is reported.  The upstream ended first: the receiver task is cancelled and
\* awaited.  Client gone: straight to the finally clause.
LeaveService(h) ==
  /\ At(h, "serving")
  /\ \/ /\ \E place \in {"finishing", "reporting", "joining"} :
             /\ place = "joining" => provider[h] = "livetranslate"
             /\ Goto(h, place)
        /\ UNCHANGED cleaned
     \/ BeginCleanup(h)
  /\ UNCHANGED <<token, slotVars, provider, switches, upstreamVars, deadlineVars, routeVars>>

\* upstream.finish() and the wait for session.finished, or the last turns of the
\* modular pipeline.  The finish timeout joins the events task before it reports.
Finish(h) ==
  /\ At(h, "finishing")
  /\ \/ Goto(h, "reporting")
     \/ provider[h] = "livetranslate" /\ Goto(h, "joining")
  /\ UNCHANGED <<token, slotVars, pipelineVars, upstreamVars, deadlineVars, routeVars>>

\* A cancelled task of the session has ended.
Joined(h) ==
  /\ At(h, "joining")
  /\ Goto(h, "reporting")
  /\ UNCHANGED <<token, slotVars, pipelineVars, upstreamVars, deadlineVars, routeVars>>

\* session.completed or an error frame is sent and the WebSocket closed, or the
\* client is gone.
Report(h) ==
  /\ At(h, "reporting")
  /\ BeginCleanup(h)
  /\ UNCHANGED <<token, slotVars, provider, switches, upstreamVars, deadlineVars, routeVars>>

\* The tasks have ended; upstream.cancel() goes on to close the connection.
Stopped(h) ==
  /\ At(h, "stopping")
  /\ closed' = [closed EXCEPT ![h] = TRUE]
  /\ Goto(h, "closing")
  /\ UNCHANGED <<token, slotVars, pipelineVars, counted, active, deadlineVars, routeVars>>

\* The connection (or the providers of the modular pipeline) is closed and run
\* ends: normally, or with the cancellation that wait_for turns into TimeoutError.
Close(h) ==
  /\ At(h, "closing")
  /\ Uncount(h)
  /\ Goto(h, IF unwinding[h] THEN "timeout_error" ELSE "cleanup")
  /\ UNCHANGED <<token, slotVars, pipelineVars, closed, deadlineVars, routeVars>>

\* _safe_error of the router, inside the deadline, and of the handler, after it.
ErrorSent(h) ==
  /\ pc[h] \in {"route_error", "timeout_error"}
  /\ Goto(h, "cleanup")
  /\ UNCHANGED <<token, slotVars, pipelineVars, upstreamVars, deadlineVars, routeVars>>

-------------------------------------------------------------------------------
(* The deadline of the session: wait_for cancels the run once.             *)

\* Mutation: a deadline during the start-up is taken for a start-up failure.
DeadlineFallsBack(h) ==
  /\ pc[h] \in {"opening", "handshake"}
  /\ ~fired[h]
  /\ fired' = [fired EXCEPT ![h] = TRUE]
  /\ StartupFailed(h)
  /\ UNCHANGED <<token, slotVars, upstreamVars, unwinding, routeVars>>

\* Mutation: the wait for session.finished swallows the cancellation as well.
DeadlineSwallowed(h) ==
  /\ pc[h] \in InRun
  /\ ~fired[h]
  /\ fired' = [fired EXCEPT ![h] = TRUE]
  /\ IF pc[h] = "finishing"
     THEN UNCHANGED <<pc, cleaned, unwinding>>
     ELSE /\ BeginCleanup(h)
          /\ unwinding' = [unwinding EXCEPT ![h] = TRUE]
  /\ UNCHANGED <<token, slotVars, provider, switches, upstreamVars, routeVars>>

Deadline(h) ==
  /\ pc[h] \in InRun
  /\ ~fired[h]
  /\ fired' = [fired EXCEPT ![h] = TRUE]
  /\ \/ \* Nothing is serving yet, or what was awaited is abandoned half-way:
        \* a close in progress stays unfinished.
        /\ pc[h] \in {"waiting_start", "opening", "handshake", "start_closing",
                      "closing", "route_error"}
        /\ Goto(h, "timeout_error")
        /\ UNCHANGED <<cleaned, unwinding>>
     \/ \* The finally clause cleans up with the cancellation in flight.
        /\ pc[h] \in {"serving", "finishing", "reporting"}
        /\ BeginCleanup(h)
        /\ unwinding' = [unwinding EXCEPT ![h] = TRUE]
     \/ \* suppress(CancelledError) around an awaited task takes it for the
        \* task's own: the deadline has no effect and does not come back.
        /\ pc[h] \in {"joining", "stopping"}
        /\ UNCHANGED <<pc, cleaned, unwinding>>
  /\ UNCHANGED <<token, slotVars, provider, switches, upstreamVars, routeVars>>

-------------------------------------------------------------------------------
(* RoutedStreamingSession.cleanup, outside the deadline, and the release.  *)

\* Mutation: the router does not clean up a session whose run was cancelled.
CleanupForgotten(h) ==
  /\ At(h, "cleanup")
  /\ Goto(h, "releasing")
  /\ UNCHANGED <<token, slotVars, pipelineVars, upstreamVars, deadlineVars, routeVars>>

\* A pipeline that did not clean up itself is cleaned up now; upstream.cancel()
\* returns at once when it has been called before.
Cleanup(h) ==
  /\ At(h, "cleanup")
  /\ cleaned' = [cleaned EXCEPT ![h] = provider[h] # "none"]
  /\ IF cleaned[h] \/ provider[h] # "livetranslate" \/ closed[h]
     THEN /\ Goto(h, "releasing")
          /\ UNCHANGED closed
     ELSE /\ Goto(h, IF counted[h] THEN "late_closing" ELSE "releasing")
          /\ closed' = [closed EXCEPT ![h] = TRUE]
  /\ UNCHANGED <<token, slotVars, provider, switches, counted, active, deadlineVars, routeVars>>

LateClosed(h) ==
  /\ At(h, "late_closing")
  /\ Uncount(h)
  /\ Goto(h, "releasing")
  /\ UNCHANGED <<token, slotVars, pipelineVars, closed, deadlineVars, routeVars>>

\* Mutation: the entry of the token is not lowered.
ReleaseTotalOnly(h) ==
  /\ total' = IF total > 0 THEN total - 1 ELSE 0
  /\ UNCHANGED byToken

\* Mutation: the seat is released under the id of the session active last.
ReleaseSeatOfActive(h) ==
  /\ parties' = IF claim[h] = NoClaim THEN parties
                ELSE parties \ {[claim[h] EXCEPT !.session = <<h, switches[h]>>]}
  /\ claim' = [claim EXCEPT ![h] = NoClaim]

\* The touch task has ended: the bridge seat and then the slot are given back,
\* without an await between them.
ReleaseSlot(h) ==
  /\ total' = IF total > 0 THEN total - 1 ELSE 0
  /\ byToken' = [byToken EXCEPT ![token[h]] = IF @ > 0 THEN @ - 1 ELSE 0]

ReleaseSeat(h) ==
  /\ parties' = parties \ {claim[h]}
  /\ claim' = [claim EXCEPT ![h] = NoClaim]

GiveBack(h) ==
  /\ At(h, "releasing")
  /\ ReleaseSeat(h)
  /\ ReleaseSlot(h)
  /\ Goto(h, "ended")
  /\ UNCHANGED <<token, pipelineVars, upstreamVars, deadlineVars, seat>>

-------------------------------------------------------------------------------

\* A stalled event loop lets a bridge record reach its ttl (see BridgeRegistry).
BridgeExpires ==
  /\ \E b \in Bridge : Roster!On(parties, b) # {} /\ Roster!Expire({b})
  /\ UNCHANGED <<pc, token, slotVars, pipelineVars, upstreamVars, deadlineVars, seat, claim>>

\* What the handler and the peers it waits for do.
Step(h) ==
  \/ Acquire(h) \/ Accept(h) \/ RejectStart(h)
  \/ \E p \in {"livetranslate", "modular"}, st \in Seat \cup {NoSeat} : RouteStart(h, p, st)
  \/ Open(h) \/ Handshake(h) \/ StartClosed(h)
  \/ LeaveService(h) \/ Finish(h) \/ Joined(h) \/ Report(h)
  \/ Stopped(h) \/ Close(h) \/ ErrorSent(h)
  \/ Cleanup(h) \/ LateClosed(h) \/ GiveBack(h)

GatewayNext ==
  \/ \E h \in Handler : Step(h) \/ Deadline(h)
  \/ BridgeExpires

GatewaySpec == GatewayInit /\ [][GatewayNext]_gatewayVars

\* Fairness.  The deadline timer always fires.  The event loop resumes a handler
\* whose await is over, and these awaits end by themselves: accept and the error
\* frames (the server's ping timeout closes a dead peer), the heartbeat timeout,
\* the connect and handshake timeouts, tasks that were cancelled, and a close
\* bounded by close_timeout.  Nothing is assumed of service and of its finish.
Bounded(h) ==
  \/ Accept(h) \/ RejectStart(h) \/ Open(h) \/ Handshake(h) \/ StartClosed(h)
  \/ Joined(h) \/ Report(h) \/ Stopped(h) \/ Close(h) \/ ErrorSent(h)
  \/ Cleanup(h) \/ LateClosed(h) \/ GiveBack(h)

FairGatewaySpec ==
  /\ GatewaySpec
  /\ \A h \in Handler : WF_gatewayVars(Bounded(h)) /\ WF_gatewayVars(Deadline(h))

-------------------------------------------------------------------------------

(* The connection registry counts exactly the handlers that hold a slot,   *)
(* in total and per token, however they end; so its limits are limits on   *)
(* running handlers, and they are kept.                                    *)
SlotsAreHandlers ==
  /\ total = Cardinality({h \in Handler : HoldsSlot(h)}) /\ total <= TotalLimit
  /\ \A t \in Token :
       /\ byToken[t] = Cardinality({h \in Handler : HoldsSlot(h) /\ token[h] = t})
       /\ byToken[t] <= PerTokenLimit

(* A handler that ended has closed and uncounted its upstream connection,  *)
(* unless the deadline struck while that very close was awaited.           *)
UpstreamClosedByEnd ==
  \A h \in Handler :
    pc[h] = "ended" /\ counted[h] => fired[h] /\ closed[h] /\ ~unwinding[h]

(* The automatic switch never leaves two pipelines open for one client:    *)
(* when the modular session serves, the LiveTranslate upstream is closed.  *)
OnePipelineAtATime ==
  \A h \in Handler : switches[h] = 1 => closed[h] /\ ~counted[h]

(* A bridge party is always the registration of a handler that is still    *)
(* running: whichever pipeline ends up serving, whatever error or deadline *)
(* ends it, and even if its record expired in between.                     *)
PartyHasHandler ==
  \A p \in parties :
    LET h == p.session[1]
    IN  claim[h] = p /\ pc[h] \in InRun \cup AfterRun

(* A pipeline that is being cleaned up is never put back into service.     *)
NoServiceAfterCleanup ==
  [][\A h \in Handler :
       (pc'[h] = "serving" /\ pc[h] # "serving") => ~fired'[h] /\ ~cleaned'[h]]_gatewayVars

(* Every admitted connection ends and gives back what it holds, whatever   *)
(* its client and its upstream do: the deadline is enough.                 *)
AdmittedHandlersEnd ==
  \A h \in Handler : pc[h] = "accepting" ~> pc[h] \in {"ended", "lost"}

(* Stated by the provider test: once the session is over the number of     *)
(* active upstream connections is what it was before.                      *)
UpstreamReturnedByEnd ==
  \A h \in Handler : pc[h] = "ended" => ~counted[h]

===============================================================================
