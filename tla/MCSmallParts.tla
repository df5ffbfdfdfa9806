---- MODULE MCSmallParts ----
(* Parts of the two programs that share no state, beside each other, for TLC: of the     *)
(* gateway the registry of Meeting Bridges and the tasks and queues of a LiveTranslate   *)
(* session, of the desktop the devices of one direction, the choice of the route and the *)
(* window.  A behaviour is of one of them, and the others stay as they were initially.   *)
EXTENDS MCBridgeRegistry, LiveTranslateStream, DirectionalAudio, RouteGuard, DesktopWindow,
        TLC

\* A desk microphone, speakers, a headset that the system lists twice, and the two
\* virtual devices of BlackHole, of which one says how many channels it has.
CONSTANTS desk, speakers, headset, twin, bh2, bh16

KeyDef == [d \in Device |-> IF d = twin THEN headset ELSE d]

NamedChannelsDef == [d \in Device |-> IF d = bh2 THEN 2 ELSE 0]

InputsDef ==
  [d \in Device |-> IF d = speakers THEN 0 ELSE IF d = bh16 THEN 16
                    ELSE IF d = bh2 THEN 2 ELSE 1]

OutputsDef ==
  [d \in Device |-> IF d = desk THEN 0 ELSE IF d = bh16 THEN 16 ELSE 2]

VARIABLE part   \* what this behaviour is of

punctualVars == <<vars, punctual>>

MCInit ==
  /\ PunctualInit /\ StreamInit /\ DeviceInit /\ RouteInit /\ WindowInit
  /\ part \in {"registry", "stream", "devices", "route", "window"}
  /\ part # "registry" => punctual
  /\ part # "route" => plugged = {}
  /\ part # "window" => chosen = "remote" /\ checkOn

MCNext ==
  /\ \/ /\ part = "registry" /\ PunctualNext
        /\ UNCHANGED <<streamVars, deviceVars, routeVars, windowVars>>
     \/ /\ part = "stream" /\ StreamNext
        /\ UNCHANGED <<punctualVars, deviceVars, routeVars, windowVars>>
     \/ /\ part = "devices" /\ DeviceNext
        /\ UNCHANGED <<punctualVars, streamVars, routeVars, windowVars>>
     \/ /\ part = "route" /\ RouteNext
        /\ UNCHANGED <<punctualVars, streamVars, deviceVars, windowVars>>
     \/ /\ part = "window" /\ WindowNext
        /\ UNCHANGED <<punctualVars, streamVars, deviceVars, routeVars>>
  /\ UNCHANGED part

MCSpec ==
  /\ MCInit
  /\ [][MCNext]_<<punctualVars, streamVars, deviceVars, routeVars, windowVars, part>>
  /\ WF_streamVars(part = "stream" /\ Internal)

\* The one liveness property is of the tasks and queues, which hold none of these values.
Symmetry == Permutations(Bridge) \cup Permutations(Token) \cup Permutations(Session)

====
