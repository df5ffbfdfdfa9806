------------------------------- MODULE RouteGuard -------------------------------
(***************************************************************************)
(* Which audio devices a meeting bridge runs with: the classification of   *)
(* devices, the saved profile and its resolution (client meeting/devices), *)
(* the checks (meeting/route_guard) and the set-up of the window that      *)
(* chooses, saves and starts (ui/main_window).                             *)
(*                                                                         *)
(* A device is what the classification looks at: its stable key, what its  *)
(* name says and its channels.  Loopback and OpenAir, what else can be     *)
(* heard of a device, is not visible to the program: it is what the checks *)
(* are for.  The devices are those PortAudio found when the program was    *)
(* launched; a relaunch finds others, and the profile outlives it.         *)
(***************************************************************************)
EXTENDS Naturals, FiniteSets

CONSTANTS Device, Key, NoKey,
          KeyOf,           \* KeyOf[d]: stable_key
          SaysVirtual,     \* devices whose names match VIRTUAL_PATTERN
          SaysBlackHole,   \* BLACKHOLE_PATTERN
          SaysHeadphones,  \* HEADPHONE_PATTERN
          NamedChannels,   \* NamedChannels[d]: 2 or 16 by CHANNEL_PATTERN, or 0
          Inputs, Outputs, \* their channels
          Loopback,        \* devices whose input is what is written to their output
          OpenAir          \* outputs that the microphones of the room hear

ASSUME RouteAssumption ==
  /\ IsFiniteSet(Device)
  /\ KeyOf \in [Device -> Key] /\ NoKey \notin Key
  /\ NamedChannels \in [Device -> {0, 2, 16}]
  /\ Inputs \in [Device -> Nat] /\ Outputs \in [Device -> Nat]
  /\ {SaysVirtual, SaysBlackHole, SaysHeadphones} \subseteq SUBSET Device

\* What the names promise of the world: who loops back says that it is virtual, what is
\* called headphones is worn, and BlackHole is no loudspeaker.
ASSUME NamesAssumption ==
  Loopback \subseteq SaysVirtual /\ OpenAir \cap (SaysHeadphones \cup SaysBlackHole) = {}

VARIABLES
  plugged,   \* devices of the catalogue
  selected,  \* selected[r]: key chosen in the box of part r, NoKey for none
  confirmed, \* the meeting's set-up is ticked as confirmed
  stored,    \* keys of the saved profile, all NoKey without one; saved ones are confirmed
  route      \* devices the running bridge uses, by part

routeVars == <<plugged, selected, confirmed, stored, route>>

-------------------------------------------------------------------------------

Part == {"mic", "virtual", "capture", "headphones"}

NoKeys == [r \in Part |-> NoKey]

\* No bridge runs.
NoRoute == NoKeys

\* Capacity of a BlackHole device, by its name or by its channels.
BlackHoleChannels(d) ==
  IF NamedChannels[d] # 0 THEN NamedChannels[d]
  ELSE IF Inputs[d] >= 16 \/ Outputs[d] >= 16 THEN 16
  ELSE IF Inputs[d] >= 2 \/ Outputs[d] >= 2 THEN 2 ELSE 0

IsBlackHole(d, n) == d \in SaysBlackHole /\ BlackHoleChannels(d) = n

IsMicrophone(d) == Inputs[d] > 0 /\ d \notin SaysVirtual

\* Mutation: every output is a candidate for the ear.
IsOutput(d) == Outputs[d] > 0

IsHeadphones(d) == Outputs[d] > 0 /\ d \in SaysHeadphones

\* The devices offered for a part.
Offered(r) ==
  {d \in plugged : CASE r = "mic" -> IsMicrophone(d)
                     [] r = "virtual" -> IsBlackHole(d, 2)
                     [] r = "capture" -> IsBlackHole(d, 16)
                     [] r = "headphones" -> IsHeadphones(d)}

\* A key that two devices share, or none has, resolves to nothing.
Matches(k) == {d \in plugged : KeyOf[d] = k}

Resolves(keys) == \A r \in Part : \E d \in Device : Matches(keys[r]) = {d}

Resolved(keys) == [r \in Part |-> CHOOSE d \in Device : Matches(keys[r]) = {d}]

\* AudioLoopGuard: pairs that must be different devices.
LoopGuard(use) ==
  \A pair \in {<<"mic", "capture">>, <<"virtual", "headphones">>, <<"mic", "virtual">>,
               <<"capture", "headphones">>, <<"virtual", "capture">>} :
    KeyOf[use[pair[1]]] # KeyOf[use[pair[2]]]

\* RouteGuard.validate, whose checks are all critical.  The caller adds the set-up's
\* confirmation and those that may turn out either way: devices that open, rates that
\* convert, and what the gateway offers.
Accepts(use) ==
  /\ Inputs[use["mic"]] > 0 /\ Outputs[use["headphones"]] > 0
  /\ Outputs[use["virtual"]] >= 2 /\ Inputs[use["capture"]] >= 2
  /\ IsBlackHole(use["virtual"], 2)
  /\ IsBlackHole(use["capture"], 16)
  /\ use["mic"] \notin SaysBlackHole /\ IsMicrophone(use["mic"])
  /\ use["headphones"] \notin SaysBlackHole /\ IsHeadphones(use["headphones"])
  /\ LoopGuard(use)

-------------------------------------------------------------------------------

RouteInit ==
  /\ plugged \in SUBSET Device
  /\ selected = NoKeys /\ confirmed = FALSE /\ stored = NoKeys /\ route = NoRoute

Complete == \A r \in Part : selected[r] # NoKey

\* The boxes are filled; the saved choice is shown where it is still offered.
RefreshDevices ==
  /\ selected' = [r \in Part |-> IF \E d \in Offered(r) : KeyOf[d] = stored[r]
                                 THEN stored[r] ELSE NoKey]
  /\ confirmed' = (stored # NoKeys)
  /\ UNCHANGED <<plugged, stored, route>>

Choose(r, d) ==
  /\ d \in Offered(r)
  /\ selected' = [selected EXCEPT ![r] = KeyOf[d]]
  /\ UNCHANGED <<plugged, confirmed, stored, route>>

Confirm ==
  /\ confirmed' = ~confirmed
  /\ UNCHANGED <<plugged, selected, stored, route>>

\* The choice is resolved, validated and written, also beside a running bridge.
SaveProfile ==
  /\ Complete /\ confirmed
  /\ Resolves(selected) /\ Accepts(Resolved(selected))
  /\ stored' = selected
  /\ UNCHANGED <<plugged, selected, confirmed, route>>

\* The saved profile must be what is shown; it is resolved and validated again.
StartBridge ==
  /\ route = NoRoute /\ Complete /\ confirmed /\ stored = selected
  /\ Resolves(stored) /\ Accepts(Resolved(stored))
  /\ route' = Resolved(stored)
  /\ UNCHANGED <<plugged, selected, confirmed, stored>>

BridgeEnds ==
  /\ route # NoRoute /\ route' = NoRoute
  /\ UNCHANGED <<plugged, selected, confirmed, stored>>

\* The program is left, devices come and go, and it is launched again.
Relaunch ==
  /\ plugged' \in SUBSET Device
  /\ selected' = NoKeys /\ confirmed' = FALSE /\ route' = NoRoute
  /\ UNCHANGED stored

RouteNext ==
  \/ RefreshDevices \/ Confirm \/ SaveProfile \/ StartBridge \/ BridgeEnds \/ Relaunch
  \/ \E r \in Part, d \in Device : Choose(r, d)

RouteSpec == RouteInit /\ [][RouteNext]_routeVars

-------------------------------------------------------------------------------
(* Properties.                                                             *)

\* Input i hears what is written to output o.
Hears(i, o) == (i = o /\ o \in Loopback) \/ (o \in OpenAir /\ i \notin SaysVirtual)

\* No translation a running bridge speaks comes back into it: neither of the inputs it
\* listens to hears one of the outputs it writes, whatever devices were plugged in or
\* out since the profile was saved.
NoFeedback ==
  route # NoRoute =>
    \A i \in {route["mic"], route["capture"]}, o \in {route["virtual"], route["headphones"]} :
      ~Hears(i, o)

===============================================================================
