------------------------------ MODULE DesktopProofs ------------------------------
(***************************************************************************)
(* Theorems about parts of the program around the gateway's sessions: the  *)
(* route guard, the audio devices and the window of the desktop client,    *)
(* and the one-shot requests.                                              *)
(***************************************************************************)
EXTENDS RouteGuard, DirectionalAudio, OneShot, DesktopWindow,
        FiniteSetTheorems, SequenceTheorems, WellFoundedInduction, TLAPS

(***************************************************************************)
(* The route guard (RouteGuard).  No bridge hears itself, for every set of *)
(* devices and whatever devices come and go: what the checks of RouteGuard *)
(* and AudioLoopGuard demand is enough, given what the names of devices    *)
(* promise (NamesAssumption).                                              *)
(***************************************************************************)

\* The devices of a running bridge were accepted when it was started.
RouteInv == route # NoRoute => route \in [Part -> Device] /\ Accepts(route)

\* Keys that resolve give a device of the catalogue for every part.
LEMMA ResolvedDevices ==
  ASSUME NEW keys, Resolves(keys)
  PROVE  Resolved(keys) \in [Part -> Device]
<1>1. ASSUME NEW r \in Part
      PROVE  (CHOOSE d \in Device : Matches(keys[r]) = {d}) \in Device
  BY <1>1 DEF Resolves
<1> QED
  BY <1>1 DEF Resolved

\* Devices of one key are one device to the guard: those of different keys differ.
LEMMA LoopGuardSeparates ==
  ASSUME NEW use \in [Part -> Device], LoopGuard(use)
  PROVE  /\ use["mic"] # use["virtual"]
         /\ use["capture"] # use["headphones"]
         /\ use["virtual"] # use["capture"]
<1>1. KeyOf[use["mic"]] # KeyOf[use["virtual"]]
  <2> DEFINE pair == <<"mic", "virtual">>
  <2>1. KeyOf[use[pair[1]]] # KeyOf[use[pair[2]]]
    BY DEF LoopGuard
  <2> QED
    BY <2>1
<1>2. KeyOf[use["capture"]] # KeyOf[use["headphones"]]
  <2> DEFINE pair == <<"capture", "headphones">>
  <2>1. KeyOf[use[pair[1]]] # KeyOf[use[pair[2]]]
    BY DEF LoopGuard
  <2> QED
    BY <2>1
<1>3. KeyOf[use["virtual"]] # KeyOf[use["capture"]]
  <2> DEFINE pair == <<"virtual", "capture">>
  <2>1. KeyOf[use[pair[1]]] # KeyOf[use[pair[2]]]
    BY DEF LoopGuard
  <2> QED
    BY <2>1
<1> QED
  BY <1>1, <1>2, <1>3

\* A route that is accepted has no loop, neither through a device nor through the air.
LEMMA AcceptedRouteIsDeaf ==
  ASSUME NEW use \in [Part -> Device], Accepts(use),
         NEW i \in {use["mic"], use["capture"]},
         NEW o \in {use["virtual"], use["headphones"]}
  PROVE  ~Hears(i, o)
<1>1. /\ use["virtual"] \in SaysBlackHole
      /\ use["headphones"] \in SaysHeadphones
      /\ use["mic"] \notin SaysVirtual
  BY DEF Accepts, IsBlackHole, IsHeadphones, IsMicrophone
<1>2. /\ use["mic"] # use["virtual"]
      /\ use["capture"] # use["headphones"]
      /\ use["virtual"] # use["capture"]
  BY LoopGuardSeparates DEF Accepts
<1>3. o \notin OpenAir
  BY <1>1, NamesAssumption
<1>4. ~(i = o /\ o \in Loopback)
  <2>1. CASE i = use["capture"]
    BY <2>1, <1>2
  <2>2. CASE i = use["mic"]
    \* The microphone may be the headset's: no virtual device, hence no loopback.
    BY <2>2, <1>1, NamesAssumption
  <2> QED
    BY <2>1, <2>2
<1> QED
  BY <1>3, <1>4 DEF Hears

LEMMA RouteStep == RouteInv /\ [RouteNext]_routeVars => RouteInv'
<1> SUFFICES ASSUME RouteInv, [RouteNext]_routeVars
             PROVE  RouteInv'
  OBVIOUS
<1>1. ASSUME UNCHANGED route
      PROVE  RouteInv'
  BY <1>1 DEF RouteInv, Accepts, LoopGuard, IsBlackHole, BlackHoleChannels, IsMicrophone,
              IsHeadphones
<1>2. ASSUME route' = NoRoute
      PROVE  RouteInv'
  BY <1>2 DEF RouteInv
<1>3. CASE RefreshDevices
  BY <1>1, <1>3 DEF RefreshDevices
<1>4. CASE \E r \in Part, d \in Device : Choose(r, d)
  BY <1>1, <1>4 DEF Choose
<1>5. CASE Confirm
  BY <1>1, <1>5 DEF Confirm
<1>6. CASE SaveProfile
  BY <1>1, <1>6 DEF SaveProfile
<1>7. CASE StartBridge
  <2>1. Resolved(stored) \in [Part -> Device] /\ Accepts(Resolved(stored))
    BY <1>7, ResolvedDevices DEF StartBridge
  <2>2. route' = Resolved(stored)
    BY <1>7 DEF StartBridge
  <2>3. route' \in [Part -> Device] /\ Accepts(route')
    BY <2>1, <2>2
  <2> QED
    BY <2>3 DEF RouteInv, Accepts, LoopGuard, IsBlackHole, BlackHoleChannels, IsMicrophone,
                IsHeadphones
<1>8. CASE BridgeEnds
  BY <1>2, <1>8 DEF BridgeEnds
<1>9. CASE Relaunch
  BY <1>2, <1>9 DEF Relaunch
<1>10. CASE UNCHANGED routeVars
  BY <1>1, <1>10 DEF routeVars
<1> QED
  BY <1>3, <1>4, <1>5, <1>6, <1>7, <1>8, <1>9, <1>10 DEF RouteNext

\* No translation a running bridge speaks comes back into it, however devices were
\* plugged in, out and named since the profile was saved: what the checks before the
\* start (meeting/route_guard.py, and the resolution of the keys) establish.
THEOREM NoFeedbackTheorem == RouteSpec => []NoFeedback
<1>1. RouteInit => RouteInv
  BY DEF RouteInit, RouteInv
<1>2. RouteInv => NoFeedback
  BY AcceptedRouteIsDeaf DEF RouteInv, NoFeedback
<1> QED
  BY <1>1, <1>2, RouteStep, PTL DEF RouteSpec

-------------------------------------------------------------------------------
(***************************************************************************)
(* The devices of a direction (DirectionalAudio).                          *)
(***************************************************************************)

(* Once the streams are stopped no callback is half way, so that what is   *)
(* thrown away afterwards stays away.                                      *)
DeviceInv ==
  /\ device \in {"closed", "output", "both", "closing", "stopped"}
  /\ device \in {"stopped", "closed"} => copying = NoCopy /\ left = 0
  /\ device = "closed" => inq = <<>> /\ pending = <<>>

(* Nothing that was captured or left over before a close() is there when   *)
(* the devices are opened again, though two threads may close them and the *)
(* callbacks run on until the streams are stopped.                         *)
THEOREM ClosedIsSilentTheorem == DeviceSpec => []ClosedIsSilent
<1>1. DeviceInit => DeviceInv
  BY DEF DeviceInit, DeviceInv
<1>2. DeviceInv /\ [DeviceNext]_deviceVars => DeviceInv'
  <2> SUFFICES ASSUME DeviceInv, [DeviceNext]_deviceVars
               PROVE  DeviceInv'
    OBVIOUS
  <2> USE DEF DeviceInv, inputVars, outputVars
  <2>1. CASE StartOutput \/ StartInput \/ BeginClose \/ StopStreams
    BY <2>1 DEF StartOutput, StartInput, BeginClose, StopStreams
  <2>2. CASE DrainQueues \/ CloseAgain
    BY <2>2 DEF DrainQueues, CloseAgain, ThrowAway
  <2>3. CASE InputCallback \/ QueueInput \/ ReadInput
    BY <2>3 DEF InputCallback, QueueInput, ReadInput, InputRuns
  <2>4. CASE SwitchRate \/ \E n \in 1..2, k \in 0..2 : Enqueue(n, k)
    BY <2>4 DEF SwitchRate, Enqueue
  <2>5. CASE OutputCallback \/ NextChunk \/ WriteFrames \/ Underrun
    BY <2>5 DEF OutputCallback, NextChunk, WriteFrames, Underrun, OutputRuns
  <2>6. CASE UNCHANGED deviceVars
    BY <2>6 DEF deviceVars
  <2>7. QED
    BY <2>1, <2>2, <2>3, <2>4, <2>5, <2>6 DEF DeviceNext
<1>3. DeviceInv => ClosedIsSilent
  BY DEF DeviceInv, ClosedIsSilent
<1>4. QED
  BY <1>1, <1>2, <1>3, PTL DEF DeviceSpec

(***************************************************************************)
(* Translated audio is played without a gap. The queue of chunks is        *)
(* flattened by a recursive function, so this needs induction over data:   *)
(* the library's induction theorems are about operators, but its least     *)
(* element of a well-founded order is about sets, and serves.              *)
(***************************************************************************)

(* The order of the numbers.                                               *)
LessThan == {ss \in Nat \X Nat : ss[1] < ss[2]}
(* Induction, for a set of numbers.                                        *)
LEMMA NatSetInduction ==
  ASSUME NEW S, 0 \in S, \A n \in Nat : n \in S => n + 1 \in S
  PROVE  Nat \subseteq S
<1> SUFFICES ASSUME Nat \ S # {} PROVE FALSE
  OBVIOUS
<1> DEFINE T == Nat \ S
<1>0. IsWellFoundedOn(LessThan, Nat)
  BY NatLessThanWellFounded DEF OpToRel, LessThan
<1>2. PICK x \in T : \A y \in T : ~(<<y, x>> \in LessThan)
  BY <1>0, WFMin
<1>3. x # 0 /\ x - 1 \in Nat /\ x - 1 < x
  OBVIOUS
<1>4. x - 1 \in T
  BY <1>3
<1>5. <<x - 1, x>> \in LessThan
  BY <1>3 DEF LessThan
<1>6. QED
  BY <1>2, <1>4, <1>5

(* The chunks of q put together one after the other: g[i] is the first i.  *)
Stages(g, q, n) ==
  /\ n > 0 => g[1] = q[1]
  /\ \A i \in Nat \ {0} : i < n => g[i + 1] = g[i] \o q[i + 1]

Grows(g, q, n) == g \in [1..n -> Seq(Nat)] /\ Stages(g, q, n)

(* By induction over the number of chunks.                                 *)
LEMMA GrowthExists ==
  ASSUME NEW q \in Seq(Seq(Nat))
  PROVE  \E g : Grows(g, q, Len(q))
<1> DEFINE S == {n \in Nat : n <= Len(q) => \E g : Grows(g, q, n)}
<1>1. 0 \in S
  <2>1. Grows([i \in 1..0 |-> <<>>], q, 0)
    BY DEF Grows, Stages
  <2>2. QED
    BY <2>1
<1>2. ASSUME NEW n \in Nat, n \in S
      PROVE  n + 1 \in S
  <2> SUFFICES ASSUME n + 1 <= Len(q)
               PROVE  \E g : Grows(g, q, n + 1)
    OBVIOUS
  <2>1. Len(q) \in Nat /\ n <= Len(q) /\ n + 1 \in 1..Len(q)
    OBVIOUS
  <2>2. PICK g : Grows(g, q, n)
    BY <1>2, <2>1
  <2>3. q[n + 1] \in Seq(Nat)
    BY <2>1
  <2> DEFINE next == IF n = 0 THEN q[n + 1] ELSE g[n] \o q[n + 1]
  <2> DEFINE h == [i \in 1..(n + 1) |-> IF i = n + 1 THEN next ELSE g[i]]
  <2>4. next \in Seq(Nat)
    <3>1. CASE n = 0
      BY <2>3, <3>1
    <3>2. CASE n # 0
      <4>1. g[n] \in Seq(Nat)
        BY <2>2, <3>2 DEF Grows
      <4>2. QED
        BY <2>3, <3>2, <4>1, ConcatProperties
    <3>3. QED
      BY <3>1, <3>2
  <2>5. h \in [1..(n + 1) -> Seq(Nat)]
    BY <2>2, <2>4 DEF Grows
  <2>6. h[1] = q[1]
    BY <2>2 DEF Grows, Stages
  <2>7. ASSUME NEW i \in Nat \ {0}, i < n + 1
        PROVE  h[i + 1] = h[i] \o q[i + 1]
    <3>1. i \in 1..n /\ h[i] = g[i]
      BY <2>7
    <3>2. CASE i = n
      <4>1. next = g[n] \o q[n + 1]
        BY <3>2
      <4>2. n + 1 \in 1..(n + 1)
        OBVIOUS
      <4> HIDE DEF next
      <4>3. h[n + 1] = next
        BY <4>2
      <4>4. QED
        BY <3>1, <3>2, <4>1, <4>3
    <3>3. CASE i # n
      <4>1. i < n /\ i + 1 \in 1..n
        BY <3>1, <3>3
      <4>2. g[i + 1] = g[i] \o q[i + 1]
        BY <2>2, <4>1 DEF Grows, Stages
      <4>3. h[i + 1] = g[i + 1]
        BY <4>1
      <4>4. QED
        BY <3>1, <4>2, <4>3
    <3>4. QED
      BY <3>2, <3>3
  <2>8. QED
    BY <2>5, <2>6, <2>7 DEF Grows, Stages
<1>3. Nat \subseteq S
  <2> HIDE DEF S
  <2> QED
    BY <1>1, <1>2, NatSetInduction
<1>4. Len(q) \in S
  BY <1>3
<1>5. QED
  BY <1>4

(* There is one such function, for all sequences that begin alike.         *)
LEMMA GrowthIsOne ==
  ASSUME NEW q, NEW r, NEW g, NEW h, NEW n \in Nat, \A i \in 1..n : q[i] = r[i],
         Stages(g, q, n), Stages(h, r, n)
  PROVE  \A i \in 1..n : g[i] = h[i]
<1> DEFINE S == {m \in Nat : m \in 1..n => g[m] = h[m]}
<1>1. 0 \in S
  OBVIOUS
<1>2. ASSUME NEW m \in Nat, m \in S
      PROVE  m + 1 \in S
  <2> SUFFICES ASSUME m + 1 \in 1..n
               PROVE  g[m + 1] = h[m + 1]
    OBVIOUS
  <2>1. CASE m = 0
    <3>1. 1 \in 1..n /\ n > 0
      BY <2>1
    <3>2. QED
      BY <2>1, <3>1 DEF Stages
  <2>2. CASE m # 0
    <3>1. m \in 1..n /\ m \in Nat \ {0} /\ m < n
      BY <2>2
    <3>2. g[m] = h[m] /\ q[m + 1] = r[m + 1]
      BY <1>2, <3>1
    <3>3. QED
      BY <3>1, <3>2 DEF Stages
  <2>3. QED
    BY <2>1, <2>2
<1>3. Nat \subseteq S
  <2> HIDE DEF S
  <2> QED
    BY <1>1, <1>2, NatSetInduction
<1>4. QED
  BY <1>3

(* What FlattenSeq computes is the last of them.                           *)
LEMMA FlattenIsGrowth ==
  ASSUME NEW q \in Seq(Seq(Nat)), q # <<>>
  PROVE  \E g : Grows(g, q, Len(q)) /\ FlattenSeq(q) = g[Len(q)]
<1> DEFINE Is(f) == f = [i \in 1..Len(q) |-> IF i = 1 THEN q[i] ELSE f[i - 1] \o q[i]]
<1> DEFINE flat == CHOOSE f : Is(f)
<1>0. Len(q) \in Nat \ {0}
  OBVIOUS
<1>1. FlattenSeq(q) = flat[Len(q)]
  BY DEF FlattenSeq
<1>2. PICK g : Grows(g, q, Len(q))
  BY GrowthExists
<1>3. ASSUME NEW i \in 1..Len(q)
      PROVE  g[i] = IF i = 1 THEN q[i] ELSE g[i - 1] \o q[i]
  <2>1. CASE i = 1
    BY <1>2, <2>1 DEF Grows, Stages
  <2>2. CASE i # 1
    <3>1. i - 1 \in Nat \ {0} /\ i - 1 < Len(q) /\ (i - 1) + 1 = i
      BY <1>0, <2>2
    <3>2. g[(i - 1) + 1] = g[i - 1] \o q[(i - 1) + 1]
      BY <1>2, <3>1 DEF Grows, Stages
    <3>3. QED
      BY <2>2, <3>1, <3>2
  <2>3. QED
    BY <2>1, <2>2
<1>4. Is(g)
  BY <1>2, <1>3 DEF Grows
<1>5. Is(flat)
  BY <1>4
<1> HIDE DEF flat
<1>6. Stages(flat, q, Len(q))
  <2>1. flat[1] = q[1]
    BY <1>0, <1>5
  <2>2. ASSUME NEW i \in Nat \ {0}, i < Len(q)
        PROVE  flat[i + 1] = flat[i] \o q[i + 1]
    <3>1. i + 1 \in 1..Len(q) /\ i + 1 # 1 /\ (i + 1) - 1 = i
      BY <1>0, <2>2
    <3>2. flat[i + 1] = flat[(i + 1) - 1] \o q[i + 1]
      BY <1>5, <3>1
    <3>3. QED
      BY <3>1, <3>2
  <2>3. QED
    BY <2>1, <2>2 DEF Stages
<1>7. \A i \in 1..Len(q) : flat[i] = g[i]
  BY <1>0, <1>2, <1>6, GrowthIsOne DEF Grows
<1>8. Len(q) \in 1..Len(q)
  BY <1>0
<1>9. QED
  BY <1>1, <1>2, <1>7, <1>8

(* Putting chunks together: none, one more at the end, the first and the  *)
(* rest. Each of the last two is an induction over the chunks.             *)
LEMMA FlattenEmpty == FlattenSeq(<<>>) = <<>>
BY DEF FlattenSeq

LEMMA FlattenIsSeq ==
  ASSUME NEW q \in Seq(Seq(Nat))
  PROVE  FlattenSeq(q) \in Seq(Nat)
<1>1. CASE q = <<>>
  <2>1. FlattenSeq(q) = <<>>
    BY <1>1, FlattenEmpty
  <2>2. QED
    BY <2>1
<1>2. CASE q # <<>>
  <2>1. PICK g : Grows(g, q, Len(q)) /\ FlattenSeq(q) = g[Len(q)]
    BY <1>2, FlattenIsGrowth
  <2>2. Len(q) \in 1..Len(q)
    BY <1>2
  <2>3. QED
    BY <2>1, <2>2 DEF Grows
<1>3. QED
  BY <1>1, <1>2

LEMMA FlattenAppend ==
  ASSUME NEW q \in Seq(Seq(Nat)), NEW s \in Seq(Nat)
  PROVE  FlattenSeq(Append(q, s)) = FlattenSeq(q) \o s
<1> DEFINE p == Append(q, s)
<1>1. /\ p \in Seq(Seq(Nat)) /\ Len(p) = Len(q) + 1 /\ p # <<>> /\ p[Len(q) + 1] = s
      /\ \A i \in 1..Len(q) : p[i] = q[i]
  BY AppendProperties
<1>2. Len(q) \in Nat
  OBVIOUS
<1> HIDE DEF p
<1>3. PICK h : Grows(h, p, Len(p)) /\ FlattenSeq(p) = h[Len(p)]
  BY <1>1, FlattenIsGrowth
<1>4. CASE q = <<>>
  <2>1. Len(q) = 0 /\ Len(p) = 1 /\ 1 \in 1..1
    BY <1>1, <1>4
  <2>2. h[1] = p[1]
    BY <1>3, <2>1 DEF Grows, Stages
  <2>3. FlattenSeq(p) = s
    BY <1>1, <1>3, <2>1, <2>2
  <2>4. <<>> \o s = s
    BY ConcatEmptySeq
  <2>5. QED
    BY <1>4, <2>3, <2>4, FlattenEmpty DEF p
<1>5. CASE q # <<>>
  <2>1. PICK g : Grows(g, q, Len(q)) /\ FlattenSeq(q) = g[Len(q)]
    BY <1>5, FlattenIsGrowth
  <2>2. \A i \in Nat \ {0} : i < Len(q) => i < Len(p)
    BY <1>1, <1>2
  <2>3. Stages(h, p, Len(q))
    <3>1. Len(p) > 0
      BY <1>1, <1>2
    <3>2. QED
      BY <1>3, <2>2, <3>1 DEF Grows, Stages
  <2>4. Stages(g, q, Len(q))
    BY <2>1 DEF Grows
  <2>5. \A i \in 1..Len(q) : h[i] = g[i]
    <3>1. \A i \in 1..Len(q) : p[i] = q[i]
      BY <1>1
    <3>2. ASSUME NEW n \in Nat, n = Len(q)
          PROVE  \A i \in 1..n : h[i] = g[i]
      <4>1. Stages(h, p, n) /\ Stages(g, q, n) /\ \A i \in 1..n : p[i] = q[i]
        BY <2>3, <2>4, <3>1, <3>2
      <4>2. QED
        BY <4>1, GrowthIsOne
    <3>3. QED
      BY <1>2, <3>2
  <2>6. Len(q) \in 1..Len(q) /\ Len(q) \in Nat \ {0} /\ Len(q) < Len(p)
    BY <1>1, <1>2, <1>5
  <2>7. h[Len(p)] = h[Len(q)] \o s
    BY <1>1, <1>3, <2>6 DEF Grows, Stages
  <2>8. QED
    BY <1>3, <2>1, <2>5, <2>6, <2>7 DEF p
<1>6. QED
  BY <1>4, <1>5

(* Joining three is associative.                                           *)
LEMMA JoinedTwice ==
  ASSUME NEW a \in Seq(Nat), NEW b \in Seq(Nat), NEW c \in Seq(Nat)
  PROVE  (a \o b) \o c = a \o (b \o c)
BY ConcatAssociative

LEMMA FlattenHead ==
  ASSUME NEW q \in Seq(Seq(Nat)), q # <<>>
  PROVE  FlattenSeq(q) = Head(q) \o FlattenSeq(Tail(q))
<1> DEFINE t == Tail(q)
<1>1. /\ t \in Seq(Seq(Nat)) /\ Len(t) = Len(q) - 1 /\ Len(q) \in Nat \ {0}
      /\ \A i \in 1..Len(t) : t[i] = q[i + 1]
      /\ Head(q) = q[1] /\ Head(q) \in Seq(Nat)
  BY HeadTailProperties
<1> HIDE DEF t
<1>2. PICK g : Grows(g, q, Len(q)) /\ FlattenSeq(q) = g[Len(q)]
  BY FlattenIsGrowth
<1>3. g[1] = q[1]
  <2>1. Len(q) > 0
    BY <1>1
  <2>2. QED
    BY <1>2, <2>1 DEF Grows, Stages
<1>4. CASE t = <<>>
  <2>1. Len(q) = 1
    BY <1>1, <1>4
  <2>2. Head(q) \o <<>> = Head(q)
    BY <1>1, ConcatEmptySeq
  <2>3. QED
    BY <1>1, <1>2, <1>3, <1>4, <2>1, <2>2, FlattenEmpty DEF t
<1>5. CASE t # <<>>
  <2>1. PICK h : Grows(h, t, Len(t)) /\ FlattenSeq(t) = h[Len(t)]
    BY <1>1, <1>5, FlattenIsGrowth
  <2> DEFINE S == {m \in Nat : m \in 1..Len(t) => g[m + 1] = q[1] \o h[m]}
  <2>2. 0 \in S
    OBVIOUS
  <2>3. ASSUME NEW m \in Nat, m \in S
        PROVE  m + 1 \in S
    <3> SUFFICES ASSUME m + 1 \in 1..Len(t)
                 PROVE  g[(m + 1) + 1] = q[1] \o h[m + 1]
      <4>1. m + 1 \in Nat
        OBVIOUS
      <4>2. QED
        BY <4>1, Zenon
    <3> HIDE DEF S
    <3>1. m + 1 \in Nat \ {0} /\ m + 1 < Len(q) /\ m < Len(t)
      BY <1>1
    <3>2. g[(m + 1) + 1] = g[m + 1] \o q[(m + 1) + 1]
      BY <1>2, <3>1 DEF Grows, Stages
    <3>3. t[m + 1] = q[(m + 1) + 1]
      BY <1>1
    <3>4. CASE m = 0
      <4>1. h[1] = t[1]
        <5>1. Len(t) > 0
          BY <1>1, <3>1
        <5>2. QED
          BY <2>1, <5>1 DEF Grows, Stages
      <4>2. m + 1 = 1
        BY <3>4
      <4>3. QED
        BY <1>3, <3>2, <3>3, <4>1, <4>2
    <3>5. CASE m # 0
      <4>1. m \in 1..Len(t) /\ m \in Nat \ {0}
        BY <1>1, <3>1, <3>5
      <4>2. g[m + 1] = q[1] \o h[m]
        BY <2>3, <4>1 DEF S
      <4>3. h[m + 1] = h[m] \o t[m + 1]
        BY <2>1, <3>1, <4>1 DEF Grows, Stages
      <4>4. h[m] \in Seq(Nat)
        BY <2>1, <4>1 DEF Grows
      <4>5. t[m + 1] \in Seq(Nat)
        BY <1>1
      <4>8. q[1] \in Seq(Nat)
        BY <1>1
      <4>6. (q[1] \o h[m]) \o t[m + 1] = q[1] \o (h[m] \o t[m + 1])
        BY <4>4, <4>5, <4>8, JoinedTwice
      <4>7. QED
        BY <3>2, <3>3, <4>2, <4>3, <4>6
    <3>6. QED
      BY <3>4, <3>5
  <2>4. Nat \subseteq S
    <3> HIDE DEF S
    <3> QED
      BY <2>2, <2>3, NatSetInduction
  <2>5. Len(t) \in 1..Len(t) /\ Len(t) \in Nat /\ Len(t) + 1 = Len(q)
    BY <1>1, <1>5
  <2>6. g[Len(q)] = q[1] \o h[Len(t)]
    BY <2>4, <2>5
  <2>7. QED
    BY <1>1, <1>2, <2>1, <2>6 DEF t
<1>6. QED
  BY <1>4, <1>5

(* What was there at the last close or change of rate comes first; what    *)
(* came since follows without a gap and ends where the adapter is.         *)
Continues(track, c, r, all) ==
  \E n \in 0..Len(track) :
    /\ \A i \in 1..n : track[i] <= c
    /\ \A i \in (n + 1)..Len(track) : track[i] = c + (i - n)
    /\ c + (Len(track) - n) <= r
    /\ all => c + (Len(track) - n) = r

OutputTypes ==
  /\ playedNos \in Seq(Nat) /\ pending \in Seq(Nat) /\ outq \in Seq(Seq(Nat))
  /\ samples \in Nat /\ resampled \in Nat /\ cut \in Nat /\ left \in Nat
  /\ cut <= resampled /\ resampled <= samples

TrackInv == OutputTypes /\ Continues(Track, cut, resampled, ~refused)

(* What is played is the beginning of the track.                           *)
LEMMA TrackIsSeq ==
  ASSUME OutputTypes
  PROVE  /\ Track \in Seq(Nat) /\ FlattenSeq(outq) \in Seq(Nat)
         /\ Len(playedNos) <= Len(Track)
         /\ \A i \in 1..Len(playedNos) : Track[i] = playedNos[i]
<1>1. FlattenSeq(outq) \in Seq(Nat)
  BY FlattenIsSeq DEF OutputTypes
<1>2. PICK f \in Seq(Nat) : f = FlattenSeq(outq)
  BY <1>1
<1>3. Track = (playedNos \o pending) \o f
  BY <1>2 DEF Track
<1>4. /\ playedNos \o pending \in Seq(Nat)
      /\ Len(playedNos \o pending) = Len(playedNos) + Len(pending)
      /\ \A i \in 1..Len(playedNos) : (playedNos \o pending)[i] = playedNos[i]
  BY ConcatProperties DEF OutputTypes
<1>5. PICK h \in Seq(Nat) : h = playedNos \o pending
  BY <1>4
<1>6. /\ h \o f \in Seq(Nat) /\ Len(h \o f) = Len(h) + Len(f)
      /\ \A i \in 1..Len(h) : (h \o f)[i] = h[i]
  BY ConcatProperties
<1>7. Len(playedNos) \in Nat /\ Len(pending) \in Nat /\ Len(f) \in Nat /\ Len(h) \in Nat
  BY LenProperties DEF OutputTypes
<1>8. QED
  BY <1>1, <1>3, <1>4, <1>5, <1>6, <1>7

(* Nothing is numbered beyond what the adapter has let go.                 *)
LEMMA TrackIsBounded ==
  ASSUME NEW track \in Seq(Nat), NEW c \in Nat, NEW r \in Nat, c <= r, NEW all,
         Continues(track, c, r, all)
  PROVE  \A i \in 1..Len(track) : track[i] <= r
<1>1. PICK n \in 0..Len(track) :
        /\ \A i \in 1..n : track[i] <= c
        /\ \A i \in (n + 1)..Len(track) : track[i] = c + (i - n)
        /\ c + (Len(track) - n) <= r
  BY DEF Continues
<1>2. ASSUME NEW i \in 1..Len(track)
      PROVE  track[i] <= r
  <2>1. Len(track) \in Nat /\ track[i] \in Nat
    BY LenProperties, ElementOfSeq
  <2>2. CASE i <= n
    BY <1>1, <2>1, <2>2
  <2>3. CASE ~(i <= n)
    <3>1. i \in (n + 1)..Len(track)
      BY <2>1, <2>3
    <3>2. QED
      BY <1>1, <2>1, <3>1
  <2>4. QED
    BY <2>2, <2>3
<1>3. QED
  BY <1>2

(* What the adapter lets go next continues what it has let go before.      *)
LEMMA TrackGoesOn ==
  ASSUME NEW track \in Seq(Nat), NEW c \in Nat, NEW r \in Nat, NEW k \in Nat,
         Continues(track, c, r, TRUE)
  PROVE  Continues(track \o Samples(r, r + k), c, r + k, TRUE)
<1>1. PICK n \in 0..Len(track) :
        /\ \A i \in 1..n : track[i] <= c
        /\ \A i \in (n + 1)..Len(track) : track[i] = c + (i - n)
        /\ c + (Len(track) - n) = r
  BY DEF Continues
<1>2. Samples(r, r + k) \in Seq(Nat) /\ Len(Samples(r, r + k)) = k
      /\ \A i \in 1..k : Samples(r, r + k)[i] = r + i
  <2>1. (r + k) - r = k
    OBVIOUS
  <2>2. Samples(r, r + k) = [i \in 1..k |-> r + i]
    BY <2>1 DEF Samples
  <2>3. [i \in 1..k |-> r + i] \in Seq(Nat) /\ Len([i \in 1..k |-> r + i]) = k
    OBVIOUS
  <2>4. QED
    BY <2>2, <2>3
<1>3. PICK s \in Seq(Nat) : s = Samples(r, r + k) /\ Len(s) = k /\ \A i \in 1..k : s[i] = r + i
  BY <1>2
<1>4. PICK l \in Nat : l = Len(track)
  BY LenProperties
<1>5. /\ track \o s \in Seq(Nat) /\ Len(track \o s) = l + k
      /\ \A i \in 1..(l + k) : (track \o s)[i] = IF i <= l THEN track[i] ELSE s[i - l]
  <2>1. /\ track \o s \in Seq(Nat) /\ Len(track \o s) = Len(track) + Len(s)
        /\ \A i \in 1..(Len(track) + Len(s)) :
             (track \o s)[i] = IF i <= Len(track) THEN track[i] ELSE s[i - Len(track)]
    BY ConcatProperties
  <2>2. QED
    BY <1>3, <1>4, <2>1
<1>6. PICK t \in Seq(Nat) : /\ t = track \o s /\ Len(t) = l + k
                            /\ \A i \in 1..(l + k) : t[i] = IF i <= l THEN track[i] ELSE s[i - l]
  BY <1>5
<1>7. n \in 0..l /\ n \in 0..Len(t) /\ c + (l - n) = r
  BY <1>1, <1>4, <1>6
<1>8. \A i \in 1..n : t[i] <= c
  BY <1>1, <1>6, <1>7
<1>9. ASSUME NEW i \in (n + 1)..(l + k)
      PROVE  t[i] = c + (i - n)
  <2>1. CASE i <= l
    <3>1. i \in (n + 1)..l /\ i \in 1..(l + k)
      BY <1>7, <2>1
    <3>2. QED
      BY <1>1, <1>4, <1>6, <2>1, <3>1
  <2>2. CASE ~(i <= l)
    <3>1. i - l \in 1..k /\ i \in 1..(l + k)
      BY <1>7, <2>2
    <3>2. t[i] = r + (i - l)
      BY <1>3, <1>6, <2>2, <3>1
    <3>3. r + (i - l) = c + (i - n)
      BY <1>7
    <3>4. QED
      BY <3>2, <3>3
  <2>3. QED
    BY <2>1, <2>2
<1>10. c + (Len(t) - n) = r + k /\ c + (Len(t) - n) <= r + k
  BY <1>6, <1>7
<1>11. \A i \in (n + 1)..Len(t) : t[i] = c + (i - n)
  BY <1>6, <1>9
<1>12. Continues(t, c, r + k, TRUE)
  BY <1>7, <1>8, <1>10, <1>11 DEF Continues
<1>13. QED
  BY <1>3, <1>6, <1>12

(* All that is there when the marks are set anew was there before.         *)
LEMMA TrackBeginsAnew ==
  ASSUME NEW track \in Seq(Nat), NEW c \in Nat, NEW all, \A i \in 1..Len(track) : track[i] <= c
  PROVE  Continues(track, c, c, all)
<1>1. Len(track) \in Nat /\ Len(track) \in 0..Len(track)
  BY LenProperties
<1>2. \A i \in (Len(track) + 1)..Len(track) : track[i] = c + (i - Len(track))
  BY <1>1
<1>3. c + (Len(track) - Len(track)) = c
  BY <1>1
<1>4. QED
  BY <1>1, <1>2, <1>3 DEF Continues

(* Audio arrives: the adapter lets nothing go, or a chunk that is queued,  *)
(* or one that finds the queue full.                                       *)
LEMMA EnqueueTrack ==
  ASSUME TrackInv, NEW n \in 1..2, NEW k \in 0..2, Enqueue(n, k)
  PROVE  TrackInv'
<1> USE DEF TrackInv
<1>1. /\ ~refused /\ samples' = samples + n /\ resampled' = resampled + k
      /\ resampled' <= samples' /\ UNCHANGED <<pending, left, playedNos, cut>>
  BY DEF Enqueue
<1>2. resampled' \in Nat /\ samples' \in Nat /\ cut' <= resampled' /\ k \in Nat
  BY <1>1 DEF OutputTypes
<1>3. CASE k = 0 /\ UNCHANGED <<outq, refused>>
  <2>1. UNCHANGED <<resampled, outq, refused>>
    BY <1>1, <1>3 DEF OutputTypes
  <2>2. QED
    BY <1>1, <1>2, <2>1 DEF OutputTypes, Track
<1>4. CASE outq' = Append(outq, Samples(resampled, resampled + k)) /\ UNCHANGED refused
  <2>1. Samples(resampled, resampled + k) \in Seq(Nat)
    BY <1>2 DEF Samples, OutputTypes
  <2>2. PICK s \in Seq(Nat) : s = Samples(resampled, resampled + k)
    BY <2>1
  <2>3. outq' \in Seq(Seq(Nat))
    BY <1>4, <2>1, AppendProperties DEF OutputTypes
  <2>4. FlattenSeq(outq') = FlattenSeq(outq) \o s
    BY <1>4, <2>2, FlattenAppend DEF OutputTypes
  <2>5. PICK f \in Seq(Nat) : f = FlattenSeq(outq)
    BY TrackIsSeq
  <2>6. PICK h \in Seq(Nat) : h = playedNos \o pending
    BY ConcatProperties DEF OutputTypes
  <2>7. (h \o f) \o s = h \o (f \o s)
    BY JoinedTwice
  <2>8. Track' = Track \o s
    BY <1>1, <2>4, <2>5, <2>6, <2>7 DEF Track
  <2>9. Continues(Track, cut, resampled, TRUE)
    BY <1>1 DEF Continues
  <2>10. Continues(Track \o Samples(resampled, resampled + k), cut, resampled + k, TRUE)
    BY <1>2, <2>9, TrackIsSeq, TrackGoesOn DEF OutputTypes
  <2>11. Continues(Track', cut', resampled', TRUE)
    BY <1>1, <2>2, <2>8, <2>10
  <2>12. Continues(Track', cut', resampled', ~refused')
    BY <2>11 DEF Continues
  <2>13. OutputTypes'
    BY <1>1, <1>2, <2>3 DEF OutputTypes
  <2>14. QED
    BY <2>12, <2>13
<1>5. CASE refused' = TRUE /\ UNCHANGED outq
  <2>1. Track' = Track
    BY <1>1, <1>5 DEF Track
  <2>2. Len(Track) \in Nat
    BY TrackIsSeq, LenProperties
  <2>3. Continues(Track, cut, resampled + k, FALSE)
    <3>1. PICK m \in 0..Len(Track) :
            /\ \A i \in 1..m : Track[i] <= cut
            /\ \A i \in (m + 1)..Len(Track) : Track[i] = cut + (i - m)
            /\ cut + (Len(Track) - m) <= resampled
      BY DEF Continues
    <3>2. cut + (Len(Track) - m) <= resampled + k
      BY <1>2, <2>2, <3>1 DEF OutputTypes
    <3>3. QED
      BY <3>1, <3>2 DEF Continues
  <2>4. Continues(Track', cut', resampled', ~refused')
    BY <1>1, <1>5, <2>1, <2>3 DEF Continues
  <2>5. QED
    BY <1>1, <1>2, <1>5, <2>4 DEF OutputTypes
<1>6. QED
  BY <1>3, <1>4, <1>5 DEF Enqueue

(* The samples of a chunk stay in their place when it is taken out of the  *)
(* queue, and when a part of it is written.                                *)
LEMMA NextChunkTrack ==
  ASSUME OutputTypes, NextChunk
  PROVE  OutputTypes' /\ Track' = Track
<1>1. /\ pending = <<>> /\ outq # <<>> /\ pending' = Head(outq) /\ outq' = Tail(outq)
      /\ UNCHANGED <<samples, resampled, left, playedNos, cut>>
  BY DEF NextChunk
<1>2. Head(outq) \in Seq(Nat) /\ Tail(outq) \in Seq(Seq(Nat))
  BY <1>1, HeadTailProperties DEF OutputTypes
<1>3. PICK f \in Seq(Nat) : f = FlattenSeq(Tail(outq))
  BY <1>2, FlattenIsSeq
<1>4. FlattenSeq(outq) = Head(outq) \o f
  BY <1>1, <1>3, FlattenHead DEF OutputTypes
<1>5. playedNos \o <<>> = playedNos
  BY ConcatEmptySeq DEF OutputTypes
<1>6. (playedNos \o Head(outq)) \o f = playedNos \o (Head(outq) \o f)
  BY <1>2, JoinedTwice DEF OutputTypes
<1>7. Track' = Track
  BY <1>1, <1>3, <1>4, <1>5, <1>6 DEF Track
<1>8. QED
  BY <1>1, <1>2, <1>7 DEF OutputTypes

(* A chunk cut in two is the two parts joined.                             *)
LEMMA CutInTwo ==
  ASSUME NEW s \in Seq(Nat), NEW n \in 0..Len(s)
  PROVE  /\ SubSeq(s, 1, n) \in Seq(Nat) /\ SubSeq(s, n + 1, Len(s)) \in Seq(Nat)
         /\ SubSeq(s, 1, n) \o SubSeq(s, n + 1, Len(s)) = s
<1>1. Len(s) \in Nat /\ \A i \in 1..Len(s) : s[i] \in Nat
  BY LenProperties, ElementOfSeq
<1>2. SubSeq(s, 1, n) \in Seq(Nat)
  <2>1. \A i \in 1..n : s[i] \in Nat
    BY <1>1
  <2>2. QED
    BY <2>1, SubSeqProperties
<1>3. SubSeq(s, n + 1, Len(s)) \in Seq(Nat)
  <2>1. \A i \in (n + 1)..Len(s) : s[i] \in Nat
    BY <1>1
  <2>2. n + 1 \in Int /\ Len(s) \in Int
    BY <1>1
  <2>3. QED
    BY <2>1, <2>2, SubSeqProperties
<1>4. SubSeq(s, 1, n) \o SubSeq(s, n + 1, Len(s)) = SubSeq(s, 1, Len(s))
  <2>1. 1 \in 1..(Len(s) + 1) /\ n \in (1 - 1)..Len(s) /\ Len(s) \in n..Len(s)
    BY <1>1
  <2>2. QED
    BY <2>1, ConcatAdjacentSubSeq
<1>5. SubSeq(s, 1, Len(s)) = s
  BY SubSeqFull
<1>6. QED
  BY <1>2, <1>3, <1>4, <1>5

LEMMA WriteFramesTrack ==
  ASSUME OutputTypes, WriteFrames
  PROVE  OutputTypes' /\ Track' = Track
<1> DEFINE take == IF Len(pending) < left THEN Len(pending) ELSE left
<1>1. /\ playedNos' = playedNos \o SubSeq(pending, 1, take)
      /\ pending' = SubSeq(pending, take + 1, Len(pending)) /\ left' = left - take
      /\ left > 0 /\ UNCHANGED <<samples, resampled, outq, cut>>
  BY DEF WriteFrames
<1>2. take \in 0..Len(pending) /\ left - take \in Nat /\ Len(pending) \in Nat
  BY LenProperties DEF OutputTypes
<1> HIDE DEF take
<1>3. PICK a \in Seq(Nat) : a = SubSeq(pending, 1, take)
  BY <1>2, CutInTwo DEF OutputTypes
<1>4. PICK b \in Seq(Nat) : b = SubSeq(pending, take + 1, Len(pending))
  BY <1>2, CutInTwo DEF OutputTypes
<1>5. a \o b = pending
  BY <1>2, <1>3, <1>4, CutInTwo DEF OutputTypes
<1>6. (playedNos \o a) \o b = playedNos \o (a \o b)
  BY JoinedTwice DEF OutputTypes
<1>7. Track' = Track
  BY <1>1, <1>3, <1>4, <1>5, <1>6 DEF Track
<1>8. playedNos' \in Seq(Nat)
  BY <1>1, <1>3, ConcatProperties DEF OutputTypes
<1>9. QED
  BY <1>1, <1>2, <1>4, <1>7, <1>8 DEF OutputTypes

(* A close, and a change of the sample rate before anything was played,    *)
(* set the marks anew.                                                     *)
LEMMA ThrowAwayTrack ==
  ASSUME TrackInv, ThrowAway
  PROVE  TrackInv'
<1>1. /\ outq' = <<>> /\ pending' = <<>> /\ resampled' = samples /\ cut' = samples
      /\ UNCHANGED <<samples, left, playedNos>>
  BY DEF ThrowAway
<1>2. OutputTypes'
  BY <1>1 DEF TrackInv, OutputTypes
<1>3. Track' = playedNos
  <2>1. FlattenSeq(outq') = <<>>
    BY <1>1, FlattenEmpty
  <2>2. (playedNos \o <<>>) \o <<>> = playedNos
    BY ConcatEmptySeq DEF TrackInv, OutputTypes
  <2>3. QED
    BY <1>1, <2>1, <2>2 DEF Track
<1>4. \A i \in 1..Len(playedNos) : playedNos[i] <= samples
  <2>1. \A i \in 1..Len(Track) : Track[i] <= resampled
    BY TrackIsSeq, TrackIsBounded DEF TrackInv, OutputTypes
  <2>2. ASSUME NEW i \in 1..Len(playedNos)
        PROVE  playedNos[i] <= samples
    <3>1. Len(playedNos) \in Nat /\ Len(Track) \in Nat /\ Len(playedNos) <= Len(Track)
      BY TrackIsSeq, LenProperties DEF TrackInv, OutputTypes
    <3>2. i \in 1..Len(Track) /\ Track[i] = playedNos[i] /\ playedNos[i] \in Nat
      BY <3>1, TrackIsSeq, ElementOfSeq DEF TrackInv, OutputTypes
    <3>3. playedNos[i] <= resampled
      BY <2>1, <3>2
    <3>4. QED
      BY <3>2, <3>3 DEF TrackInv, OutputTypes
  <2>3. QED
    BY <2>2
<1>5. Continues(playedNos, samples, samples, ~refused')
  BY <1>4, TrackBeginsAnew DEF TrackInv, OutputTypes
<1>6. QED
  BY <1>1, <1>2, <1>3, <1>5 DEF TrackInv

LEMMA SwitchRateTrack ==
  ASSUME TrackInv, SwitchRate
  PROVE  TrackInv'
<1>1. UNCHANGED <<samples, outq, pending, left, playedNos>>
  BY DEF SwitchRate
<1>2. Track' = Track
  BY <1>1 DEF Track
<1>3. CASE resampled' = samples /\ cut' = samples
  <2>1. \A i \in 1..Len(Track) : Track[i] <= resampled
    BY TrackIsSeq, TrackIsBounded DEF TrackInv, OutputTypes
  <2>2. \A i \in 1..Len(Track) : Track[i] <= samples
    <3>1. \A i \in 1..Len(Track) : Track[i] \in Nat
      BY TrackIsSeq, ElementOfSeq DEF TrackInv
    <3>2. QED
      BY <2>1, <3>1 DEF TrackInv, OutputTypes
  <2>3. Continues(Track, samples, samples, ~refused')
    BY <2>2, TrackIsSeq, TrackBeginsAnew DEF TrackInv, OutputTypes
  <2>4. QED
    BY <1>1, <1>2, <1>3, <2>3 DEF TrackInv, OutputTypes
<1>4. CASE refused' = TRUE /\ UNCHANGED <<resampled, cut>>
  <2>1. Continues(Track', cut', resampled', ~refused')
    BY <1>2, <1>4 DEF TrackInv, Continues
  <2>2. QED
    BY <1>1, <1>4, <2>1 DEF TrackInv, OutputTypes
<1>5. QED
  BY <1>3, <1>4 DEF SwitchRate

(* However the blocks the device asks for cut through the chunks of any    *)
(* queue, translated audio is played in order and without a gap.           *)
THEOREM PlaybackTheorem == DeviceSpec => []PlaybackIsContinuous
<1>1. DeviceInit => TrackInv
  <2> SUFFICES ASSUME DeviceInit
               PROVE  TrackInv
    OBVIOUS
  <2>1. OutputTypes
    BY DEF DeviceInit, OutputTypes
  <2>2. FlattenSeq(outq) = <<>>
    BY FlattenEmpty DEF DeviceInit
  <2>3. Track = <<>>
    <3>1. (<<>> \o <<>>) \o <<>> = <<>>
      OBVIOUS
    <3>2. QED
      BY <2>2, <3>1 DEF DeviceInit, Track
  <2>4. Continues(<<>>, 0, 0, ~refused)
    <3>1. <<>> \in Seq(Nat) /\ 0 \in Nat /\ \A i \in 1..Len(<<>>) : <<>>[i] <= 0
      OBVIOUS
    <3>2. PICK e \in Seq(Nat) : e = <<>> /\ \A i \in 1..Len(e) : e[i] <= 0
      BY <3>1
    <3>3. QED
      BY <3>2, TrackBeginsAnew
  <2>5. QED
    BY <2>1, <2>3, <2>4 DEF DeviceInit, TrackInv
<1>2. TrackInv /\ [DeviceNext]_deviceVars => TrackInv'
  <2> SUFFICES ASSUME TrackInv, [DeviceNext]_deviceVars
               PROVE  TrackInv'
    OBVIOUS
  <2>1. CASE UNCHANGED outputVars
    BY <2>1 DEF outputVars, TrackInv, OutputTypes, Track, Continues
  <2>2. CASE DrainQueues \/ CloseAgain
    BY <2>2, ThrowAwayTrack DEF DrainQueues, CloseAgain
  <2>3. CASE \E n \in 1..2, k \in 0..2 : Enqueue(n, k)
    BY <2>3, EnqueueTrack
  <2>4. CASE SwitchRate
    BY <2>4, SwitchRateTrack
  <2>5. CASE NextChunk
    BY <2>5, NextChunkTrack DEF TrackInv, NextChunk
  <2>6. CASE WriteFrames
    BY <2>6, WriteFramesTrack DEF TrackInv, WriteFrames
  <2>7. CASE OutputCallback \/ Underrun
    <3>1. UNCHANGED <<samples, resampled, outq, pending, playedNos, refused, cut>>
      BY <2>7 DEF OutputCallback, Underrun
    <3>2. left' \in Nat
      BY <2>7, AudioAssumption DEF OutputCallback, Underrun
    <3>3. Track' = Track
      BY <3>1 DEF Track
    <3>4. QED
      BY <3>1, <3>2, <3>3 DEF TrackInv, OutputTypes
  <2>8. CASE StartOutput \/ StartInput \/ BeginClose \/ StopStreams
    BY <2>1, <2>8 DEF StartOutput, StartInput, BeginClose, StopStreams
  <2>9. CASE InputCallback \/ QueueInput \/ ReadInput
    BY <2>1, <2>9 DEF InputCallback, QueueInput, ReadInput
  <2>10. CASE UNCHANGED deviceVars
    BY <2>1, <2>10 DEF deviceVars
  <2>11. QED
    BY <2>2, <2>3, <2>4, <2>5, <2>6, <2>7, <2>8, <2>9, <2>10 DEF DeviceNext
<1>3. TrackInv => PlaybackIsContinuous
  BY DEF TrackInv, Continues, PlaybackIsContinuous
<1>4. QED
  BY <1>1, <1>2, <1>3, PTL DEF DeviceSpec

-------------------------------------------------------------------------------
(***************************************************************************)
(* One-shot interpretation (OneShot).                                      *)
(***************************************************************************)

(* What is counted, what is left in the input directory and what is still  *)
(* to be fetched follow where the handler of each request is.              *)
HandlerPlace == {"none", "saving", "pipeline", "raising", "returning", "lost", "done", "cut"}

ShotTypes ==
  /\ handler \in [Request -> HandlerPlace]
  /\ synthesis \in [Request -> {"none", "running", "error", "short", "audio"}]
  /\ caller \in [Request -> {"idle", "waiting", "gone", "answered", "opening", "served", "failed"}]
  /\ age \in [Request -> Nat]
  /\ inputs \subseteq Request /\ published \subseteq Request

GateInv ==
  /\ active = Cardinality(Inside) /\ active <= Limit
  /\ \A r \in inputs : handler[r] \in {"saving", "pipeline", "lost", "cut"}

ServeInv ==
  \A r \in Request :
    /\ synthesis[r] = "running" => handler[r] = "pipeline"
    /\ caller[r] \in {"answered", "opening"} => handler[r] = "done"
    /\ handler[r] = "returning" \/ caller[r] \in {"answered", "opening"} =>
         r \in published \/ age[r] >= TimeToLive

ShotInv == ShotTypes /\ GateInv /\ ServeInv

(* Requests come into the gate and leave it one at a time.                 *)
LEMMA InsideCounts ==
  ASSUME NEW S \in SUBSET Request, NEW r \in Request
  PROVE  /\ Cardinality(S) \in Nat
         /\ r \notin S => Cardinality(S \cup {r}) = Cardinality(S) + 1
         /\ r \in S => Cardinality(S \ {r}) = Cardinality(S) - 1
<1>1. IsFiniteSet(S)
  BY OneShotAssumption, FS_Subset
<1>2. QED
  BY <1>1, FS_CardinalityType, FS_AddElement, FS_RemoveElement

LEMMA ShotTypesStep == ShotTypes /\ [OneShotNext]_oneShotVars => ShotTypes'
<1> SUFFICES ASSUME ShotTypes, [OneShotNext]_oneShotVars
             PROVE  ShotTypes'
  OBVIOUS
<1> USE DEF ShotTypes, HandlerPlace, serverVars, fileVars
<1>1. ASSUME NEW r \in Request, RequestNext(r)
      PROVE  ShotTypes'
  <2>1. CASE Post(r)
    BY <2>1 DEF Post
  <2>2. CASE Refuse(r)
    BY <2>2 DEF Refuse, Answer
  <2>3. CASE Enter(r)
    BY <2>3 DEF Enter
  <2>4. CASE StartPipeline(r)
    BY <2>4 DEF StartPipeline
  <2>5. CASE PipelineEnds(r)
    BY <2>5 DEF PipelineEnds
  <2>6. CASE Reject(r)
    BY <2>6 DEF Reject, Unlink, Answer
  <2>7. CASE Publish(r)
    BY <2>7 DEF Publish, Unlink, Answer
  <2>8. CASE Leave(r)
    BY <2>8 DEF Leave, Answer
  <2>9. CASE Resolve(r)
    BY <2>9 DEF Resolve
  <2>10. CASE Serve(r)
    BY <2>10 DEF Serve
  <2>11. CASE GiveUp(r)
    BY <2>11 DEF GiveUp
  <2>12. QED
    BY <1>1, <2>1, <2>2, <2>3, <2>4, <2>5, <2>6, <2>7, <2>8, <2>9, <2>10, <2>11 DEF RequestNext
<1>2. CASE CleanupAudio
  BY <1>2 DEF CleanupAudio
<1>3. CASE ClockTick
  BY <1>3 DEF ClockTick
<1>4. CASE GatewayCrash
  BY <1>4 DEF GatewayCrash
<1>5. CASE UNCHANGED oneShotVars
  BY <1>5 DEF oneShotVars
<1>6. QED
  BY <1>1, <1>2, <1>3, <1>4, <1>5 DEF OneShotNext

LEMMA GateInvStep == ShotTypes /\ GateInv /\ [OneShotNext]_oneShotVars => GateInv'
<1> SUFFICES ASSUME ShotTypes, GateInv, [OneShotNext]_oneShotVars
             PROVE  GateInv'
  OBVIOUS
<1> USE DEF ShotTypes, GateInv, HandlerPlace, serverVars, fileVars
<1>1. ASSUME UNCHANGED <<active, handler, inputs>>
      PROVE  GateInv'
  BY <1>1 DEF Inside
<1>2. ASSUME NEW r \in Request, handler' = [handler EXCEPT ![r] = "lost"],
             UNCHANGED <<active, inputs>>, r \in Inside
      PROVE  GateInv'
  <2>1. Inside' = Inside
    BY <1>2 DEF Inside
  <2>2. QED
    BY <1>2, <2>1
<1>3. ASSUME NEW r \in Request, NEW then \in {"raising", "returning"}, Unlink(r, then),
             UNCHANGED active, r \in Inside
      PROVE  GateInv'
  <2>1. CASE handler' = [handler EXCEPT ![r] = then] /\ inputs' = inputs \ {r}
    <3>1. Inside' = Inside
      BY <1>3, <2>1 DEF Inside
    <3>2. QED
      BY <1>3, <2>1, <3>1
  <2>2. QED
    BY <1>2, <1>3, <2>1 DEF Unlink
<1>4. ASSUME NEW r \in Request, RequestNext(r)
      PROVE  GateInv'
  <2>1. CASE Post(r) \/ PipelineEnds(r) \/ Resolve(r) \/ Serve(r) \/ GiveUp(r)
    BY <1>1, <2>1 DEF Post, PipelineEnds, Resolve, Serve, GiveUp
  <2>2. CASE Refuse(r)
    <3>1. Inside' = Inside
      BY <2>2 DEF Refuse, Inside
    <3>2. QED
      BY <2>2, <3>1 DEF Refuse
  <2>3. CASE Enter(r)
    <3>1. Inside' = Inside \cup {r} /\ r \notin Inside /\ Inside \in SUBSET Request
      BY <2>3 DEF Enter, Inside
    <3>2. Cardinality(Inside') = Cardinality(Inside) + 1 /\ Cardinality(Inside) \in Nat
      BY <3>1, InsideCounts
    <3>3. active' = active + 1 /\ active < Limit
      BY <2>3 DEF Enter
    <3>4. active' = Cardinality(Inside') /\ active' <= Limit
      BY <3>2, <3>3, OneShotAssumption
    <3>5. QED
      BY <2>3, <3>4 DEF Enter
  <2>4. CASE StartPipeline(r)
    <3>1. Inside' = Inside
      BY <2>4 DEF StartPipeline, Inside
    <3>2. QED
      BY <2>4, <3>1 DEF StartPipeline
  <2>5. CASE Reject(r)
    BY <1>3, <2>5 DEF Reject, Inside
  <2>6. CASE Publish(r)
    BY <1>3, <2>6 DEF Publish, Inside
  <2>7. CASE Leave(r)
    <3>1. r \in Inside /\ Inside \in SUBSET Request
      BY <2>7 DEF Leave, Inside
    <3>2. CASE handler' = [handler EXCEPT ![r] = "done"] /\ active' = active - 1
      <4>1. Inside' = Inside \ {r}
        BY <3>2 DEF Inside
      <4>2. Cardinality(Inside') = Cardinality(Inside) - 1 /\ Cardinality(Inside) \in Nat
        BY <3>1, <4>1, InsideCounts
      <4>3. active' = Cardinality(Inside') /\ active' <= Limit
        BY <3>2, <4>2, OneShotAssumption
      <4>4. QED
        BY <2>7, <3>2, <4>3 DEF Leave
    <3>3. QED
      BY <1>2, <2>7, <3>1, <3>2 DEF Leave
  <2>8. QED
    BY <1>4, <2>1, <2>2, <2>3, <2>4, <2>5, <2>6, <2>7 DEF RequestNext
<1>5. CASE CleanupAudio \/ ClockTick \/ UNCHANGED oneShotVars
  BY <1>1, <1>5 DEF CleanupAudio, ClockTick, oneShotVars
<1>6. CASE GatewayCrash
  <2>1. Inside' = {}
    BY <1>6 DEF GatewayCrash, Inside
  <2>2. active' = Cardinality(Inside')
    BY <1>6, <2>1, FS_EmptySet DEF GatewayCrash
  <2>3. active' <= Limit
    BY <1>6, OneShotAssumption DEF GatewayCrash
  <2>4. QED
    BY <1>6, <2>2, <2>3 DEF GatewayCrash, Inside
<1>7. QED
  BY <1>4, <1>5, <1>6 DEF OneShotNext

LEMMA ServeInvStep == ShotTypes /\ ServeInv /\ [OneShotNext]_oneShotVars => ServeInv'
<1> SUFFICES ASSUME ShotTypes, ServeInv, [OneShotNext]_oneShotVars
             PROVE  ServeInv'
  OBVIOUS
<1> USE DEF ShotTypes, ServeInv, HandlerPlace, serverVars, fileVars
<1>1. ASSUME NEW r \in Request, RequestNext(r)
      PROVE  ServeInv'
  <2>1. CASE Post(r)
    BY <2>1 DEF Post
  <2>2. CASE Refuse(r)
    BY <2>2 DEF Refuse, Answer
  <2>3. CASE Enter(r)
    BY <2>3 DEF Enter
  <2>4. CASE StartPipeline(r)
    BY <2>4 DEF StartPipeline
  <2>5. CASE PipelineEnds(r)
    BY <2>5 DEF PipelineEnds
  <2>6. CASE Reject(r)
    BY <2>6 DEF Reject, Unlink, Answer
  <2>7. CASE Publish(r)
    BY <2>7 DEF Publish, Unlink, Answer
  <2>8. CASE Leave(r)
    BY <2>8 DEF Leave, Answer
  <2>9. CASE Resolve(r)
    BY <2>9, OneShotAssumption DEF Resolve
  <2>10. CASE Serve(r)
    BY <2>10 DEF Serve
  <2>11. CASE GiveUp(r)
    BY <2>11 DEF GiveUp
  <2>12. QED
    BY <1>1, <2>1, <2>2, <2>3, <2>4, <2>5, <2>6, <2>7, <2>8, <2>9, <2>10, <2>11 DEF RequestNext
<1>2. CASE CleanupAudio
  BY <1>2, OneShotAssumption DEF CleanupAudio
<1>3. CASE ClockTick
  BY <1>3, OneShotAssumption DEF ClockTick
<1>4. CASE GatewayCrash
  BY <1>4 DEF GatewayCrash, Inside
<1>5. CASE UNCHANGED oneShotVars
  BY <1>5 DEF oneShotVars
<1>6. QED
  BY <1>1, <1>2, <1>3, <1>4, <1>5 DEF OneShotNext

(* Every handler, its thread, its recording and the audio it published are *)
(* what the next step of the code takes for granted, across crashes too.   *)
THEOREM ShotInvariant == OneShotSpec => []ShotInv
<1>1. OneShotInit => ShotInv
  <2> SUFFICES ASSUME OneShotInit
               PROVE  ShotInv
    OBVIOUS
  <2>1. Inside = {}
    BY DEF OneShotInit, Inside
  <2>2. active = Cardinality(Inside) /\ active <= Limit
    BY <2>1, FS_EmptySet, OneShotAssumption DEF OneShotInit
  <2>3. QED
    BY <2>2 DEF OneShotInit, ShotInv, ShotTypes, HandlerPlace, GateInv, ServeInv
<1>2. ShotInv /\ [OneShotNext]_oneShotVars => ShotInv'
  BY ShotTypesStep, GateInvStep, ServeInvStep DEF ShotInv
<1>3. QED
  BY <1>1, <1>2, PTL DEF OneShotSpec

(* The gate counts exactly the requests that are inside, however they      *)
(* overtake, fail or are refused, and no recording stays but theirs.       *)
THEOREM GateTheorem == OneShotSpec => []GateIsHandlers
<1>1. ShotInv => GateIsHandlers
  BY DEF ShotInv, ShotTypes, GateInv, GateIsHandlers, Inside
<1>2. QED
  BY <1>1, ShotInvariant, PTL

(* Audio that a client was told of stays until its time is over, whatever  *)
(* the clean-up, the other requests and a crash do meanwhile.              *)
THEOREM AnswerTheorem == OneShotSpec => []AnswerIsServable
<1>1. ShotInv => AnswerIsServable
  BY OneShotAssumption DEF ShotInv, ShotTypes, ServeInv, AnswerIsServable
<1>2. QED
  BY <1>1, ShotInvariant, PTL

-------------------------------------------------------------------------------
(***************************************************************************)
(* The window and its workers (DesktopWindow).                             *)
(***************************************************************************)

SignalNames == {"audio", "completed", "failed", "finished", "gone"}
KindNames == {"none", "stream", "meeting", "process", "replay", "check"}
Busy == {"work", "play", "spawned", "playing", "played"}
StepNames == Busy \cup {"off", "returned", "over"}

RunTypes ==
  /\ started \in 0..MaxWorkers /\ current \in 0..started
  /\ kind \in [Workers -> KindNames]
  /\ step \in [Workers -> StepNames]
  /\ afplay \in 0..started
  /\ afplay # 0 => step[afplay] = "playing"

PlainTypes ==
  /\ inbox \in Seq(SignalNames \X Workers)
  /\ recording \in BOOLEAN /\ hasAudio \in BOOLEAN /\ astray \in BOOLEAN
  /\ startOn \in BOOLEAN /\ stopOn \in BOOLEAN /\ replayOn \in BOOLEAN

Over(w) == step[w] = "over"

Said(S) == \A i \in 1..Len(inbox) : inbox[i][1] \in S

(* Unless the program was led astray there is one worker at a time, and    *)
(* only its own signals are on their way.                                  *)
OneWorker ==
  /\ \A w \in 1..started : w # current => Over(w)
  /\ \A i \in 1..Len(inbox) : inbox[i][2] = current
  /\ current = 0 => inbox = <<>>

(* They tell how far it is: nothing but saved audio while it works, and    *)
(* that it is gone at the very end.                                        *)
ToldInOrder ==
  /\ current # 0 /\ step[current] \in Busy => Said({"audio"})
  /\ current # 0 /\ ~Over(current) => Said(SignalNames \ {"gone"})
  /\ \A i \in 1..Len(inbox) : inbox[i][1] = "gone" => i = Len(inbox)

(* A recording runs without a worker, and a session without the buttons    *)
(* that would take the stop button away.                                   *)
RecordingInv ==
  recording => current = 0 /\ chosen = "remote" /\ stopOn /\ ~startOn /\ ~replayOn

Session(w) == kind[w] \in {"stream", "meeting"} /\ step[w] = "work"

SessionInv == current # 0 /\ Session(current) => ~replayOn /\ (current \in stopAsked \/ stopOn)

Steady == OneWorker /\ ToldInOrder /\ RecordingInv /\ SessionInv

WindowInv == RunTypes /\ PlainTypes /\ (~astray => Steady)

(* A worker is started behind those there were.                            *)
LEMMA PlayerStopped ==
  ASSUME RunTypes
  PROVE  /\ StepsPlayerStopped \in [Workers -> StepNames]
         /\ \A w \in Workers : StepsPlayerStopped[w] = IF w = afplay THEN "played" ELSE step[w]
         /\ \A w \in Workers : step[w] # "playing" => StepsPlayerStopped[w] = step[w]
BY WindowAssumption DEF RunTypes, StepsPlayerStopped, Workers, StepNames, Busy

LEMMA WorkerStarted ==
  ASSUME RunTypes, NEW k \in KindNames, NEW first \in Busy, NEW s \in [Workers -> StepNames],
         StartWorker(k), NewStep(s, first),
         \/ afplay' = 0
         \/ afplay' = afplay /\ s = step,
         \A w \in Workers : Over(w) => s[w] = "over"
  PROVE  /\ RunTypes'
         /\ current' = started + 1 /\ started' = started + 1
         /\ kind'[current'] = k /\ step'[current'] = first
         /\ \A w \in 1..started : w \in Workers /\ (Over(w) => Over(w)')
<1>1. started \in Nat /\ started + 1 \in Workers
  BY WindowAssumption DEF RunTypes, StartWorker, Workers
<1>2. started' = started + 1 /\ current' = started + 1
  BY DEF StartWorker
<1>3. kind' \in [Workers -> KindNames] /\ kind'[started + 1] = k
  BY <1>1, <1>2 DEF StartWorker, RunTypes
<1>4. /\ step' \in [Workers -> StepNames] /\ step'[started + 1] = first
      /\ \A w \in Workers : w # started + 1 => step'[w] = s[w]
  BY <1>1 DEF NewStep, StepNames
<1>5. \A w \in 1..started : w \in Workers /\ w # started + 1
  BY <1>1, WindowAssumption DEF Workers, RunTypes
<1>6. afplay' \in 0..started' /\ (afplay' # 0 => step'[afplay'] = "playing")
  BY <1>1, <1>2, <1>4, <1>5 DEF RunTypes
<1>7. started' \in 0..MaxWorkers /\ current' \in 0..started'
  BY <1>1, <1>2, WindowAssumption DEF Workers
<1>8. QED
  BY <1>1, <1>2, <1>3, <1>4, <1>5, <1>6, <1>7 DEF RunTypes, Over

(* What worker w may put at the end of the queue: n signals, out of S.     *)
Added(w, S, n) ==
  /\ inbox' \in Seq(SignalNames \X Workers)
  /\ Len(inbox') = Len(inbox) + n
  /\ \A i \in 1..Len(inbox') :
       \/ i \in 1..Len(inbox) /\ inbox'[i] = inbox[i]
       \/ i \notin 1..Len(inbox) /\ inbox'[i][1] \in S /\ inbox'[i][2] = w

(* Signals come to the end of the queue and leave it at the beginning.     *)
LEMMA Emitted ==
  ASSUME PlainTypes, NEW w \in Workers, NEW S \in SUBSET SignalNames, NEW signals \in Seq(S),
         Emit(w, signals)
  PROVE  Added(w, S, Len(signals))
<1> DEFINE more == [i \in DOMAIN signals |-> <<signals[i], w>>]
<1>1. /\ DOMAIN signals = 1..Len(signals) /\ Len(signals) \in Nat
      /\ \A i \in 1..Len(signals) : signals[i] \in S
  OBVIOUS
<1>2. /\ more = [i \in 1..Len(signals) |-> <<signals[i], w>>]
      /\ \A i \in 1..Len(signals) : <<signals[i], w>> \in SignalNames \X Workers
  BY <1>1
<1>3. more \in Seq(SignalNames \X Workers) /\ Len(more) = Len(signals)
  BY <1>1, <1>2
<1>4. \A i \in 1..Len(signals) : more[i] = <<signals[i], w>>
  BY <1>2
<1>5. inbox' = inbox \o more
  BY DEF Emit
<1> HIDE DEF more
<1>6. inbox \in Seq(SignalNames \X Workers) /\ Len(inbox) \in Nat
  BY DEF PlainTypes
<1>7. /\ inbox' \in Seq(SignalNames \X Workers)
      /\ Len(inbox') = Len(inbox) + Len(signals)
      /\ \A i \in 1..Len(inbox') :
           inbox'[i] = IF i <= Len(inbox) THEN inbox[i] ELSE more[i - Len(inbox)]
  <2> DEFINE whole == inbox \o more
  <2>1. /\ whole \in Seq(SignalNames \X Workers)
        /\ Len(whole) = Len(inbox) + Len(more)
    BY <1>3, <1>6, ConcatProperties
  <2>2. \A i \in 1..Len(whole) :
          whole[i] = IF i <= Len(inbox) THEN inbox[i] ELSE more[i - Len(inbox)]
    BY <1>3, <1>6, <2>1, ConcatProperties
  <2>3. inbox' = whole
    BY <1>5
  <2> HIDE DEF whole
  <2>4. QED
    BY <1>3, <2>1, <2>2, <2>3
<1>8. ASSUME NEW i \in 1..Len(inbox')
      PROVE  \/ i \in 1..Len(inbox) /\ inbox'[i] = inbox[i]
             \/ i \notin 1..Len(inbox) /\ inbox'[i][1] \in S /\ inbox'[i][2] = w
  <2>1. CASE i <= Len(inbox)
    <3>1. i \in 1..Len(inbox)
      BY <1>6, <2>1
    <3>2. inbox'[i] = inbox[i]
      BY <1>7, <2>1
    <3>3. QED
      BY <3>1, <3>2
  <2>2. CASE i > Len(inbox)
    <3>1. i - Len(inbox) \in 1..Len(signals)
      BY <1>1, <1>6, <1>7, <2>2
    <3>2. inbox'[i] = more[i - Len(inbox)]
      BY <1>6, <1>7, <2>2
    <3>3. inbox'[i] = <<signals[i - Len(inbox)], w>>
      BY <1>4, <3>1, <3>2
    <3>4. QED
      BY <1>1, <1>6, <2>2, <3>1, <3>3
  <2>3. QED
    BY <1>6, <2>1, <2>2
<1>9. QED
  BY <1>7, <1>8 DEF Added

LEMMA ReceivedOne ==
  ASSUME PlainTypes, NEW signal, Received(signal)
  PROVE  /\ inbox' \in Seq(SignalNames \X Workers)
         /\ Len(inbox) \in Nat /\ Len(inbox) > 0 /\ Len(inbox') = Len(inbox) - 1
         /\ \A i \in 1..Len(inbox') : i + 1 \in 1..Len(inbox) /\ inbox'[i] = inbox[i + 1]
         /\ 1 \in 1..Len(inbox) /\ Head(inbox) = inbox[1] /\ inbox[1][1] = signal
         /\ inbox[1] \in SignalNames \X Workers
<1>1. inbox \in Seq(SignalNames \X Workers) /\ inbox # <<>> /\ inbox' = Tail(inbox)
  BY DEF PlainTypes, Received
<1>2. /\ inbox' \in Seq(SignalNames \X Workers)
      /\ Len(inbox') = Len(inbox) - 1
      /\ \A i \in 1..Len(inbox') : inbox'[i] = inbox[i + 1]
  BY <1>1, HeadTailProperties
<1>3. Len(inbox) \in Nat /\ Len(inbox) > 0 /\ Head(inbox) = inbox[1]
  BY <1>1
<1>4. \A i \in 1..Len(inbox') : i + 1 \in 1..Len(inbox)
  BY <1>2, <1>3
<1>5. 1 \in 1..Len(inbox) /\ inbox[1] \in SignalNames \X Workers
  BY <1>1, <1>3
<1>6. QED
  BY <1>1, <1>2, <1>3, <1>4, <1>5 DEF Received

(* A new worker finds an empty queue.                                      *)
LEMMA FirstWorker ==
  ASSUME RunTypes, Steady, current = 0,
         NEW k \in KindNames, NEW first \in Busy,
         StartWorker(k), NewStep(step, first), afplay' = afplay, inbox' = inbox, ~recording',
         k \in {"stream", "meeting"} => ~replayOn' /\ stopOn'
  PROVE  RunTypes' /\ Steady'
<1>1. step \in [Workers -> StepNames]
  BY DEF RunTypes
<1>2. /\ RunTypes'
      /\ current' = started + 1 /\ started' = started + 1
      /\ kind'[current'] = k /\ step'[current'] = first
      /\ \A w \in 1..started : w \in Workers /\ (Over(w) => Over(w)')
  BY <1>1, WorkerStarted DEF Over
<1>3. inbox' = <<>> /\ started \in Nat
  BY DEF Steady, OneWorker, RunTypes
<1>4. \A w \in 1..started' : w # current' => Over(w)'
  <2>1. \A w \in 1..started' : w # current' => w \in 1..started
    BY <1>2, <1>3
  <2>2. \A w \in 1..started : Over(w)'
    BY <1>2, <1>3 DEF Steady, OneWorker
  <2>3. QED
    BY <2>1, <2>2
<1>5. OneWorker' /\ ToldInOrder'
  BY <1>2, <1>3, <1>4 DEF OneWorker, ToldInOrder, Said
<1>6. RecordingInv' /\ SessionInv'
  BY <1>2 DEF RecordingInv, SessionInv, Session
<1>7. QED
  BY <1>2, <1>5, <1>6 DEF Steady

(* While the queue stays as it is, at most a playing process is stopped.   *)
LEMMA QueueKept ==
  ASSUME RunTypes, Steady, UNCHANGED <<current, started, inbox>>,
         step' = step \/ step' = StepsPlayerStopped
  PROVE  OneWorker' /\ ToldInOrder'
<1>1. \A w \in Workers : Over(w)' <=> Over(w)
  BY PlayerStopped DEF Over, RunTypes
<1>2. \A w \in Workers : step'[w] \in Busy <=> step[w] \in Busy
  BY PlayerStopped DEF Busy, RunTypes
<1>3. \A w \in 1..started : w \in Workers
  BY WindowAssumption DEF RunTypes, Workers
<1>4. current # 0 => current \in 1..started
  BY WindowAssumption DEF RunTypes
<1>5. OneWorker'
  BY <1>1, <1>3 DEF Steady, OneWorker
<1>6. \A S : Said(S)' <=> Said(S)
  BY DEF Said
<1>7. ToldInOrder'
  BY <1>1, <1>2, <1>3, <1>4, <1>6 DEF Steady, ToldInOrder
<1>8. QED
  BY <1>5, <1>7

LEMMA SessionKept ==
  ASSUME RunTypes, Steady, UNCHANGED <<current, kind>>,
         step' = step \/ step' = StepsPlayerStopped,
         stopAsked \subseteq stopAsked',
         current # 0 => ~replayOn' \/ replayOn' = replayOn,
         current # 0 => stopOn' = stopOn \/ current \in stopAsked' \/ ~TakesRequests
  PROVE  SessionInv'
<1>1. CASE current = 0
  BY <1>1 DEF SessionInv
<1>2. CASE current # 0
  <2>1. current \in Workers
    BY <1>2, WindowAssumption DEF RunTypes, Workers
  <2>2. step'[current] = step[current] \/ step'[current] # "work"
    BY <2>1, PlayerStopped
  <2>3. QED
    BY <1>2, <2>2 DEF SessionInv, Session, Steady, TakesRequests
<1>3. QED
  BY <1>1, <1>2

LEMMA Stopped ==
  ASSUME RunTypes, StopPlayer, UNCHANGED workerVars
  PROVE  RunTypes'
<1>1. started \in Nat
  BY WindowAssumption DEF RunTypes
<1>2. QED
  BY <1>1, PlayerStopped DEF RunTypes, StopPlayer, workerVars

(* Nothing is played while no worker runs.                                 *)
LEMMA NothingPlays ==
  ASSUME RunTypes, Steady, current = 0
  PROVE  afplay = 0 /\ StepsPlayerStopped = step
<1>1. afplay = 0
  <2>1. ASSUME afplay # 0
        PROVE  FALSE
    <3>1. afplay \in 1..started
      BY <2>1, WindowAssumption DEF RunTypes
    <3>2. QED
      BY <2>1, <3>1 DEF RunTypes, Steady, OneWorker, Over
  <2>2. QED
    BY <2>1
<1>2. QED
  BY <1>1 DEF StepsPlayerStopped

LEMMA Refused ==
  ASSUME RunTypes, Steady, ~recording', UNCHANGED <<workerVars, step, afplay, inbox>>,
         current = 0 \/ ~Session(current)
  PROVE  RunTypes' /\ Steady'
<1> USE DEF workerVars
<1>1. RunTypes'
  BY DEF RunTypes
<1>2. OneWorker' /\ ToldInOrder'
  BY QueueKept
<1>3. RecordingInv' /\ SessionInv'
  BY DEF RecordingInv, SessionInv, Session
<1>4. QED
  BY <1>1, <1>2, <1>3 DEF Steady

UserActs ==
  \/ StartRecording \/ StartStreaming \/ StartMeeting \/ AskToStop \/ StopRecording
  \/ Replay \/ RunAudioCheck \/ UpdateSetup \/ SwitchMode \/ CloseWindow

LEMMA UserPlainTypes ==
  ASSUME PlainTypes, UserActs
  PROVE  PlainTypes'
<1> USE DEF PlainTypes, Rest, buttonVars, workerVars
<1>1. CASE StartRecording
  BY <1>1 DEF StartRecording
<1>2. CASE StartStreaming
  BY <1>2 DEF StartStreaming
<1>3. CASE StartMeeting
  BY <1>3 DEF StartMeeting
<1>4. CASE AskToStop
  BY <1>4 DEF AskToStop
<1>5. CASE StopRecording
  BY <1>5 DEF StopRecording
<1>6. CASE Replay
  BY <1>6 DEF Replay
<1>7. CASE RunAudioCheck
  BY <1>7 DEF RunAudioCheck
<1>8. CASE UpdateSetup
  BY <1>8 DEF UpdateSetup
<1>9. CASE SwitchMode
  BY <1>9 DEF SwitchMode
<1>10. CASE CloseWindow
  BY <1>10 DEF CloseWindow
<1>11. QED
  BY <1>1, <1>2, <1>3, <1>4, <1>5, <1>6, <1>7, <1>8, <1>9, <1>10 DEF UserActs

LEMMA UserStep ==
  ASSUME RunTypes, PlainTypes, ~astray => Steady, UserActs
  PROVE  RunTypes' /\ (~astray' => Steady')
<1> USE DEF workerVars, buttonVars
<1>1. inbox' = inbox
  BY DEF UserActs, StartRecording, StartStreaming, StartMeeting, AskToStop, StopRecording,
         Replay, RunAudioCheck, UpdateSetup, SwitchMode, CloseWindow
<1>2. /\ step \in [Workers -> StepNames] /\ StepsPlayerStopped \in [Workers -> StepNames]
      /\ \A w \in Workers : Over(w) => step[w] = "over" /\ StepsPlayerStopped[w] = "over"
  BY PlayerStopped DEF RunTypes, Over
<1>3. ASSUME NEW k \in KindNames, NEW first \in Busy,
             StartWorker(k), NewStep(step, first), afplay' = afplay
      PROVE  RunTypes'
  BY <1>2, <1>3, WorkerStarted
<1>4. ASSUME NEW k \in KindNames, NEW first \in Busy,
             StartWorker(k), NewStep(step, first), afplay' = afplay,
             ~astray, current = 0, ~recording', k \in {"stream", "meeting"} => ~replayOn' /\ stopOn'
      PROVE  Steady'
  BY <1>1, <1>4, FirstWorker
<1>5. /\ {"stream", "meeting", "process", "replay", "check"} \subseteq KindNames
      /\ {"work", "play"} \subseteq Busy
  BY DEF KindNames, Busy
<1>6. CASE StartRecording
  <2>1. RunTypes'
    BY <1>6, Stopped DEF StartRecording
  <2>2. ASSUME ~astray'
        PROVE  Steady'
    <3>1. /\ Steady /\ current = 0 /\ UNCHANGED <<current, started, kind>>
          /\ step' = StepsPlayerStopped
      BY <1>6, <2>2 DEF StartRecording, StopPlayer
    <3>2. OneWorker' /\ ToldInOrder'
      BY <1>1, <3>1, QueueKept
    <3>3. RecordingInv' /\ SessionInv'
      BY <1>6, <3>1 DEF StartRecording, RecordingInv, SessionInv, Steady, Rest
    <3>4. QED
      BY <3>2, <3>3 DEF Steady
  <2>3. QED
    BY <2>1, <2>2
<1>7. CASE StartStreaming
  <2>1. CASE /\ StartWorker("stream") /\ NewStep(StepsPlayerStopped, "work")
             /\ afplay' = 0 /\ ~replayOn' /\ stopOn'
    <3>1. RunTypes'
      BY <1>2, <1>5, <2>1, WorkerStarted
    <3>2. ASSUME ~astray'
          PROVE  Steady'
      <4>1. Steady /\ current = 0 /\ ~recording'
        BY <1>7, <3>2 DEF StartStreaming, Steady, RecordingInv
      <4>2. NewStep(step, "work") /\ afplay' = afplay
        BY <2>1, <4>1, NothingPlays
      <4>3. QED
        BY <1>1, <1>5, <2>1, <4>1, <4>2, FirstWorker
    <3>3. QED
      BY <3>1, <3>2
  <2>2. CASE Rest(hasAudio) /\ UNCHANGED <<workerVars, step, afplay>>
    <3>1. RunTypes'
      BY <2>2 DEF RunTypes
    <3>2. ASSUME ~astray'
          PROVE  Steady'
      <4>1. Steady /\ current = 0 /\ ~recording'
        BY <1>7, <3>2 DEF StartStreaming, Steady, RecordingInv
      <4>2. QED
        BY <1>1, <2>2, <4>1, Refused
    <3>3. QED
      BY <3>1, <3>2
  <2>3. QED
    BY <1>7, <2>1, <2>2 DEF StartStreaming
<1>8. CASE StartMeeting
  <2>1. CASE StartWorker("meeting") /\ NewStep(step, "work") /\ ~replayOn' /\ stopOn'
    <3>1. RunTypes'
      BY <1>3, <1>5, <1>8, <2>1 DEF StartMeeting
    <3>2. ASSUME ~astray'
          PROVE  Steady'
      <4>1. Steady /\ current = 0 /\ ~recording' /\ ~astray /\ afplay' = afplay
        BY <1>8, <3>2 DEF StartMeeting, Steady, RecordingInv
      <4>2. QED
        BY <1>4, <1>5, <2>1, <4>1
    <3>3. QED
      BY <3>1, <3>2
  <2>2. CASE Rest(hasAudio) /\ UNCHANGED <<workerVars, step>>
    <3>1. RunTypes'
      BY <1>8, <2>2 DEF RunTypes, StartMeeting
    <3>2. ASSUME ~astray'
          PROVE  Steady'
      <4>1. Steady /\ current = 0 /\ ~recording' /\ afplay' = afplay
        BY <1>8, <3>2 DEF StartMeeting, Steady, RecordingInv
      <4>2. QED
        BY <1>1, <2>2, <4>1, Refused
    <3>3. QED
      BY <3>1, <3>2
  <2>3. QED
    BY <1>8, <2>1, <2>2 DEF StartMeeting
<1>9. CASE AskToStop
  <2>1. RunTypes'
    BY <1>9 DEF RunTypes, AskToStop
  <2>2. ASSUME ~astray'
        PROVE  Steady'
    <3>1. Steady
      BY <1>9, <2>2 DEF AskToStop
    <3>2. OneWorker' /\ ToldInOrder'
      BY <1>1, <1>9, <3>1, QueueKept DEF AskToStop
    <3>3. RecordingInv' /\ SessionInv'
      BY <1>9, <3>1 DEF AskToStop, TakesRequests, RecordingInv, SessionInv, Session, Steady
    <3>4. QED
      BY <3>2, <3>3 DEF Steady
  <2>3. QED
    BY <2>1, <2>2
<1>10. CASE StopRecording
  <2>1. CASE recording /\ StartWorker("process") /\ NewStep(step, "work")
    <3>1. RunTypes'
      BY <1>3, <1>5, <1>10, <2>1 DEF StopRecording
    <3>2. ASSUME ~astray'
          PROVE  Steady'
      <4>1. Steady /\ current = 0 /\ ~recording' /\ ~astray /\ afplay' = afplay
        BY <1>10, <2>1, <3>2 DEF StopRecording, Steady, RecordingInv
      <4>2. QED
        BY <1>4, <1>5, <2>1, <4>1
    <3>3. QED
      BY <3>1, <3>2
  <2>2. CASE Rest(hasAudio) /\ UNCHANGED <<workerVars, step>>
    <3>1. RunTypes'
      BY <1>10, <2>2 DEF RunTypes, StopRecording
    <3>2. ASSUME ~astray'
          PROVE  Steady'
      <4>1. Steady /\ ~recording' /\ afplay' = afplay /\ (current = 0 \/ ~Session(current))
        BY <1>10, <3>2 DEF StopRecording, TakesRequests, Session
      <4>2. QED
        BY <1>1, <2>2, <4>1, Refused
    <3>3. QED
      BY <3>1, <3>2
  <2>3. QED
    BY <1>10, <2>1, <2>2 DEF StopRecording
<1>11. CASE Replay
  <2>1. CASE current = 0 /\ StartWorker("replay") /\ NewStep(step, "play")
    <3>1. RunTypes'
      BY <1>3, <1>5, <1>11, <2>1 DEF Replay
    <3>2. ASSUME ~astray'
          PROVE  Steady'
      <4>1. Steady /\ ~recording' /\ ~astray /\ afplay' = afplay
        BY <1>11, <3>2 DEF Replay, Steady, RecordingInv
      <4>2. QED
        BY <1>4, <1>5, <2>1, <4>1
    <3>3. QED
      BY <3>1, <3>2
  <2>2. CASE Rest(hasAudio) /\ UNCHANGED <<workerVars, step>>
    <3>1. RunTypes'
      BY <1>11, <2>2 DEF RunTypes, Replay
    <3>2. ASSUME ~astray'
          PROVE  Steady'
      <4>1. Steady /\ ~recording' /\ afplay' = afplay /\ (current = 0 \/ ~Session(current))
        BY <1>11, <3>2 DEF Replay, Steady, RecordingInv, SessionInv
      <4>2. QED
        BY <1>1, <2>2, <4>1, Refused
    <3>3. QED
      BY <3>1, <3>2
  <2>3. QED
    BY <1>11, <2>1, <2>2 DEF Replay
<1>12. CASE RunAudioCheck
  <2>1. RunTypes'
    BY <1>3, <1>5, <1>12 DEF RunAudioCheck
  <2>2. ASSUME ~astray'
        PROVE  Steady'
    <3>1. Steady /\ ~recording' /\ ~astray /\ afplay' = afplay /\ current = 0
      BY <1>12, <2>2 DEF RunAudioCheck, Steady, RecordingInv
    <3>2. QED
      BY <1>4, <1>5, <1>12, <3>1 DEF RunAudioCheck
  <2>3. QED
    BY <2>1, <2>2
<1>13. CASE UpdateSetup
  <2>1. RunTypes'
    BY <1>13 DEF RunTypes, UpdateSetup
  <2>2. ASSUME ~astray'
        PROVE  Steady'
    <3>1. Steady
      BY <1>13, <2>2 DEF UpdateSetup
    <3>2. OneWorker' /\ ToldInOrder'
      BY <1>1, <1>13, <3>1, QueueKept DEF UpdateSetup
    <3>3. RecordingInv' /\ SessionInv'
      BY <1>13, <3>1 DEF UpdateSetup, RecordingInv, SessionInv, Session, Steady
    <3>4. QED
      BY <3>2, <3>3 DEF Steady
  <2>3. QED
    BY <2>1, <2>2
<1>14. CASE SwitchMode
  <2>1. RunTypes'
    BY <1>14 DEF RunTypes, SwitchMode
  <2>2. ASSUME ~astray'
        PROVE  Steady'
    <3>1. Steady /\ current = 0 /\ ~recording
      BY <1>14, <2>2 DEF SwitchMode
    <3>2. OneWorker' /\ ToldInOrder'
      BY <1>1, <1>14, <3>1, QueueKept DEF SwitchMode
    <3>3. RecordingInv' /\ SessionInv'
      BY <1>14, <3>1 DEF SwitchMode, RecordingInv, SessionInv
    <3>4. QED
      BY <3>2, <3>3 DEF Steady
  <2>3. QED
    BY <2>1, <2>2
<1>15. CASE CloseWindow
  <2>1. RunTypes'
    BY <1>15, Stopped DEF CloseWindow
  <2>2. ASSUME ~astray'
        PROVE  Steady'
    <3>1. /\ Steady /\ UNCHANGED <<current, started, kind, replayOn, stopOn, startOn, chosen>>
          /\ step' = StepsPlayerStopped /\ stopAsked \subseteq stopAsked'
          /\ recording' => recording
      BY <1>15, <2>2 DEF CloseWindow, StopPlayer
    <3>2. OneWorker' /\ ToldInOrder'
      BY <1>1, <3>1, QueueKept
    <3>3. SessionInv'
      BY <3>1, SessionKept
    <3>4. RecordingInv'
      BY <3>1 DEF RecordingInv, Steady
    <3>5. QED
      BY <3>2, <3>3, <3>4 DEF Steady
  <2>3. QED
    BY <2>1, <2>2
<1>16. QED
  BY <1>6, <1>7, <1>8, <1>9, <1>10, <1>11, <1>12, <1>13, <1>14, <1>15 DEF UserActs

LEMMA AddedNone ==
  ASSUME PlainTypes, NEW w, inbox' = inbox
  PROVE  Added(w, {}, 0)
<1>1. Len(inbox) \in Nat
  BY DEF PlainTypes
<1>2. QED
  BY <1>1 DEF PlainTypes, Added

LEMMA AddedOne ==
  ASSUME PlainTypes, NEW w \in Workers, NEW s \in SignalNames, Emit(w, <<s>>)
  PROVE  Added(w, {s}, 1)
<1> DEFINE signals == <<s>>
<1>1. signals \in Seq({s}) /\ Len(signals) = 1 /\ {s} \in SUBSET SignalNames
  OBVIOUS
<1>2. Emit(w, signals)
  OBVIOUS
<1> HIDE DEF signals
<1>3. QED
  BY <1>1, <1>2, Emitted

LEMMA AddedTwo ==
  ASSUME PlainTypes, NEW w \in Workers, NEW s \in {"completed", "failed"},
         Emit(w, <<s, "finished">>)
  PROVE  Added(w, {"completed", "failed", "finished"}, 2)
<1> DEFINE S == {"completed", "failed", "finished"}
<1> DEFINE signals == <<s, "finished">>
<1>1. signals \in Seq(S) /\ Len(signals) = 2 /\ S \in SUBSET SignalNames
  BY DEF SignalNames
<1>2. Emit(w, signals)
  OBVIOUS
<1> HIDE DEF signals
<1>3. QED
  BY <1>1, <1>2, Emitted

LEMMA SaidMore ==
  ASSUME NEW w, NEW S, NEW n, Added(w, S, n), NEW T, Said(T), S \subseteq T
  PROVE  Said(T)'
BY DEF Added, Said

(* A worker takes a step: what it was and what it says go together.        *)
LEMMA WorkerSteady ==
  ASSUME RunTypes, PlainTypes, Steady, NEW w \in 1..started, ~Over(w),
         UNCHANGED <<chosen, recording, current, started, kind, stopAsked>>,
         UNCHANGED <<startOn, stopOn, replayOn>>,
         \A v \in Workers : Over(v) => Over(v)',
         NEW S \in SUBSET SignalNames, NEW n \in Nat, Added(w, S, n),
         step'[w] \in Busy => step[w] \in Busy /\ S \subseteq {"audio"},
         step'[w] = "work" => step[w] = "work",
         ~Over(w)' => "gone" \notin S,
         "gone" \in S => n = 1
  PROVE  Steady'
<1>1. w = current /\ current # 0 /\ w \in Workers
  BY WindowAssumption DEF Steady, OneWorker, RunTypes, Workers
<1>2. \A v \in 1..started : v \in Workers
  BY WindowAssumption DEF RunTypes, Workers
<1>3. OneWorker'
  <2>1. \A i \in 1..Len(inbox') : inbox'[i][2] = current'
    BY <1>1 DEF Added, Steady, OneWorker
  <2>2. \A v \in 1..started' : v # current' => Over(v)'
    BY <1>2 DEF Steady, OneWorker
  <2>3. QED
    BY <1>1, <2>1, <2>2 DEF OneWorker
<1>4. ToldInOrder'
  <2>1. step'[w] \in Busy => Said({"audio"})'
    BY <1>1, SaidMore DEF Steady, ToldInOrder
  <2>2. ~Over(w)' => Said(SignalNames \ {"gone"})'
    <3>1. Said(SignalNames \ {"gone"})
      BY <1>1 DEF Steady, ToldInOrder
    <3>2. "gone" \notin S => S \subseteq SignalNames \ {"gone"}
      OBVIOUS
    <3>3. QED
      BY <3>1, <3>2, SaidMore
  <2>3. \A i \in 1..Len(inbox') : inbox'[i][1] = "gone" => i = Len(inbox')
    <3>1. \A i \in 1..Len(inbox) : inbox[i][1] # "gone"
      BY <1>1 DEF Steady, ToldInOrder, Said
    <3>2. Len(inbox) \in Nat
      BY DEF PlainTypes
    <3>3. QED
      BY <3>1, <3>2 DEF Added
  <2>4. QED
    BY <1>1, <2>1, <2>2, <2>3 DEF ToldInOrder
<1>5. RecordingInv' /\ SessionInv'
  BY <1>1 DEF RecordingInv, SessionInv, Session, Steady
<1>6. QED
  BY <1>3, <1>4, <1>5 DEF Steady

LEMMA WorkerRunTypes ==
  ASSUME RunTypes, NEW w \in 1..started, WorkerNext(w)
  PROVE  /\ RunTypes' /\ w \in Workers
         /\ UNCHANGED <<chosen, recording, current, started, kind, stopAsked,
                        startOn, stopOn, replayOn, hasAudio, astray>>
         /\ ~Over(w)
         /\ \A v \in Workers : Over(v) => Over(v)'
<1> USE DEF threadFrame, workerVars, buttonVars
<1>1. w \in Workers /\ started \in Nat /\ w # 0
  BY WindowAssumption DEF RunTypes, Workers
<1>2. UNCHANGED <<chosen, recording, current, started, kind, stopAsked,
                  startOn, stopOn, replayOn, hasAudio, astray>>
  BY DEF WorkerNext, Processed, TurnSaved, WorkEnds, Spawn, NoteProcess, PlayEnds, ThreadEnds
<1>3. ~Over(w)
  BY DEF WorkerNext, Processed, TurnSaved, WorkEnds, Spawn, NoteProcess, PlayEnds, ThreadEnds, Over
<1>4. CASE step' = step /\ afplay' = afplay
  BY <1>1, <1>2, <1>3, <1>4 DEF RunTypes, Over
<1>5. ASSUME NEW s \in StepNames, step' = [step EXCEPT ![w] = s], afplay' = afplay,
             step[w] # "playing"
      PROVE  RunTypes' /\ \A v \in Workers : Over(v) => Over(v)'
  BY <1>1, <1>2, <1>3, <1>5 DEF RunTypes, Over
<1>6. {"returned", "play", "over", "playing"} \subseteq StepNames
  BY DEF StepNames, Busy
<1>7. CASE Processed(w) \/ WorkEnds(w) \/ ThreadEnds(w)
  BY <1>1, <1>2, <1>3, <1>5, <1>6, <1>7 DEF Processed, WorkEnds, ThreadEnds
<1>8. CASE TurnSaved(w)
  BY <1>1, <1>2, <1>3, <1>4, <1>8 DEF TurnSaved
<1>9. CASE Spawn(w)
  <2>1. CASE step' = [StepsPlayerStopped EXCEPT ![w] = "spawned"] /\ afplay' = 0
    BY <1>1, <1>2, <1>3, <2>1, PlayerStopped DEF RunTypes, Over, StepNames, Busy
  <2>2. QED
    BY <1>1, <1>2, <1>3, <1>5, <1>6, <1>9, <2>1 DEF Spawn
<1>10. CASE NoteProcess(w)
  BY <1>1, <1>2, <1>3, <1>6, <1>10 DEF NoteProcess, RunTypes, Over
<1>11. CASE PlayEnds(w)
  BY <1>1, <1>2, <1>3, <1>6, <1>11 DEF PlayEnds, RunTypes, Over
<1>12. QED
  BY <1>1, <1>2, <1>3, <1>7, <1>8, <1>9, <1>10, <1>11 DEF WorkerNext

LEMMA WorkerStep ==
  ASSUME RunTypes, PlainTypes, ~astray => Steady, NEW w \in 1..started, WorkerNext(w)
  PROVE  RunTypes' /\ PlainTypes' /\ (~astray' => Steady')
<1> DEFINE Outcomes == {"completed", "failed", "finished"}
<1>1. /\ RunTypes' /\ w \in Workers
      /\ UNCHANGED <<chosen, recording, current, started, kind, stopAsked,
                     startOn, stopOn, replayOn, hasAudio, astray>>
      /\ ~Over(w)
      /\ \A v \in Workers : Over(v) => Over(v)'
  BY WorkerRunTypes
<1>2. ASSUME NEW S \in SUBSET SignalNames, NEW n \in Nat, Added(w, S, n),
         step'[w] \in Busy => step[w] \in Busy /\ S \subseteq {"audio"},
         step'[w] = "work" => step[w] = "work",
         ~Over(w)' => "gone" \notin S,
         "gone" \in S => n = 1
      PROVE  PlainTypes' /\ (~astray' => Steady')
  <2>1. PlainTypes'
    BY <1>1, <1>2 DEF PlainTypes, Added
  <2>2. ~astray' => Steady'
    BY <1>1, <1>2, WorkerSteady
  <2>3. QED
    BY <2>1, <2>2
<1>3. /\ Outcomes \in SUBSET SignalNames /\ {"audio"} \in SUBSET SignalNames
      /\ {"gone"} \in SUBSET SignalNames
      /\ "audio" \in SignalNames /\ "gone" \in SignalNames
      /\ "gone" \notin Outcomes /\ "gone" # "audio"
      /\ 0 \in Nat /\ 1 \in Nat /\ 2 \in Nat
  BY DEF SignalNames
<1>4. step \in [Workers -> StepNames]
  BY DEF RunTypes
<1>5. CASE step'[w] = "returned" /\ \E s \in {"completed", "failed"} : Emit(w, <<s, "finished">>)
  <2>1. Added(w, Outcomes, 2)
    BY <1>1, <1>5, AddedTwo
  <2>2. step'[w] \notin Busy /\ step'[w] # "work"
    BY <1>5 DEF Busy
  <2>3. QED
    BY <1>1, <1>2, <1>3, <2>1, <2>2
<1>6. CASE /\ step'[w] \in Busy /\ step[w] \in Busy /\ Emit(w, <<"audio">>)
           /\ step'[w] = "work" => step[w] = "work"
  <2>1. Added(w, {"audio"}, 1)
    BY <1>1, <1>3, <1>6, AddedOne
  <2>2. QED
    BY <1>1, <1>2, <1>3, <1>6, <2>1
<1>7. CASE /\ step'[w] \in Busy /\ step[w] \in Busy /\ inbox' = inbox
           /\ step'[w] = "work" => step[w] = "work"
  <2>1. Added(w, {}, 0)
    BY <1>7, AddedNone
  <2>2. QED
    BY <1>1, <1>2, <1>3, <1>7, <2>1
<1>8. CASE step'[w] = "over" /\ Emit(w, <<"gone">>)
  <2>1. Added(w, {"gone"}, 1)
    BY <1>1, <1>3, <1>8, AddedOne
  <2>2. QED
    BY <1>1, <1>2, <1>3, <1>8, <2>1 DEF Over, Busy
<1> USE DEF Busy
<1>9. CASE Processed(w)
  BY <1>1, <1>4, <1>5, <1>6, <1>9 DEF Processed
<1>10. CASE TurnSaved(w)
  BY <1>1, <1>4, <1>6, <1>10 DEF TurnSaved
<1>11. CASE WorkEnds(w)
  BY <1>1, <1>4, <1>5, <1>7, <1>11 DEF WorkEnds
<1>12. CASE Spawn(w)
  BY <1>1, <1>4, <1>5, <1>7, <1>12, PlayerStopped DEF Spawn
<1>13. CASE NoteProcess(w)
  BY <1>1, <1>4, <1>7, <1>13 DEF NoteProcess
<1>14. CASE PlayEnds(w)
  BY <1>1, <1>4, <1>5, <1>14 DEF PlayEnds
<1>15. CASE ThreadEnds(w)
  BY <1>1, <1>4, <1>8, <1>15 DEF ThreadEnds
<1>16. QED
  BY <1>1, <1>9, <1>10, <1>11, <1>12, <1>13, <1>14, <1>15 DEF WorkerNext

(* The window takes a signal from the queue.                               *)
LEMMA SaidLess ==
  ASSUME PlainTypes, NEW signal, Received(signal), NEW T, Said(T)
  PROVE  Said(T)' /\ signal \in T
BY ReceivedOne DEF Said

LEMMA ReceivedSteady ==
  ASSUME RunTypes, PlainTypes, Steady, NEW signal, Received(signal),
         UNCHANGED <<current, started, step>>
  PROVE  OneWorker' /\ ToldInOrder'
<1>1. current # 0
  BY DEF Received, Steady, OneWorker
<1>2. OneWorker'
  <2>1. \A i \in 1..Len(inbox') : inbox'[i][2] = current'
    BY ReceivedOne DEF Steady, OneWorker
  <2>2. QED
    BY <1>1, <2>1 DEF OneWorker, Steady, Over
<1>3. ToldInOrder'
  <2>1. \A T : Said(T) => Said(T)'
    BY SaidLess
  <2>2. \A i \in 1..Len(inbox') : inbox'[i][1] = "gone" => i = Len(inbox')
    <3>1. \A i \in 1..Len(inbox) : inbox[i][1] = "gone" => i = Len(inbox)
      BY DEF Steady, ToldInOrder
    <3>2. QED
      BY <3>1, ReceivedOne
  <2>3. QED
    BY <2>1, <2>2 DEF ToldInOrder, Steady, Over
<1>4. QED
  BY <1>2, <1>3

ReceiveActs == ReceiveAudioPath \/ ReceiveOutcome \/ ReceiveFinished \/ ReceiveGone

LEMMA ReceiveStep ==
  ASSUME RunTypes, PlainTypes, ~astray => Steady, ReceiveActs
  PROVE  RunTypes' /\ PlainTypes' /\ (~astray' => Steady')
<1> USE DEF signalFrame, buttonVars
<1>1. PICK signal : Received(signal)
  BY DEF ReceiveActs, ReceiveAudioPath, ReceiveOutcome, ReceiveFinished, ReceiveGone
<1>2. inbox' \in Seq(SignalNames \X Workers)
  BY <1>1, ReceivedOne
<1>3. PlainTypes'
  BY <1>2 DEF PlainTypes, Rest, ReceiveActs, ReceiveAudioPath, ReceiveOutcome,
     ReceiveFinished, ReceiveGone
<1>4. /\ UNCHANGED <<chosen, recording, started, kind, step, stopAsked, afplay, astray>>
      /\ current' = current \/ current' = 0
  BY DEF ReceiveActs, ReceiveAudioPath, ReceiveOutcome, ReceiveFinished, ReceiveGone
<1>5. RunTypes'
  <2>1. started \in Nat
    BY WindowAssumption DEF RunTypes
  <2>2. QED
    BY <1>4, <2>1 DEF RunTypes
<1>6. ASSUME ~astray', UNCHANGED <<current, stopOn, replayOn, startOn>>
      PROVE  Steady'
  <2>1. OneWorker' /\ ToldInOrder'
    BY <1>1, <1>4, <1>6, ReceivedSteady
  <2>2. RecordingInv' /\ SessionInv'
    BY <1>4, <1>6 DEF Steady, RecordingInv, SessionInv, Session
  <2>3. QED
    BY <2>1, <2>2 DEF Steady
<1>7. CASE ReceiveAudioPath \/ ReceiveFinished
  BY <1>3, <1>5, <1>6, <1>7 DEF ReceiveAudioPath, ReceiveFinished
<1>8. CASE ReceiveOutcome
  <2>1. ASSUME ~astray'
        PROVE  Steady'
    <3>1. PICK s \in {"completed", "failed"} : Received(s)
      BY <1>8 DEF ReceiveOutcome
    <3>2. Steady /\ UNCHANGED current
      BY <1>4, <1>8, <2>1 DEF ReceiveOutcome
    <3>3. OneWorker' /\ ToldInOrder'
      BY <1>4, <3>1, <3>2, ReceivedSteady
    <3>4. current # 0 /\ step[current] \notin Busy
      <4>1. ~Said({"audio"})
        BY <3>1, SaidLess
      <4>2. inbox # <<>>
        BY <3>1 DEF Received
      <4>3. QED
        BY <3>2, <4>1, <4>2 DEF Steady, OneWorker, ToldInOrder
    <3>5. RecordingInv' /\ SessionInv'
      BY <1>4, <3>2, <3>4 DEF Steady, RecordingInv, SessionInv, Session, Busy
    <3>6. QED
      BY <3>3, <3>5 DEF Steady
  <2>2. QED
    BY <1>3, <1>5, <2>1
<1>9. CASE ReceiveGone
  <2>1. ASSUME ~astray'
        PROVE  Steady'
    <3>1. Received("gone") /\ current' = 0 /\ Steady
      BY <1>4, <1>9, <2>1 DEF ReceiveGone
    <3>2. inbox' = <<>>
      <4>1. 1 = Len(inbox)
        BY <3>1, ReceivedOne DEF Steady, ToldInOrder
      <4>2. Len(inbox') = Len(inbox) - 1
        BY <3>1, ReceivedOne
      <4>3. Len(inbox') = 0
        BY <4>1, <4>2
      <4>4. QED
        BY <1>2, <4>3
    <3>3. ~Said(SignalNames \ {"gone"})
      BY <3>1, SaidLess
    <3>4. current # 0 /\ Over(current)
      <4>1. inbox # <<>>
        BY <3>1 DEF Received
      <4>2. QED
        BY <3>1, <3>3, <4>1 DEF Steady, OneWorker, ToldInOrder
    <3>5. OneWorker' /\ ToldInOrder'
      BY <1>4, <3>1, <3>2, <3>4 DEF Steady, OneWorker, ToldInOrder, Over, Said
    <3>6. RecordingInv' /\ SessionInv'
      BY <1>4, <3>1, <3>4 DEF Steady, RecordingInv, SessionInv
    <3>7. QED
      BY <3>5, <3>6 DEF Steady
  <2>2. QED
    BY <1>3, <1>5, <2>1
<1>10. QED
  BY <1>7, <1>8, <1>9 DEF ReceiveActs

(* The buttons, the current worker, the threads and the signals under way  *)
(* fit together, however late the signals of earlier workers arrive.       *)
THEOREM WindowInvariant == WindowSpec => []WindowInv
<1>1. WindowInit => WindowInv
  <2> SUFFICES ASSUME WindowInit
               PROVE  WindowInv
    OBVIOUS
  <2>1. RunTypes
    <3>1. 0 \in 0..MaxWorkers /\ 0 \in 0..0
      BY WindowAssumption
    <3>2. "none" \in KindNames /\ "off" \in StepNames
      BY DEF KindNames, StepNames
    <3>3. QED
      BY <3>1, <3>2 DEF WindowInit, RunTypes
  <2>2. PlainTypes
    <3>1. <<>> \in Seq(SignalNames \X Workers)
      OBVIOUS
    <3>2. QED
      BY <3>1 DEF WindowInit, PlainTypes
  <2>3. Steady
    BY DEF WindowInit, Steady, OneWorker, ToldInOrder, RecordingInv, SessionInv, Said
  <2>4. QED
    BY <2>1, <2>2, <2>3 DEF WindowInv
<1>2. WindowInv /\ [WindowNext]_windowVars => WindowInv'
  <2> SUFFICES ASSUME WindowInv, [WindowNext]_windowVars
               PROVE  WindowInv'
    OBVIOUS
  <2>1. RunTypes /\ PlainTypes /\ (~astray => Steady)
    BY DEF WindowInv
  <2>2. CASE UserActs
    BY <2>1, <2>2, UserStep, UserPlainTypes DEF WindowInv
  <2>3. CASE ReceiveActs
    BY <2>1, <2>3, ReceiveStep DEF WindowInv
  <2>4. CASE \E w \in 1..started : WorkerNext(w)
    BY <2>1, <2>4, WorkerStep DEF WindowInv
  <2>5. CASE UNCHANGED windowVars
    BY <2>1, <2>5 DEF windowVars, workerVars, buttonVars, WindowInv, RunTypes, PlainTypes,
       Steady, OneWorker, ToldInOrder,
             RecordingInv, SessionInv, Session, Said, Over
  <2>6. QED
    BY <2>2, <2>3, <2>4, <2>5 DEF WindowNext, UserActs, ReceiveActs
<1>3. QED
  BY <1>1, <1>2, PTL DEF WindowSpec

(* Whatever is under way can be stopped, whichever late signals arrive, as *)
(* long as the mode is not changed and no check is run meanwhile.          *)
THEOREM StoppableTheorem == WindowSpec => []RunCanBeStopped
<1>1. WindowInv => RunCanBeStopped
  <2> SUFFICES ASSUME WindowInv, ~astray
               PROVE  /\ recording => stopOn
                      /\ \A w \in 1..started :
                           /\ kind[w] \in {"stream", "meeting"}
                           /\ step[w] = "work" /\ w \notin stopAsked
                           => stopOn /\ current = w
    BY DEF RunCanBeStopped
  <2>1. \A w \in 1..started : step[w] = "work" => w = current /\ current # 0
    BY WindowAssumption DEF WindowInv, RunTypes, Steady, OneWorker, Over
  <2>2. QED
    BY <2>1 DEF WindowInv, Steady, RecordingInv, SessionInv, Session
<1>2. QED
  BY <1>1, WindowInvariant, PTL

===============================================================================
