-------------------------- MODULE MeetingBridgeProofs --------------------------
(***************************************************************************)
(* Theorems about the threads of the desktop client's Meeting Bridge, for  *)
(* any number of daemon threads that stop it.                              *)
(***************************************************************************)
EXTENDS MeetingBridge, FiniteSetTheorems, SequenceTheorems, TLAPS

Outward == "local_to_remote"
Inward == "remote_to_local"

OnlyIn == <<Inward>>
OnlyOut == <<Outward>>

Todo == {<<>>, OnlyIn, OnlyOut, StartOrder, StopOrder}

PlaceTypes ==
  /\ pc \in [Thread -> WorkerPlace \cup LoopPlace]
  /\ pc[Worker] \in WorkerPlace
  /\ \A t \in Loop : pc[t] \in LoopPlace
  /\ \A t \in Stopper : pc[t] \in Idle \cup StopPlace

TourTypes ==
  /\ todo \in [Thread -> Todo]
  /\ opened \in {<<>>, OnlyIn, StartOrder}

DataTypes ==
  /\ counted \in [Thread -> 0..2]
  /\ state \in {"UNCONFIGURED", "READY", "STARTING", "RUNNING", "DEGRADED",
                "STOPPING", "STOPPED", "FAILED"}
  /\ dir \in [Direction -> {"DISCONNECTED", "CONNECTING", "RUNNING",
                            "STOPPING", "STOPPED", "FAILED"}]
  /\ stopping \in [Direction -> BOOLEAN]
  /\ error \in [Direction -> BOOLEAN]
  /\ audio \in [Direction -> BOOLEAN]
  /\ conn \in [Direction -> BOOLEAN]
  /\ asked \in BOOLEAN
  /\ told \in {"nothing", "failed", "completed"}

BridgeTypes == PlaceTypes /\ TourTypes /\ DataTypes

(* start() goes through the directions in its order, and until it has      *)
(* started the last one nothing can have failed twice.                     *)
Starting == {"start", "open", "audio"}

StartTour ==
  /\ pc[Worker] = "start" => opened = <<>>
  /\ state = "READY" => pc[Worker] = "start"
  /\ pc[Worker] \in {"open", "audio"} => todo[Worker] \in {StartOrder, OnlyOut}
  /\ pc[Worker] = "open" => opened = (IF todo[Worker] = StartOrder THEN <<>> ELSE OnlyIn)
  /\ pc[Worker] \in {"unwind", "unwind_joining"} =>
       todo[Worker] \in {StartOrder, OnlyOut, OnlyIn, <<>>}

StartCalm ==
  pc[Worker] \in Starting =>
    /\ dir[Outward] # "FAILED"
    /\ pc[Sender(Outward)] = "unstarted" /\ pc[Receiver(Outward)] = "unstarted"
    /\ \A t \in Loop : pc[t] # "set_failed"
    /\ \A t \in Stopper : pc[t] = "unstarted"

StartInv == StartTour /\ StartCalm

(* stop() leaves behind it what it has closed.                             *)
Closed(d) == ~audio[d] /\ ~conn[d]

Going == {"stopping", "joining", "final_stopping", "final_joining"}

Controllers == {Worker} \cup Stopper

Behind(t) ==
  /\ pc[t] \in Going =>
       /\ todo[t] \in {StopOrder, OnlyIn, <<>>}
       /\ todo[t] # StopOrder => Closed(Outward)
       /\ todo[t] = <<>> => Closed(Inward)
  /\ pc[t] \in {"joining", "final_joining", "unwind_joining"} => todo[t] # <<>>

CloseInv ==
  /\ \A t \in Controllers : Behind(t)
  /\ state = "STOPPED" => pc[Worker] \notin Starting /\ Closed(Inward) /\ Closed(Outward)
  /\ pc[Worker] = "finished" => Closed(Inward) /\ Closed(Outward)

(* What can lead to a stop of the controller is itself warranted.          *)
Warranted == asked \/ \A d \in Direction : error[d]

Final == {"final", "final_stopping", "final_joining", "finished"}

WarrantInv ==
  /\ \A d \in Direction : dir[d] = "FAILED" => error[d]
  /\ \A t \in Loop : pc[t] = "close" => error[t[2]]
  /\ \A t \in {Worker} \cup Loop : pc[t] = "set_failed" => Warranted
  /\ \A t \in Controllers : pc[t] \in StopPlace => Warranted
  /\ state \in {"FAILED", "STOPPED"} /\ pc[Worker] \notin Final => Warranted

MeetingInv == BridgeTypes /\ StartInv /\ CloseInv /\ WarrantInv

(* Threads are told apart by their kind and their direction.               *)
LEMMA ThreadFacts ==
  /\ Worker \in Thread /\ Loop \subseteq Thread /\ Stopper \subseteq Thread
  /\ Thread = {Worker} \cup Loop \cup Stopper
  /\ Worker \notin Loop /\ Worker \notin Stopper /\ Loop \cap Stopper = {}
  /\ \A t \in Loop : t[2] \in Direction
  /\ \A d \in Direction :
       /\ Sender(d) \in Loop /\ Receiver(d) \in Loop
       /\ Sender(d)[2] = d /\ Receiver(d)[2] = d
  /\ \A d, e \in Direction :
       /\ Sender(d) # Receiver(e)
       /\ Sender(d) = Sender(e) => d = e
       /\ Receiver(d) = Receiver(e) => d = e
<1>1. \A t \in Loop : t[1] \in {"send", "recv"} /\ t[2] \in Direction
  BY DEF Loop
<1>2. \A t \in Stopper : t[1] = "stop"
  BY DEF Stopper
<1>3. Worker[1] = "worker"
  BY DEF Worker
<1>4. Worker \notin Loop /\ Worker \notin Stopper /\ Loop \cap Stopper = {}
  BY <1>1, <1>2, <1>3
<1>5. \A d \in Direction :
        /\ Sender(d) \in Loop /\ Receiver(d) \in Loop
        /\ Sender(d)[2] = d /\ Receiver(d)[2] = d
        /\ Sender(d)[1] = "send" /\ Receiver(d)[1] = "recv"
  BY DEF Loop, Sender, Receiver
<1>6. /\ Worker \in Thread /\ Loop \subseteq Thread /\ Stopper \subseteq Thread
      /\ Thread = {Worker} \cup Loop \cup Stopper
  BY DEF Thread
<1>7. \A d, e \in Direction :
        /\ Sender(d) # Receiver(e)
        /\ Sender(d) = Sender(e) => d = e
        /\ Receiver(d) = Receiver(e) => d = e
  BY <1>5
<1>8. QED
  BY <1>1, <1>4, <1>5, <1>6, <1>7

LEMMA LoopOf == \A t \in Loop : t = Sender(t[2]) \/ t = Receiver(t[2])
BY DEF Loop, Sender, Receiver

LEMMA DirectionFacts == Direction = {Inward, Outward} /\ Inward # Outward
BY DEF Direction, Inward, Outward

LEMMA AppendToNoneOrOne ==
  ASSUME NEW a, NEW b
  PROVE  Append(<<>>, a) = <<a>> /\ Append(<<a>>, b) = <<a, b>>
<1> DEFINE longer == Append(<<a>>, b)
           pair == <<a, b>>
<1>1. <<a>> \in Seq({a, b})
  OBVIOUS
<1>2. longer \in Seq({a, b}) /\ Len(longer) = 2 /\ longer[1] = a /\ longer[2] = b
  BY <1>1, AppendProperties
<1>3. pair \in Seq({a, b}) /\ Len(pair) = 2 /\ pair[1] = a /\ pair[2] = b
  OBVIOUS
<1>4. Append(<<>>, a) = <<a>>
  OBVIOUS
<1> HIDE DEF longer, pair
<1>5. \A i \in 1..Len(longer) : longer[i] = pair[i]
  BY <1>2, <1>3
<1>6. longer = pair
  BY <1>2, <1>3, <1>5, SeqEqual
<1>7. QED
  BY <1>4, <1>6 DEF longer, pair

(* What is left of a tour of the directions.                               *)
LEMMA TourFacts ==
  /\ Head(StartOrder) = Inward /\ Tail(StartOrder) = OnlyOut
  /\ Head(StopOrder) = Outward /\ Tail(StopOrder) = OnlyIn
  /\ Head(OnlyIn) = Inward /\ Tail(OnlyIn) = <<>>
  /\ Head(OnlyOut) = Outward /\ Tail(OnlyOut) = <<>>
  /\ StartOrder # <<>> /\ StopOrder # <<>> /\ OnlyIn # <<>> /\ OnlyOut # <<>>
  /\ StartOrder # StopOrder /\ OnlyIn # OnlyOut
  /\ StartOrder # OnlyIn /\ StartOrder # OnlyOut /\ StopOrder # OnlyIn /\ StopOrder # OnlyOut
  /\ Append(<<>>, Inward) = OnlyIn /\ Append(OnlyIn, Outward) = StartOrder
<1> USE DEF StartOrder, StopOrder, Inward, Outward, OnlyIn, OnlyOut
<1>1. Head(StartOrder) = Inward /\ Head(StopOrder) = Outward
  OBVIOUS
<1>2. Tail(StartOrder) = OnlyOut /\ Tail(StopOrder) = OnlyIn
  OBVIOUS
<1>3. Head(OnlyIn) = Inward /\ Tail(OnlyIn) = <<>> /\ Head(OnlyOut) = Outward /\ Tail(OnlyOut) = <<>>
  OBVIOUS
<1>4. StartOrder # <<>> /\ StopOrder # <<>> /\ OnlyIn # <<>> /\ OnlyOut # <<>>
  OBVIOUS
<1>5. StartOrder # StopOrder /\ OnlyIn # OnlyOut
  OBVIOUS
<1>6. StartOrder # OnlyIn /\ StartOrder # OnlyOut /\ StopOrder # OnlyIn /\ StopOrder # OnlyOut
  OBVIOUS
<1>7. Append(<<>>, Inward) = OnlyIn /\ Append(OnlyIn, Outward) = StartOrder
  BY AppendToNoneOrOne
<1> HIDE DEF StartOrder, StopOrder, Inward, Outward, OnlyIn, OnlyOut
<1>8. QED
  BY <1>1, <1>2, <1>3, <1>4, <1>5, <1>6, <1>7

LEMMA CountedDirections ==
  Cardinality(Running) \in 0..2 /\ Cardinality(Failed) \in 0..2 /\
  (Cardinality(Failed) = 2 => \A d \in Direction : dir[d] = "FAILED")
<1>1. IsFiniteSet(Direction) /\ Cardinality(Direction) = 2
  <2>1. IsFiniteSet({Inward}) /\ Cardinality({Inward}) = 1
    BY FS_Singleton
  <2>2. Direction = {Inward} \cup {Outward} /\ Outward \notin {Inward}
    BY DirectionFacts
  <2>3. QED
    BY <2>1, <2>2, FS_AddElement
<1>2. Running \subseteq Direction /\ Failed \subseteq Direction
  BY DEF Running, Failed
<1>3. /\ Cardinality(Running) \in Nat /\ Cardinality(Failed) \in Nat
      /\ Cardinality(Running) <= 2 /\ Cardinality(Failed) <= 2
      /\ (Cardinality(Failed) = 2 => Failed = Direction)
  BY <1>1, <1>2, FS_Subset, FS_CardinalityType
<1>4. QED
  BY <1>3 DEF Failed

LEMMA Updated ==
  ASSUME NEW S, NEW R, NEW f \in [S -> R], NEW x, NEW y \in R, NEW g, g = [f EXCEPT ![x] = y]
  PROVE  g \in [S -> R]
OBVIOUS

(* The places of a thread of each kind. *)
Home(t) ==
  IF t = Worker THEN WorkerPlace ELSE IF t \in Loop THEN LoopPlace ELSE Idle \cup StopPlace

LEMMA Moved ==
  ASSUME PlaceTypes, NEW t \in Thread, NEW place \in Home(t), Goto(t, place)
  PROVE  PlaceTypes'
<1>1. place \in WorkerPlace \cup LoopPlace
  BY DEF Home, WorkerPlace, LoopPlace
<1>2. QED
  BY <1>1, ThreadFacts DEF PlaceTypes, Goto, Home

LEMMA HomeFacts ==
  /\ \A t \in Loop : t \in Thread /\ Home(t) = LoopPlace
  /\ \A t \in Stopper : t \in Thread /\ Home(t) = Idle \cup StopPlace
  /\ \A t \in Thread : Home(t) \subseteq WorkerPlace \cup LoopPlace
  /\ Worker \in Thread /\ Home(Worker) = WorkerPlace
<1>1. \A t \in Loop : t \in Thread /\ Home(t) = LoopPlace
  BY ThreadFacts DEF Home
<1>2. \A t \in Stopper : t \in Thread /\ Home(t) = Idle \cup StopPlace
  BY ThreadFacts DEF Home
<1>3. \A t \in Thread : Home(t) \subseteq WorkerPlace \cup LoopPlace
  BY DEF Home, WorkerPlace, LoopPlace
<1>4. QED
  BY <1>1, <1>2, <1>3, ThreadFacts DEF Home

LEMMA MovedTogether ==
  ASSUME PlaceTypes, pc' \in [Thread -> WorkerPlace \cup LoopPlace],
         \A t \in Thread : pc'[t] = pc[t] \/ pc'[t] \in Home(t)
  PROVE  PlaceTypes'
BY ThreadFacts, HomeFacts DEF PlaceTypes

LEMMA MovedTwo ==
  ASSUME PlaceTypes, NEW a \in Thread, NEW b \in Thread, NEW p \in Home(a), NEW q \in Home(b),
         pc' = [pc EXCEPT ![a] = p, ![b] = q]
  PROVE  PlaceTypes'
<1>1. p \in WorkerPlace \cup LoopPlace /\ q \in WorkerPlace \cup LoopPlace
  BY HomeFacts
<1>2. pc' \in [Thread -> WorkerPlace \cup LoopPlace]
  BY <1>1 DEF PlaceTypes
<1>3. ASSUME NEW t \in Thread
      PROVE  pc'[t] = pc[t] \/ pc'[t] \in Home(t)
  BY <1>3 DEF PlaceTypes
<1>4. QED
  BY <1>2, <1>3, MovedTogether

LEMMA MovedThree ==
  ASSUME PlaceTypes, NEW a \in Thread, NEW b \in Thread, NEW c \in Thread,
         NEW p \in Home(a), NEW q \in Home(b), NEW r \in Home(c),
         pc' = [pc EXCEPT ![a] = p, ![b] = q, ![c] = r]
  PROVE  PlaceTypes'
<1>1. /\ p \in WorkerPlace \cup LoopPlace /\ q \in WorkerPlace \cup LoopPlace
      /\ r \in WorkerPlace \cup LoopPlace
  BY HomeFacts
<1>2. pc' \in [Thread -> WorkerPlace \cup LoopPlace]
  BY <1>1 DEF PlaceTypes
<1>3. ASSUME NEW t \in Thread
      PROVE  pc'[t] = pc[t] \/ pc'[t] \in Home(t)
  BY <1>3 DEF PlaceTypes
<1>4. QED
  BY <1>2, <1>3, MovedTogether

LEMMA DataStep ==
  ASSUME DataTypes, [Next]_vars
  PROVE  DataTypes'
<1> USE DEF DataTypes, sessionVars
<1>1. CASE Start
  BY <1>1 DEF Start
<1>2. CASE OpenGateway
  BY <1>2 DEF OpenGateway, At
<1>3. CASE StartAudio
  BY <1>3 DEF StartAudio
<1>4. CASE Unwound
  BY <1>4 DEF Unwound
<1>5. CASE Count
  BY <1>5, CountedDirections DEF Count
<1>6. CASE Poll
  BY <1>6 DEF Poll
<1>7. CASE Report
  BY <1>7 DEF Report
<1>8. CASE RequestStop
  BY <1>8 DEF RequestStop
<1>9. ASSUME NEW t \in {Worker} \cup Loop, Decide(t)
      PROVE  DataTypes'
  <2>1. /\ counted' = [counted EXCEPT ![t] = 0]
        /\ UNCHANGED <<state, sessionVars, asked, told>>
    BY <1>9 DEF Decide
  <2>2. counted' \in [Thread -> 0..2]
    BY <2>1, 0 \in 0..2, Updated
  <2>3. QED
    BY <2>1, <2>2
<1>10. ASSUME NEW t \in {Worker} \cup Loop, SetState(t)
      PROVE  DataTypes'
  BY <1>10 DEF SetState, AfterRefresh
<1>11. ASSUME NEW t \in Controllers, EnterStop(t)
      PROVE  DataTypes'
  BY <1>11 DEF EnterStop, AfterStop
<1>12. ASSUME NEW t \in Controllers, StopSession(t)
      PROVE  DataTypes'
  BY <1>12 DEF StopSession, Stops, Joining
<1>13. ASSUME NEW t \in Controllers, JoinLoops(t)
      PROVE  DataTypes'
  BY <1>13 DEF JoinLoops, NextStop
<1>14. ASSUME NEW t \in Controllers, LeaveStop(t)
      PROVE  DataTypes'
  BY <1>14 DEF LeaveStop, AfterStop
<1>15. ASSUME NEW t \in Loop, Fail(t)
      PROVE  DataTypes'
  BY <1>15 DEF Fail
<1>16. ASSUME NEW t \in Loop, FailClose(t)
      PROVE  DataTypes'
  BY <1>16, CountedDirections DEF FailClose
<1>17. ASSUME NEW d \in Direction, SenderEnds(d)
      PROVE  DataTypes'
  BY <1>17 DEF SenderEnds
<1>18. ASSUME NEW d \in Direction, SenderBreaks(d)
      PROVE  DataTypes'
  BY <1>18 DEF SenderBreaks
<1>19. ASSUME NEW d \in Direction, ReceiverCompletes(d)
      PROVE  DataTypes'
  BY <1>19 DEF ReceiverCompletes
<1>20. ASSUME NEW d \in Direction, ReceiverBreaks(d)
      PROVE  DataTypes'
  BY <1>20 DEF ReceiverBreaks
<1>21. CASE UNCHANGED vars
  BY <1>21 DEF vars
<1>22. QED
  BY <1>1, <1>2, <1>3, <1>4, <1>5, <1>6, <1>7, <1>8, <1>9, <1>10, <1>11, <1>12, <1>13,
     <1>14, <1>15, <1>16, <1>17, <1>18, <1>19, <1>20, <1>21
     DEF Next, WorkerStep, StopStep, FailStep, RefreshStep, Controllers

LEMMA PlacesStep ==
  ASSUME PlaceTypes, StartInv, [Next]_vars
  PROVE  PlaceTypes'
<1> USE DEF WorkerPlace, LoopPlace, StopPlace, RefreshPlace, Idle, At
<1>1. CASE Start
  <2>1. Goto(Worker, "final") \/ Goto(Worker, "open")
    BY <1>1 DEF Start
  <2>2. QED
    BY <2>1, Moved, HomeFacts
<1>2. CASE OpenGateway
  <2>1. Goto(Worker, "audio") \/ Goto(Worker, "unwind") \/ pc' = pc
    BY <1>2 DEF OpenGateway
  <2>2. QED
    BY <2>1, Moved, HomeFacts DEF PlaceTypes
<1>3. CASE StartAudio
  <2>1. CASE Goto(Worker, "unwind")
    BY <2>1, Moved, HomeFacts
  <2>2. CASE ~Goto(Worker, "unwind")
    <3> DEFINE d == Head(todo[Worker])
               next == IF Tail(todo[Worker]) = <<>> THEN "count" ELSE "audio"
    <3>1. d \in Direction
      BY <1>3, TourFacts, DirectionFacts DEF StartInv, StartTour, StartAudio
    <3>2. pc' = [pc EXCEPT ![Worker] = next, ![Sender(d)] = "loop", ![Receiver(d)] = "loop"]
      BY <1>3, <2>2 DEF StartAudio
    <3>3. Sender(d) \in Loop /\ Receiver(d) \in Loop
      BY <3>1, ThreadFacts
    <3>4. /\ Sender(d) \in Thread /\ "loop" \in Home(Sender(d))
          /\ Receiver(d) \in Thread /\ "loop" \in Home(Receiver(d))
      BY <3>3, HomeFacts
    <3>5. next \in Home(Worker) /\ Worker \in Thread
      BY HomeFacts
    <3> HIDE DEF d, next
    <3>6. QED
      BY <3>2, <3>4, <3>5, MovedThree
  <2>3. QED
    BY <2>1, <2>2
<1>4. CASE Unwound
  <2>1. Goto(Worker, "final")
    BY <1>4 DEF Unwound
  <2>2. QED
    BY <2>1, Moved, HomeFacts
<1>5. CASE Count
  <2>1. Goto(Worker, "decide")
    BY <1>5 DEF Count
  <2>2. QED
    BY <2>1, Moved, HomeFacts
<1>6. CASE Poll
  <2>1. Goto(Worker, "stop")
    BY <1>6 DEF Poll
  <2>2. QED
    BY <2>1, Moved, HomeFacts
<1>7. CASE Report
  <2>1. Goto(Worker, "final")
    BY <1>7 DEF Report
  <2>2. QED
    BY <2>1, Moved, HomeFacts
<1>8. CASE RequestStop
  BY <1>8 DEF RequestStop, PlaceTypes
<1>9. ASSUME NEW t \in {Worker} \cup Loop, Decide(t)
      PROVE  PlaceTypes'
  <2>1. \E place \in {"set_degraded", "set_failed", "set_running", AfterRefresh(t)} : Goto(t, place)
    BY <1>9 DEF Decide, Verdict
  <2>2. QED
    BY <2>1, Moved, HomeFacts DEF AfterRefresh
<1>10. ASSUME NEW t \in {Worker} \cup Loop, SetState(t)
      PROVE  PlaceTypes'
  <2>1. CASE Goto(t, AfterRefresh(t))
    BY <2>1, Moved, HomeFacts DEF AfterRefresh
  <2>2. CASE ~Goto(t, AfterRefresh(t))
    <3>1. PICK k \in Stopper : pc' = [pc EXCEPT ![t] = AfterRefresh(t), ![k] = "stop"]
      BY <1>10, <2>2 DEF SetState, Goto
    <3>2. k \in Thread /\ t \in Thread /\ "stop" \in Home(k) /\ AfterRefresh(t) \in Home(t)
      BY HomeFacts DEF AfterRefresh
    <3>3. QED
      BY <3>1, <3>2, MovedTwo
  <2>3. QED
    BY <2>1, <2>2
<1>11. ASSUME NEW t \in Controllers, EnterStop(t)
      PROVE  PlaceTypes'
  <2>1. t = Worker \/ t \in Stopper
    BY <1>11 DEF Controllers
  <2>2. pc[t] = "final" => t = Worker
    BY <1>11, <2>1, ThreadFacts DEF PlaceTypes
  <2>3. \/ pc[t] = "final" /\ (Goto(t, "finished") \/ Goto(t, "final_stopping"))
        \/ Goto(t, AfterStop(t)) \/ Goto(t, "stopping")
    BY <1>11 DEF EnterStop
  <2>4. QED
    BY <2>1, <2>2, <2>3, Moved, HomeFacts DEF AfterStop
<1>12. ASSUME NEW t \in Controllers, StopSession(t)
      PROVE  PlaceTypes'
  <2>1. t = Worker \/ t \in Stopper
    BY <1>12 DEF Controllers
  <2>2. pc[t] \in {"final_stopping", "unwind"} => t = Worker
    BY <1>12, <2>1, ThreadFacts DEF PlaceTypes
  <2>3. pc[t] \in Stops /\ (pc' = pc \/ Goto(t, Joining(pc[t])))
    BY <1>12 DEF StopSession
  <2>4. QED
    BY <2>1, <2>2, <2>3, Moved, HomeFacts DEF Joining, Stops, PlaceTypes
<1>13. ASSUME NEW t \in Controllers, JoinLoops(t)
      PROVE  PlaceTypes'
  <2>1. t = Worker \/ t \in Stopper
    BY <1>13 DEF Controllers
  <2>2. pc[t] \in {"final_joining", "unwind_joining"} => t = Worker
    BY <1>13, <2>1, ThreadFacts DEF PlaceTypes
  <2>3. Goto(t, NextStop(pc[t])) /\ pc[t] \in {"joining", "final_joining", "unwind_joining"}
    BY <1>13 DEF JoinLoops
  <2>4. QED
    BY <2>1, <2>2, <2>3, Moved, HomeFacts DEF NextStop
<1>14. ASSUME NEW t \in Controllers, LeaveStop(t)
      PROVE  PlaceTypes'
  <2>1. t = Worker \/ t \in Stopper
    BY <1>14 DEF Controllers
  <2>2. pc[t] = "final_stopping" => t = Worker
    BY <1>14, <2>1, ThreadFacts DEF PlaceTypes
  <2>3. Goto(t, AfterStop(t)) \/ (pc[t] = "final_stopping" /\ Goto(t, "finished"))
    <3>1. CASE pc[t] = "stopping"
      BY <1>14, <3>1 DEF LeaveStop
    <3>2. CASE pc[t] # "stopping"
      BY <1>14, <3>2 DEF LeaveStop
    <3>3. QED
      BY <3>1, <3>2
  <2>4. QED
    BY <2>1, <2>2, <2>3, Moved, HomeFacts DEF AfterStop
<1>15. ASSUME NEW t \in Loop, Fail(t)
      PROVE  PlaceTypes'
  <2>1. Goto(t, "close")
    BY <1>15 DEF Fail
  <2>2. QED
    BY <2>1, Moved, HomeFacts
<1>16. ASSUME NEW t \in Loop, FailClose(t)
      PROVE  PlaceTypes'
  <2>1. Goto(t, "decide")
    BY <1>16 DEF FailClose
  <2>2. QED
    BY <2>1, Moved, HomeFacts
<1>17. ASSUME NEW d \in Direction, SenderEnds(d)
      PROVE  PlaceTypes'
  <2> DEFINE place == "done"
  <2>1. Sender(d) \in Thread /\ Home(Sender(d)) = LoopPlace
    BY ThreadFacts, HomeFacts
  <2>2. Goto(Sender(d), place)
    BY <1>17 DEF SenderEnds
  <2>3. place \in Home(Sender(d))
    BY <2>1
  <2>4. QED
    BY <2>1, <2>2, <2>3, Moved
<1>18. ASSUME NEW d \in Direction, SenderBreaks(d)
      PROVE  PlaceTypes'
  <2> DEFINE place == "fail"
  <2>1. Sender(d) \in Thread /\ Home(Sender(d)) = LoopPlace
    BY ThreadFacts, HomeFacts
  <2>2. Goto(Sender(d), place)
    BY <1>18 DEF SenderBreaks
  <2>3. place \in Home(Sender(d))
    BY <2>1
  <2>4. QED
    BY <2>1, <2>2, <2>3, Moved
<1>19. ASSUME NEW d \in Direction, ReceiverCompletes(d)
      PROVE  PlaceTypes'
  <2> DEFINE place == "done"
  <2>1. Receiver(d) \in Thread /\ Home(Receiver(d)) = LoopPlace
    BY ThreadFacts, HomeFacts
  <2>2. Goto(Receiver(d), place)
    BY <1>19 DEF ReceiverCompletes
  <2>3. place \in Home(Receiver(d))
    BY <2>1
  <2>4. QED
    BY <2>1, <2>2, <2>3, Moved
<1>20. ASSUME NEW d \in Direction, ReceiverBreaks(d)
      PROVE  PlaceTypes'
  <2> DEFINE place == IF stopping[d] THEN "done" ELSE "fail"
  <2>1. Receiver(d) \in Thread /\ Home(Receiver(d)) = LoopPlace
    BY ThreadFacts, HomeFacts
  <2>2. Goto(Receiver(d), place)
    BY <1>20 DEF ReceiverBreaks
  <2>3. place \in Home(Receiver(d))
    BY <2>1
  <2>4. QED
    BY <2>1, <2>2, <2>3, Moved
<1>21. CASE UNCHANGED vars
  BY <1>21 DEF vars, PlaceTypes
<1>22. QED
  BY <1>1, <1>2, <1>3, <1>4, <1>5, <1>6, <1>7, <1>8, <1>9, <1>10, <1>11, <1>12, <1>13,
     <1>14, <1>15, <1>16, <1>17, <1>18, <1>19, <1>20, <1>21
     DEF Next, WorkerStep, StopStep, FailStep, RefreshStep, Controllers

LEMMA TourStep ==
  ASSUME PlaceTypes, TourTypes, StartInv, CloseInv, [Next]_vars
  PROVE  TourTypes'
<1>1. CASE Start
  BY <1>1, TourFacts DEF Start, TourTypes, Todo
<1>2. CASE OpenGateway
  BY <1>2, TourFacts, DirectionFacts, HomeFacts DEF OpenGateway, TourTypes, StartInv,
     StartTour, Todo, At
<1>3. CASE StartAudio
  <2>1. Tail(todo[Worker]) \in Todo /\ opened \in Todo
    BY <1>3, TourFacts, DirectionFacts DEF StartAudio, TourTypes, StartInv, StartTour, Todo, At
  <2>2. QED
    BY <1>3, <2>1 DEF StartAudio, TourTypes
<1>4. ASSUME NEW t \in Controllers, EnterStop(t)
      PROVE  TourTypes'
  BY <1>4 DEF EnterStop, TourTypes, Todo
<1>5. ASSUME NEW t \in Controllers, StopSession(t)
      PROVE  TourTypes'
  <2>1. todo[t] \in Todo
    BY HomeFacts DEF TourTypes, Controllers
  <2>2. todo[t] # <<>> => Tail(todo[t]) \in Todo
    BY <2>1, TourFacts, DirectionFacts DEF Todo
  <2>3. QED
    BY <1>5, <2>2 DEF StopSession, TourTypes
<1>6. ASSUME NEW t \in Controllers, JoinLoops(t)
      PROVE  TourTypes'
  <2>1. todo[t] \in Todo
    BY HomeFacts DEF TourTypes, Controllers
  <2>2. Tail(todo[t]) \in Todo
    BY <1>6, <2>1, TourFacts, DirectionFacts DEF Todo, JoinLoops, CloseInv, Behind
  <2>3. QED
    BY <1>6, <2>2 DEF JoinLoops, TourTypes
<1>7. CASE UNCHANGED <<todo, opened>>
  BY <1>7 DEF TourTypes
<1>8. QED
  BY <1>1, <1>2, <1>3, <1>4, <1>5, <1>6, <1>7
     DEF Next, WorkerStep, StopStep, FailStep, RefreshStep, Controllers, vars, Unwound, Count, Poll,
         Report, Decide, SetState, LeaveStop, RequestStop, Fail, FailClose, SenderEnds, SenderBreaks,
         ReceiverCompletes, ReceiverBreaks

LEMMA StartTourStep ==
  ASSUME PlaceTypes, TourTypes, DataTypes, StartInv, [Next]_vars
  PROVE  StartTour'
<1> USE DEF StartInv, StartTour, StartCalm, Starting, At, Goto, sessionVars, PlaceTypes, TourTypes
<1>1. CASE Start
  BY <1>1, ThreadFacts DEF Start
<1>2. CASE OpenGateway
  <2>1. PICK d \in Direction : d = Head(todo[Worker]) /\ (d = Inward => Tail(todo[Worker]) = OnlyOut)
                                                /\ (d = Outward => Tail(todo[Worker]) = <<>>)
    BY <1>2, TourFacts, DirectionFacts DEF OpenGateway
  <2>2. CASE Goto(Worker, "unwind")
    BY <1>2, <2>2, TourFacts, ThreadFacts DEF OpenGateway
  <2>3. CASE ~Goto(Worker, "unwind")
    BY <1>2, <2>1, <2>3, TourFacts, DirectionFacts, ThreadFacts DEF OpenGateway
  <2>4. QED
    BY <2>2, <2>3
<1>3. CASE StartAudio
  <2>1. PICK d \in Direction : d = Head(todo[Worker]) /\ (d = Inward => Tail(todo[Worker]) = OnlyOut)
                                                /\ (d = Outward => Tail(todo[Worker]) = <<>>)
    BY <1>3, TourFacts, DirectionFacts DEF StartAudio
  <2>2. CASE Goto(Worker, "unwind")
    BY <1>3, <2>2, TourFacts, ThreadFacts DEF StartAudio
  <2>3. CASE ~Goto(Worker, "unwind")
    <3> DEFINE next == IF Tail(todo[Worker]) = <<>> THEN "count" ELSE "audio"
    <3>1. /\ pc' = [pc EXCEPT ![Worker] = next, ![Sender(d)] = "loop", ![Receiver(d)] = "loop"]
          /\ todo' = [todo EXCEPT ![Worker] = Tail(todo[Worker])]
          /\ UNCHANGED <<opened, state>> /\ dir' = [dir EXCEPT ![d] = "RUNNING"] 
      BY <1>3, <2>1, <2>3 DEF StartAudio
    <3>2. pc'[Worker] = next /\ todo'[Worker] = Tail(todo[Worker])
      BY <3>1, ThreadFacts
    <3>3. QED
      BY <1>3, <2>1, <3>1, <3>2, TourFacts, DirectionFacts, ThreadFacts DEF StartAudio
  <2>4. QED
    BY <2>2, <2>3
<1>4. CASE Unwound
  BY <1>4, ThreadFacts DEF Unwound
<1>5. CASE Count
  BY <1>5, ThreadFacts DEF Count
<1>6. CASE Poll
  BY <1>6, ThreadFacts DEF Poll
<1>7. CASE Report
  BY <1>7, ThreadFacts DEF Report
<1>8. CASE RequestStop
  BY <1>8, ThreadFacts DEF RequestStop
<1>9. ASSUME NEW t \in {Worker} \cup Loop, Decide(t)
      PROVE  StartTour'
  BY <1>9, ThreadFacts DEF Decide, AfterRefresh, Verdict
<1>10. ASSUME NEW t \in {Worker} \cup Loop, SetState(t)
      PROVE  StartTour'
  BY <1>10, ThreadFacts DEF SetState, AfterRefresh
<1>11. ASSUME NEW t \in Controllers, EnterStop(t)
      PROVE  StartTour'
  BY <1>11, ThreadFacts DEF EnterStop, AfterStop
<1>12. ASSUME NEW t \in Controllers, StopSession(t)
      PROVE  StartTour'
  <2>1. CASE t = Worker
    <3>1. todo[Worker] \in Todo /\ (todo[Worker] # <<>> => Tail(todo[Worker]) \in {<<>>, OnlyIn, OnlyOut})
      BY ThreadFacts, TourFacts, DirectionFacts DEF Todo
    <3>2. /\ pc[Worker] \in Stops
          /\ pc'[Worker] \in {"unwind", "unwind_joining"} => pc[Worker] \in {"unwind", "unwind_joining"}
          /\ pc'[Worker] \notin {"start", "open", "audio"}
          /\ todo'[Worker] = todo[Worker] \/ (todo[Worker] # <<>> /\ todo'[Worker] = Tail(todo[Worker]))
          /\ state' = state
      BY <1>12, <2>1, ThreadFacts DEF StopSession, Stops, Joining, Todo
    <3>3. QED
      BY <3>1, <3>2 DEF Stops
  <2>2. CASE t \in Stopper
    BY <1>12, <2>2, ThreadFacts DEF StopSession, Stops, Joining
  <2>3. QED
    BY <2>1, <2>2 DEF Controllers
<1>13. ASSUME NEW t \in Controllers, JoinLoops(t)
      PROVE  StartTour'
  <2>1. CASE t = Worker
    <3>1. todo[Worker] \in Todo /\ (todo[Worker] # <<>> => Tail(todo[Worker]) \in {<<>>, OnlyIn, OnlyOut})
      BY ThreadFacts, TourFacts, DirectionFacts DEF Todo
    <3>2. /\ pc[Worker] \in {"joining", "final_joining", "unwind_joining"}
          /\ pc'[Worker] \in {"unwind", "unwind_joining"} => pc[Worker] \in {"unwind", "unwind_joining"}
          /\ pc'[Worker] \notin {"start", "open", "audio"}
          /\ todo'[Worker] = todo[Worker] \/ (todo[Worker] # <<>> /\ todo'[Worker] = Tail(todo[Worker]))
          /\ state' = state
      BY <1>13, <2>1, ThreadFacts DEF JoinLoops, NextStop, Todo
    <3>3. QED
      BY <3>1, <3>2 DEF Stops
  <2>2. CASE t \in Stopper
    BY <1>13, <2>2, ThreadFacts DEF JoinLoops, NextStop
  <2>3. QED
    BY <2>1, <2>2 DEF Controllers
<1>14. ASSUME NEW t \in Controllers, LeaveStop(t)
      PROVE  StartTour'
  BY <1>14, ThreadFacts DEF LeaveStop, AfterStop
<1>15. ASSUME NEW t \in Loop, Fail(t)
      PROVE  StartTour'
  BY <1>15, ThreadFacts DEF Fail
<1>16. ASSUME NEW t \in Loop, FailClose(t)
      PROVE  StartTour'
  BY <1>16, ThreadFacts DEF FailClose
<1>17. ASSUME NEW d \in Direction, SenderEnds(d)
      PROVE  StartTour'
  BY <1>17, ThreadFacts DEF SenderEnds
<1>18. ASSUME NEW d \in Direction, SenderBreaks(d)
      PROVE  StartTour'
  BY <1>18, ThreadFacts DEF SenderBreaks
<1>19. ASSUME NEW d \in Direction, ReceiverCompletes(d)
      PROVE  StartTour'
  BY <1>19, ThreadFacts DEF ReceiverCompletes
<1>20. ASSUME NEW d \in Direction, ReceiverBreaks(d)
      PROVE  StartTour'
  BY <1>20, ThreadFacts DEF ReceiverBreaks
<1>21. CASE UNCHANGED vars
  BY <1>21 DEF vars
<1>22. QED
  BY <1>1, <1>2, <1>3, <1>4, <1>5, <1>6, <1>7, <1>8, <1>9, <1>10, <1>11, <1>12, <1>13,
     <1>14, <1>15, <1>16, <1>17, <1>18, <1>19, <1>20, <1>21
     DEF Next, WorkerStep, StopStep, FailStep, RefreshStep, Controllers

LEMMA StartCalmStep ==
  ASSUME PlaceTypes, TourTypes, DataTypes, StartInv, [Next]_vars
  PROVE  StartCalm'
<1> USE DEF StartInv, StartTour, StartCalm, Starting, At, Goto, sessionVars, PlaceTypes,
            TourTypes, DataTypes
<1>1. CASE Start
  BY <1>1, ThreadFacts, DirectionFacts DEF Start
<1>2. CASE OpenGateway
  BY <1>2, ThreadFacts, DirectionFacts, TourFacts DEF OpenGateway
<1>3. CASE StartAudio
  <2>1. PICK d \in Direction : d = Head(todo[Worker]) /\ (d = Inward => Tail(todo[Worker]) = OnlyOut)
                                                /\ (d = Outward => Tail(todo[Worker]) = <<>>)
    BY <1>3, TourFacts, DirectionFacts DEF StartAudio
  <2>2. CASE Goto(Worker, "unwind")
    BY <1>3, <2>2, TourFacts, ThreadFacts DEF StartAudio
  <2>3. CASE ~Goto(Worker, "unwind")
    <3> DEFINE next == IF Tail(todo[Worker]) = <<>> THEN "count" ELSE "audio"
    <3>1. /\ pc' = [pc EXCEPT ![Worker] = next, ![Sender(d)] = "loop", ![Receiver(d)] = "loop"]
          /\ todo' = [todo EXCEPT ![Worker] = Tail(todo[Worker])]
          /\ UNCHANGED <<opened, state>> /\ dir' = [dir EXCEPT ![d] = "RUNNING"] 
      BY <1>3, <2>1, <2>3 DEF StartAudio
    <3>2. pc'[Worker] = next /\ todo'[Worker] = Tail(todo[Worker])
      BY <3>1, ThreadFacts
    <3>3. CASE next = "count"
      BY <3>2, <3>3
    <3>4. CASE next # "count"
      <4>1. d = Inward /\ Sender(d) # Sender(Outward) /\ Receiver(d) # Receiver(Outward)
        BY <2>1, <3>4, TourFacts, DirectionFacts, ThreadFacts
      <4>2. /\ dir'[Outward] = dir[Outward]
            /\ pc'[Sender(Outward)] = pc[Sender(Outward)] /\ pc'[Receiver(Outward)] = pc[Receiver(Outward)]
        BY <3>1, <4>1, ThreadFacts, DirectionFacts
      <4>3. \A t \in Loop : pc'[t] = pc[t] \/ pc'[t] = "loop"
        BY <3>1, ThreadFacts
      <4>4. \A t \in Stopper : pc'[t] = pc[t]
        BY <3>1, ThreadFacts
      <4>5. pc[Worker] = "audio"
        BY <1>3 DEF StartAudio
      <4>6. QED
        BY <4>2, <4>3, <4>4, <4>5
    <3>5. QED
      BY <3>3, <3>4
  <2>4. QED
    BY <2>2, <2>3
<1>4. CASE Unwound
  BY <1>4, ThreadFacts, DirectionFacts DEF Unwound
<1>5. CASE Count
  BY <1>5, ThreadFacts, DirectionFacts DEF Count
<1>6. CASE Poll
  BY <1>6, ThreadFacts, DirectionFacts DEF Poll
<1>7. CASE Report
  BY <1>7, ThreadFacts, DirectionFacts DEF Report
<1>8. CASE RequestStop
  BY <1>8, ThreadFacts, DirectionFacts DEF RequestStop
<1>9. ASSUME NEW t \in {Worker} \cup Loop, Decide(t)
      PROVE  StartCalm'
  BY <1>9, ThreadFacts, DirectionFacts, CountedDirections DEF Decide, AfterRefresh, Verdict
<1>10. ASSUME NEW t \in {Worker} \cup Loop, SetState(t)
      PROVE  StartCalm'
  BY <1>10, ThreadFacts, DirectionFacts DEF SetState, AfterRefresh
<1>11. ASSUME NEW t \in Controllers, EnterStop(t)
      PROVE  StartCalm'
  BY <1>11, ThreadFacts, DirectionFacts DEF EnterStop, AfterStop
<1>12. ASSUME NEW t \in Controllers, StopSession(t)
      PROVE  StartCalm'
  BY <1>12, ThreadFacts, DirectionFacts DEF StopSession, Stops, Joining
<1>13. ASSUME NEW t \in Controllers, JoinLoops(t)
      PROVE  StartCalm'
  BY <1>13, ThreadFacts, DirectionFacts DEF JoinLoops, NextStop
<1>14. ASSUME NEW t \in Controllers, LeaveStop(t)
      PROVE  StartCalm'
  BY <1>14, ThreadFacts, DirectionFacts DEF LeaveStop, AfterStop
<1>15. ASSUME NEW t \in Loop, Fail(t)
      PROVE  StartCalm'
  BY <1>15, ThreadFacts, DirectionFacts, LoopOf DEF Fail
<1>16. ASSUME NEW t \in Loop, FailClose(t)
      PROVE  StartCalm'
  BY <1>16, ThreadFacts, DirectionFacts DEF FailClose
<1>17. ASSUME NEW d \in Direction, SenderEnds(d)
      PROVE  StartCalm'
  BY <1>17, ThreadFacts, DirectionFacts DEF SenderEnds
<1>18. ASSUME NEW d \in Direction, SenderBreaks(d)
      PROVE  StartCalm'
  BY <1>18, ThreadFacts, DirectionFacts DEF SenderBreaks
<1>19. ASSUME NEW d \in Direction, ReceiverCompletes(d)
      PROVE  StartCalm'
  BY <1>19, ThreadFacts, DirectionFacts DEF ReceiverCompletes
<1>20. ASSUME NEW d \in Direction, ReceiverBreaks(d)
      PROVE  StartCalm'
  BY <1>20, ThreadFacts, DirectionFacts DEF ReceiverBreaks
<1>21. CASE UNCHANGED vars
  BY <1>21 DEF vars
<1>22. QED
  BY <1>1, <1>2, <1>3, <1>4, <1>5, <1>6, <1>7, <1>8, <1>9, <1>10, <1>11, <1>12, <1>13,
     <1>14, <1>15, <1>16, <1>17, <1>18, <1>19, <1>20, <1>21
     DEF Next, WorkerStep, StopStep, FailStep, RefreshStep, Controllers

(* What a stop still has to do, as long as it has something to do.         *)
LEMMA StopTour ==
  ASSUME CloseInv, NEW t \in Controllers, todo[t] # <<>>
  PROVE  pc[t] \in Going =>
           \/ todo[t] = StopOrder /\ Head(todo[t]) = Outward /\ Tail(todo[t]) = OnlyIn
           \/ todo[t] = OnlyIn /\ Head(todo[t]) = Inward /\ Tail(todo[t]) = <<>>
BY TourFacts DEF CloseInv, Behind

LEMMA CloseInvStep ==
  ASSUME PlaceTypes, TourTypes, DataTypes, StartInv, CloseInv, [Next]_vars
  PROVE  CloseInv'
<1>0. \A t \in Controllers : todo[t] # <<>> /\ pc[t] \in Going =>
        \/ todo[t] = StopOrder /\ Head(todo[t]) = Outward /\ Tail(todo[t]) = OnlyIn
        \/ todo[t] = OnlyIn /\ Head(todo[t]) = Inward /\ Tail(todo[t]) = <<>>
  BY StopTour
<1> USE DEF CloseInv, Behind, StartInv, StartTour, StartCalm, Starting, Closed, Going,
            Controllers, At, Goto, sessionVars, PlaceTypes, DataTypes, TourTypes
<1>1. CASE Start
  BY <1>1, ThreadFacts, DirectionFacts DEF Start
<1>2. CASE OpenGateway
  BY <1>2, ThreadFacts, DirectionFacts DEF OpenGateway
<1>3. CASE StartAudio
  BY <1>3, ThreadFacts, DirectionFacts DEF StartAudio
<1>4. CASE Unwound
  BY <1>4, ThreadFacts, DirectionFacts DEF Unwound
<1>5. CASE Count
  BY <1>5, ThreadFacts, DirectionFacts DEF Count
<1>6. CASE Poll
  BY <1>6, ThreadFacts, DirectionFacts DEF Poll
<1>7. CASE Report
  BY <1>7, ThreadFacts, DirectionFacts DEF Report
<1>8. CASE RequestStop
  BY <1>8, ThreadFacts, DirectionFacts DEF RequestStop
<1>9. ASSUME NEW t \in {Worker} \cup Loop, Decide(t)
      PROVE  CloseInv'
  BY <1>9, ThreadFacts, DirectionFacts DEF Decide, AfterRefresh, Verdict
<1>10. ASSUME NEW t \in {Worker} \cup Loop, SetState(t)
      PROVE  CloseInv'
  BY <1>10, ThreadFacts, DirectionFacts DEF SetState, AfterRefresh
<1>11. ASSUME NEW t \in Controllers, EnterStop(t)
      PROVE  CloseInv'
  <2>1. /\ \A k \in Controllers : k # t => pc'[k] = pc[k] /\ todo'[k] = todo[k]
        /\ UNCHANGED <<audio, conn>> /\ t \in Thread /\ pc[t] \in {"stop", "final"}
    BY <1>11, ThreadFacts DEF EnterStop
  <2>2. pc[Worker] \notin Starting /\ state # "READY"
    BY <2>1, ThreadFacts
  <2>3. CASE state = "STOPPED"
    BY <1>11, <2>1, <2>2, <2>3 DEF EnterStop, AfterStop
  <2>4. CASE state # "STOPPED"
    <3>1. /\ pc'[t] \in {"stopping", "final_stopping"} /\ todo'[t] = StopOrder
          /\ state' = "STOPPING"
      BY <1>11, <2>1, <2>2, <2>4 DEF EnterStop
    <3>2. Behind(t)'
      BY <3>1, TourFacts
    <3>3. \A k \in Controllers : Behind(k)'
      BY <2>1, <3>2
    <3>4. pc'[Worker] = "finished" => pc[Worker] = "finished"
      BY <2>1, <3>1, ThreadFacts
    <3>5. QED
      BY <2>1, <3>1, <3>3, <3>4
  <2>5. QED
    BY <2>3, <2>4
<1>12. ASSUME NEW t \in Controllers, StopSession(t)
      PROVE  CloseInv'
  <2>1. \A d \in Direction : Closed(d) => Closed(d)'
    BY <1>12 DEF StopSession, Stops, Joining
  <2>2. \A k \in Controllers : k # t => pc'[k] = pc[k] /\ todo'[k] = todo[k]
    BY <1>12, ThreadFacts DEF StopSession, Stops, Joining
  <2>3. Behind(t)'
    <3>1. t \in Thread /\ todo[t] # <<>>
      BY <1>12, ThreadFacts DEF StopSession, Stops, Joining
    <3>2. pc[t] \in Going =>
            \/ todo[t] = StopOrder /\ Head(todo[t]) = Outward /\ Tail(todo[t]) = OnlyIn
            \/ todo[t] = OnlyIn /\ Head(todo[t]) = Inward /\ Tail(todo[t]) = <<>>
      BY <3>1, <1>0
    <3>3. CASE pc' = pc
      <4>1. todo' = [todo EXCEPT ![t] = Tail(todo[t])]
        BY <1>12, <3>3 DEF StopSession, Joining, Stops
      <4>2. ~audio'[Head(todo[t])] /\ ~conn'[Head(todo[t])]
        <5>1. Head(todo[t]) \in Direction
          BY <3>1, TourFacts, DirectionFacts DEF Todo
        <5>2. QED
          BY <1>12, <3>1, <3>3, <5>1 DEF StopSession, Joining, Stops
      <4>3. todo'[t] = Tail(todo[t])
        BY <3>1, <4>1
      <4>4. QED
        BY <1>12, <2>1, <3>2, <3>3, <4>2, <4>3, TourFacts, DirectionFacts DEF StopSession, Stops
    <3>4. CASE pc' # pc
      <4>1. todo' = todo /\ pc'[t] = Joining(pc[t]) /\ pc[t] \in Stops
        BY <1>12, <3>1, <3>4 DEF StopSession
      <4>2. QED
        BY <2>1, <3>1, <3>2, <4>1, DirectionFacts DEF Stops, Joining
    <3>5. QED
      BY <3>3, <3>4
  <2>4. /\ state' = state
        /\ pc'[Worker] = "finished" => pc[Worker] = "finished"
        /\ pc'[Worker] \in Starting => pc[Worker] \in Starting
    BY <1>12, ThreadFacts DEF StopSession, Stops, Joining
  <2>5. QED
    BY <2>1, <2>2, <2>3, <2>4, ThreadFacts, DirectionFacts
<1>13. ASSUME NEW t \in Controllers, JoinLoops(t)
      PROVE  CloseInv'
  <2>1. \A d \in Direction : Closed(d) => Closed(d)'
    BY <1>13 DEF JoinLoops, NextStop
  <2>2. \A k \in Controllers : k # t => pc'[k] = pc[k] /\ todo'[k] = todo[k]
    BY <1>13, ThreadFacts DEF JoinLoops, NextStop
  <2>3. Behind(t)'
    <3>1. t \in Thread /\ todo[t] # <<>>
      BY <1>13, ThreadFacts DEF JoinLoops, NextStop
    <3>2. pc[t] \in Going =>
            \/ todo[t] = StopOrder /\ Head(todo[t]) = Outward /\ Tail(todo[t]) = OnlyIn
            \/ todo[t] = OnlyIn /\ Head(todo[t]) = Inward /\ Tail(todo[t]) = <<>>
      BY <3>1, <1>0
    <3>3. /\ todo'[t] = Tail(todo[t]) /\ pc'[t] = NextStop(pc[t])
          /\ pc[t] \in {"joining", "final_joining", "unwind_joining"}
      BY <1>13, <3>1 DEF JoinLoops
    <3>4. ~audio'[Head(todo[t])] /\ ~conn'[Head(todo[t])]
      <4>1. Head(todo[t]) \in Direction
        BY <3>1, TourFacts, DirectionFacts DEF Todo
      <4>2. QED
        BY <1>13, <4>1 DEF JoinLoops
    <3>5. QED
      BY <2>1, <3>2, <3>3, <3>4, TourFacts, DirectionFacts DEF NextStop
  <2>4. /\ state' = state
        /\ pc'[Worker] = "finished" => pc[Worker] = "finished"
        /\ pc'[Worker] \in Starting => pc[Worker] \in Starting
    BY <1>13, ThreadFacts DEF JoinLoops, NextStop
  <2>5. QED
    BY <2>1, <2>2, <2>3, <2>4, ThreadFacts, DirectionFacts
<1>14. ASSUME NEW t \in Controllers, LeaveStop(t)
      PROVE  CloseInv'
  <2>1. /\ \A k \in Controllers : k # t => pc'[k] = pc[k]
        /\ UNCHANGED <<audio, conn, todo>> /\ t \in Thread
        /\ pc[t] \in {"stopping", "final_stopping"} /\ todo[t] = <<>>
        /\ state' = "STOPPED" /\ pc'[t] \in {"report", "done", "finished"}
    BY <1>14, ThreadFacts DEF LeaveStop, AfterStop
  <2>2. Closed(Inward) /\ Closed(Outward)
    BY <2>1, TourFacts
  <2>3. pc[Worker] \notin Starting
    BY <2>1, ThreadFacts
  <2>4. pc'[Worker] \notin Starting
    BY <2>1, <2>3
  <2>5. \A k \in Controllers : Behind(k)'
    BY <2>1
  <2>6. QED
    BY <2>1, <2>2, <2>4, <2>5
<1>15. ASSUME NEW t \in Loop, Fail(t)
      PROVE  CloseInv'
  BY <1>15, ThreadFacts, DirectionFacts DEF Fail
<1>16. ASSUME NEW t \in Loop, FailClose(t)
      PROVE  CloseInv'
  BY <1>16, ThreadFacts, DirectionFacts DEF FailClose
<1>17. ASSUME NEW d \in Direction, SenderEnds(d)
      PROVE  CloseInv'
  BY <1>17, ThreadFacts, DirectionFacts DEF SenderEnds
<1>18. ASSUME NEW d \in Direction, SenderBreaks(d)
      PROVE  CloseInv'
  BY <1>18, ThreadFacts, DirectionFacts DEF SenderBreaks
<1>19. ASSUME NEW d \in Direction, ReceiverCompletes(d)
      PROVE  CloseInv'
  BY <1>19, ThreadFacts, DirectionFacts DEF ReceiverCompletes
<1>20. ASSUME NEW d \in Direction, ReceiverBreaks(d)
      PROVE  CloseInv'
  BY <1>20, ThreadFacts, DirectionFacts DEF ReceiverBreaks
<1>21. CASE UNCHANGED vars
  BY <1>21 DEF vars
<1>22. QED
  BY <1>1, <1>2, <1>3, <1>4, <1>5, <1>6, <1>7, <1>8, <1>9, <1>10, <1>11, <1>12, <1>13,
     <1>14, <1>15, <1>16, <1>17, <1>18, <1>19, <1>20, <1>21
     DEF Next, WorkerStep, StopStep, FailStep, RefreshStep, Controllers

LEMMA WarrantInvStep ==
  ASSUME PlaceTypes, TourTypes, DataTypes, StartInv, WarrantInv, [Next]_vars
  PROVE  WarrantInv'
<1> USE DEF WarrantInv, Warranted, Final, StopPlace, Controllers, At, Goto, sessionVars,
            PlaceTypes, DataTypes
<1>1. CASE Start
  BY <1>1, ThreadFacts, DirectionFacts DEF Start
<1>2. CASE OpenGateway
  BY <1>2, ThreadFacts, DirectionFacts DEF OpenGateway
<1>3. CASE StartAudio
  BY <1>3, ThreadFacts, DirectionFacts DEF StartAudio
<1>4. CASE Unwound
  BY <1>4, ThreadFacts, DirectionFacts DEF Unwound
<1>5. CASE Count
  BY <1>5, ThreadFacts, DirectionFacts DEF Count
<1>6. CASE Poll
  BY <1>6, ThreadFacts, DirectionFacts DEF Poll
<1>7. CASE Report
  BY <1>7, ThreadFacts, DirectionFacts DEF Report
<1>8. CASE RequestStop
  BY <1>8, ThreadFacts, DirectionFacts DEF RequestStop
<1>9. ASSUME NEW t \in {Worker} \cup Loop, Decide(t)
      PROVE  WarrantInv'
  BY <1>9, ThreadFacts, DirectionFacts, CountedDirections DEF Decide, AfterRefresh, Verdict
<1>10. ASSUME NEW t \in {Worker} \cup Loop, SetState(t)
      PROVE  WarrantInv'
  BY <1>10, ThreadFacts, DirectionFacts DEF SetState, AfterRefresh
<1>11. ASSUME NEW t \in Controllers, EnterStop(t)
      PROVE  WarrantInv'
  <2>1. /\ \A k \in Thread : k # t => pc'[k] = pc[k]
        /\ UNCHANGED <<asked, error, dir>> /\ t \in Thread
    BY <1>11, ThreadFacts DEF EnterStop
  <2>2. t \notin Loop
    BY ThreadFacts
  <2>3. CASE pc[t] = "stop"
    <3>1. Warranted
      BY <2>3
    <3>2. Warranted'
      BY <2>1, <3>1
    <3>3. pc'[t] \notin {"set_failed", "close"}
      BY <1>11, <2>1, <2>3 DEF EnterStop, AfterStop
    <3>4. QED
      BY <2>1, <2>2, <3>2, <3>3, ThreadFacts
  <2>4. CASE pc[t] # "stop"
    <3>1. t = Worker /\ pc'[t] \in Final
      BY <1>11, <2>1, <2>4, ThreadFacts DEF EnterStop, Idle
    <3>2. QED
      BY <2>1, <3>1, ThreadFacts
  <2>5. QED
    BY <2>3, <2>4
<1>12. ASSUME NEW t \in Controllers, StopSession(t)
      PROVE  WarrantInv'
  BY <1>12, ThreadFacts, DirectionFacts DEF StopSession, Stops, Joining
<1>13. ASSUME NEW t \in Controllers, JoinLoops(t)
      PROVE  WarrantInv'
  BY <1>13, ThreadFacts, DirectionFacts DEF JoinLoops, NextStop
<1>14. ASSUME NEW t \in Controllers, LeaveStop(t)
      PROVE  WarrantInv'
  <2>1. /\ \A k \in Thread : k # t => pc'[k] = pc[k]
        /\ UNCHANGED <<asked, error, dir>> /\ t \in Thread
    BY <1>14, ThreadFacts DEF LeaveStop
  <2>2. t \notin Loop
    BY ThreadFacts
  <2>3. CASE pc[t] = "stopping"
    <3>1. Warranted
      BY <2>3
    <3>2. Warranted'
      BY <2>1, <3>1
    <3>3. pc'[t] \notin {"set_failed", "close"}
      BY <1>14, <2>1, <2>3 DEF LeaveStop, AfterStop
    <3>4. QED
      BY <2>1, <2>2, <3>2, <3>3, ThreadFacts
  <2>4. CASE pc[t] # "stopping"
    <3>1. t = Worker /\ pc'[t] \in Final
      BY <1>14, <2>1, <2>4, ThreadFacts DEF LeaveStop, Idle
    <3>2. QED
      BY <2>1, <3>1, ThreadFacts
  <2>5. QED
    BY <2>3, <2>4
<1>15. ASSUME NEW t \in Loop, Fail(t)
      PROVE  WarrantInv'
  BY <1>15, ThreadFacts, DirectionFacts DEF Fail
<1>16. ASSUME NEW t \in Loop, FailClose(t)
      PROVE  WarrantInv'
  BY <1>16, ThreadFacts, DirectionFacts DEF FailClose
<1>17. ASSUME NEW d \in Direction, SenderEnds(d)
      PROVE  WarrantInv'
  BY <1>17, ThreadFacts, DirectionFacts DEF SenderEnds
<1>18. ASSUME NEW d \in Direction, SenderBreaks(d)
      PROVE  WarrantInv'
  BY <1>18, ThreadFacts, DirectionFacts DEF SenderBreaks
<1>19. ASSUME NEW d \in Direction, ReceiverCompletes(d)
      PROVE  WarrantInv'
  BY <1>19, ThreadFacts, DirectionFacts DEF ReceiverCompletes
<1>20. ASSUME NEW d \in Direction, ReceiverBreaks(d)
      PROVE  WarrantInv'
  BY <1>20, ThreadFacts, DirectionFacts DEF ReceiverBreaks
<1>21. CASE UNCHANGED vars
  BY <1>21 DEF vars
<1>22. QED
  BY <1>1, <1>2, <1>3, <1>4, <1>5, <1>6, <1>7, <1>8, <1>9, <1>10, <1>11, <1>12, <1>13,
     <1>14, <1>15, <1>16, <1>17, <1>18, <1>19, <1>20, <1>21
     DEF Next, WorkerStep, StopStep, FailStep, RefreshStep, Controllers

LEMMA MeetingInvStep ==
  ASSUME MeetingInv, [Next]_vars
  PROVE  MeetingInv'
<1>1. PlaceTypes /\ TourTypes /\ DataTypes /\ StartInv /\ CloseInv /\ WarrantInv
  BY DEF MeetingInv, BridgeTypes
<1>2. PlaceTypes' /\ TourTypes' /\ DataTypes'
  BY <1>1, PlacesStep, TourStep, DataStep
<1>3. StartInv'
  BY <1>1, StartTourStep, StartCalmStep DEF StartInv
<1>4. CloseInv' /\ WarrantInv'
  BY <1>1, CloseInvStep, WarrantInvStep
<1>5. QED
  BY <1>2, <1>3, <1>4 DEF MeetingInv, BridgeTypes

LEMMA MeetingInvInit == Init => MeetingInv
<1> SUFFICES ASSUME Init
             PROVE  MeetingInv
  OBVIOUS
<1>1. \A t \in Thread : pc[t] = (IF t = Worker THEN "start" ELSE "unstarted") /\ todo[t] = <<>>
  BY DEF Init
<1>2. pc[Worker] = "start" /\ \A t \in Loop \cup Stopper : pc[t] = "unstarted"
  BY <1>1, ThreadFacts
<1>3. PlaceTypes
  BY <1>2, ThreadFacts DEF Init, PlaceTypes, WorkerPlace, LoopPlace, Idle
<1>4. TourTypes /\ DataTypes
  <2>1. TourTypes
    BY DEF Init, TourTypes, Todo
  <2>2. counted \in [Thread -> 0..2]
    BY DEF Init
  <2>3. QED
    BY <2>1, <2>2 DEF Init, DataTypes
<1>5. StartTour
  BY <1>2 DEF Init, StartTour
<1>6. StartCalm
  BY <1>2, ThreadFacts, DirectionFacts DEF Init, StartCalm
<1>7. CloseInv
  BY <1>2 DEF Init, CloseInv, Behind, Controllers, Going
<1>8. WarrantInv
  BY <1>2 DEF Init, WarrantInv, Controllers, StopPlace, Final
<1>9. QED
  BY <1>3, <1>4, <1>5, <1>6, <1>7, <1>8 DEF MeetingInv, BridgeTypes, StartInv

(* The inductive invariant: the places of the threads and what they carry, *)
(* what is behind a tour of the directions, and what a stop is warranted   *)
(* by.                                                                     *)
THEOREM MeetingInvariant == Spec => []MeetingInv
<1>1. Init => MeetingInv
  BY MeetingInvInit
<1>2. MeetingInv /\ [Next]_vars => MeetingInv'
  BY MeetingInvStep
<1>3. QED
  BY <1>1, <1>2, PTL DEF Spec

LEMMA PrefixesOfTwo ==
  ASSUME NEW a, NEW b
  PROVE  /\ SubSeq(<<a, b>>, 1, 0) = <<>>
         /\ SubSeq(<<a, b>>, 1, 1) = <<a>>
         /\ SubSeq(<<a, b>>, 1, 2) = <<a, b>>
<1> DEFINE pair == <<a, b>>
           one == <<a>>
<1>1. pair \in Seq({a, b}) /\ Len(pair) = 2 /\ pair[1] = a
  OBVIOUS
<1>2. one \in Seq({a, b}) /\ Len(one) = 1 /\ one[1] = a
  OBVIOUS
<1> HIDE DEF pair, one
<1>3. SubSeq(pair, 1, 0) = <<>>
  BY SubSeqEmpty
<1>4. SubSeq(pair, 1, 2) = pair
  BY <1>1, SubSeqFull
<1>5. SubSeq(pair, 1, 1) = one
  <2>1. \A i \in 1..1 : pair[i] \in {a, b}
    BY <1>1
  <2>2. /\ SubSeq(pair, 1, 1) \in Seq({a, b})
        /\ Len(SubSeq(pair, 1, 1)) = 1
        /\ SubSeq(pair, 1, 1)[1] = pair[1]
    BY <2>1, SubSeqProperties
  <2>3. QED
    BY <1>1, <1>2, <2>2, SeqEqual
<1>6. QED
  BY <1>3, <1>4, <1>5 DEF pair, one

(* Every thread is at a place of its kind, and what it carries has its     *)
(* type, however many daemons stop the bridge.                             *)
THEOREM TypesTheorem == Spec => []TypeOK
<1>1. /\ SubSeq(StartOrder, 1, 0) = <<>> /\ SubSeq(StartOrder, 1, 1) = OnlyIn
      /\ SubSeq(StartOrder, 1, 2) = StartOrder
  BY PrefixesOfTwo DEF StartOrder, OnlyIn, Inward
<1>2. MeetingInv => TypeOK
  <2> SUFFICES ASSUME MeetingInv
               PROVE  TypeOK
    OBVIOUS
  <2>1. opened \in {SubSeq(StartOrder, 1, k) : k \in 0..2}
    <3>1. opened = <<>> \/ opened = OnlyIn \/ opened = StartOrder
      BY DEF MeetingInv, BridgeTypes, TourTypes
    <3>2. 0 \in 0..2 /\ 1 \in 0..2 /\ 2 \in 0..2
      OBVIOUS
    <3>3. QED
      BY <1>1, <3>1, <3>2
  <2>2. \A t \in Thread : todo[t] \in {<<>>} \cup {<<d>> : d \in Direction} \cup {StartOrder, StopOrder}
    BY DirectionFacts DEF MeetingInv, BridgeTypes, TourTypes, Todo, OnlyIn, OnlyOut
  <2>3. QED
    BY <2>1, <2>2 DEF TypeOK, MeetingInv, BridgeTypes, PlaceTypes, DataTypes
<1>3. QED
  BY <1>2, MeetingInvariant, PTL

(* A worker that is finished leaves both directions without devices and    *)
(* connections, whichever of the threads stopped or failed them.           *)
THEOREM FinishedIsClosedTheorem == Spec => []FinishedIsClosed
<1>1. MeetingInv => FinishedIsClosed
  BY DirectionFacts DEF MeetingInv, CloseInv, Closed, FinishedIsClosed, At
<1>2. QED
  BY <1>1, MeetingInvariant, PTL

(* stop() is under way only if the user asked for it or both directions    *)
(* have failed, although _refresh_state counts them without a lock.        *)
THEOREM StopIsWarrantedTheorem == Spec => []StopIsWarranted
<1>1. MeetingInv => StopIsWarranted
  BY DEF MeetingInv, WarrantInv, Controllers, StopIsWarranted, StopUnderWay, Warranted
<1>2. QED
  BY <1>1, MeetingInvariant, PTL

(* No step of any thread closes the devices of a direction that has not    *)
(* failed, unless the thread is stopping that very direction.              *)
LEMMA IsolationStep ==
  ASSUME MeetingInv, [Next]_vars, NEW d \in Direction, audio[d], ~audio'[d]
  PROVE  error[d] \/ \E t \in Thread : StopsNow(t, d)
<1>1. DataTypes /\ WarrantInv /\ CloseInv
  BY DEF MeetingInv, BridgeTypes
<1>2. CASE \E t \in Loop : FailClose(t)
  <2>1. PICK t \in Loop : FailClose(t)
    BY <1>2
  <2>2. t[2] = d
    BY <1>1, <2>1 DEF FailClose, DataTypes
  <2>3. QED
    BY <1>1, <2>1, <2>2 DEF FailClose, WarrantInv, At
<1>3. CASE \E t \in Controllers : StopSession(t)
  <2>1. PICK t \in Controllers : StopSession(t)
    BY <1>3
  <2>2. todo[t] # <<>> /\ Head(todo[t]) = d
    BY <1>1, <2>1 DEF StopSession, DataTypes
  <2>3. QED
    BY <2>2, ThreadFacts DEF Controllers, StopsNow
<1>4. CASE \E t \in Controllers : JoinLoops(t)
  <2>1. PICK t \in Controllers : JoinLoops(t)
    BY <1>4
  <2>2. Head(todo[t]) = d
    BY <1>1, <2>1 DEF JoinLoops, DataTypes
  <2>3. todo[t] # <<>>
    BY <1>1, <2>1 DEF JoinLoops, CloseInv, Behind
  <2>4. QED
    BY <2>2, <2>3, ThreadFacts DEF Controllers, StopsNow
<1>5. CASE UNCHANGED audio
  BY <1>5
<1>6. CASE StartAudio
  BY <1>1, <1>6 DEF StartAudio, DataTypes
<1>7. \/ UNCHANGED audio \/ StartAudio \/ \E t \in Loop : FailClose(t)
      \/ \E t \in Controllers : StopSession(t) \/ JoinLoops(t)
  <2> USE DEF sessionVars
  <2>1. CASE UNCHANGED vars
    BY <2>1 DEF vars
  <2>2. CASE WorkerStep
    BY <2>2 DEF WorkerStep, RefreshStep, StopStep, Controllers, Start, OpenGateway, Unwound,
                Count, Poll, Report, Decide, SetState, EnterStop, LeaveStop
  <2>3. CASE \E t \in Loop : FailStep(t)
    BY <2>3 DEF FailStep, RefreshStep, Fail, Decide, SetState
  <2>4. CASE \E e \in Direction :
               SenderEnds(e) \/ SenderBreaks(e) \/ ReceiverCompletes(e) \/ ReceiverBreaks(e)
    BY <2>4 DEF SenderEnds, SenderBreaks, ReceiverCompletes, ReceiverBreaks
  <2>5. CASE \E t \in Stopper : StopStep(t)
    BY <2>5 DEF StopStep, Controllers, EnterStop, LeaveStop
  <2>6. CASE RequestStop
    BY <2>6 DEF RequestStop
  <2>7. QED
    BY <2>1, <2>2, <2>3, <2>4, <2>5, <2>6 DEF Next
<1>8. QED
  BY <1>2, <1>3, <1>4, <1>5, <1>6, <1>7

(* The failure of one direction is not felt by the other: it keeps its     *)
(* devices until it fails itself or a thread stops it.                     *)
THEOREM DirectionsAreIsolatedTheorem == Spec => DirectionsAreIsolated
<1>1. MeetingInv /\ [Next]_vars =>
        \A d \in Direction :
          audio[d] /\ ~audio'[d] => error[d] \/ \E t \in Thread : StopsNow(t, d)
  BY IsolationStep
<1>2. QED
  BY <1>1, MeetingInvariant, PTL DEF Spec, DirectionsAreIsolated

===============================================================================
