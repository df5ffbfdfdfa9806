----------------------- MODULE LiveTranslateStreamProofs -----------------------
(***************************************************************************)
(* Theorems about the queues of a LiveTranslate session, for queues of any *)
(* size and any number of chunks and events.                               *)
(***************************************************************************)
EXTENDS LiveTranslateStream, SequenceTheorems, TLAPS

-------------------------------------------------------------------------------
(* Types.                                                                  *)

StreamTypes ==
  /\ StreamTypeOK
  /\ sender = "send" => sending \in Chunk
  /\ forward = "handle" => handling \in Event

LEMMA QueueAppend ==
  ASSUME NEW S, NEW q \in Seq(S), Len(q) < QueueSize, NEW e \in S
  PROVE  /\ Append(q, e) \in Seq(S)
         /\ Len(Append(q, e)) <= QueueSize
  BY StreamAssumption

LEMMA QueuePop ==
  ASSUME NEW S, NEW q \in Seq(S), Len(q) <= QueueSize, q # <<>>
  PROVE  /\ Head(q) \in S
         /\ Tail(q) \in Seq(S)
         /\ Len(Tail(q)) < QueueSize
<1>1. Len(q) \in Nat /\ Len(q) # 0 /\ Len(Tail(q)) = Len(q) - 1
  BY HeadTailProperties, EmptySeq
<1>2. QED
  BY <1>1, StreamAssumption, HeadTailProperties

\* The exception takes the place of the oldest event if it must.
LEMMA FailureFits ==
  ASSUME StreamTypes, QueueFailure
  PROVE  eventQueue' \in Seq(Event \cup {Finished, Failure}) /\ Len(eventQueue') <= QueueSize
<1>1. eventQueue \in Seq(Event \cup {Finished, Failure}) /\ Len(eventQueue) <= QueueSize
  BY DEF StreamTypes, StreamTypeOK
<1>2. CASE Len(eventQueue) < QueueSize
  BY <1>1, <1>2, QueueAppend DEF QueueFailure
<1>3. CASE ~(Len(eventQueue) < QueueSize)
  <2>1. eventQueue # <<>>
    BY <1>1, <1>3, StreamAssumption
  <2>2. Tail(eventQueue) \in Seq(Event \cup {Finished, Failure}) /\ Len(Tail(eventQueue)) < QueueSize
    BY <1>1, <2>1, QueuePop
  <2>3. QED
    BY <1>3, <2>2, QueueAppend DEF QueueFailure
<1>4. QED
  BY <1>2, <1>3

LEMMA EventFits ==
  ASSUME StreamTypes, NEW e \in Event \cup {Finished}, QueueEvent(e)
  PROVE  /\ eventQueue' \in Seq(Event \cup {Finished, Failure}) /\ Len(eventQueue') <= QueueSize
         /\ receiver' \in {"running", "ended"}
<1>1. eventQueue \in Seq(Event \cup {Finished, Failure}) /\ receiver \in {"running", "ended"}
  BY DEF StreamTypes, StreamTypeOK
<1>2. CASE Len(eventQueue) < QueueSize
  BY <1>1, <1>2, QueueAppend DEF QueueEvent
<1>3. CASE ~(Len(eventQueue) < QueueSize)
  BY <1>3, FailureFits DEF QueueEvent
<1>4. QED
  BY <1>2, <1>3

(* The queues are bounded because asyncio.Queue refuses or waits.          *)
LEMMA StreamTypesInvariant == StreamSpec => []StreamTypes
<1>1. StreamInit => StreamTypes
  <2>1. \A S : <<>> \in Seq(S) /\ Len(<<>>) <= QueueSize
    BY StreamAssumption
  <2>2. 0 \in 0..MaxChunks /\ 0 \in 0..MaxEvents
    BY StreamAssumption
  <2>3. QED
    BY <2>1, <2>2 DEF StreamInit, StreamTypes, StreamTypeOK
<1>2. StreamTypes /\ [StreamNext]_streamVars => StreamTypes'
  <2> SUFFICES ASSUME StreamTypes, [StreamNext]_streamVars
               PROVE  StreamTypes'
    OBVIOUS
  <2> USE DEF StreamTypes, StreamTypeOK, clientVars, senderVars, receiverVars, forwardVars, runVars
  <2>1. CASE ClientAudio
    <3>1. CASE Len(audioQueue) < QueueSize
      <4>1. accepted' \in 0..MaxChunks /\ accepted + 1 \in Chunk
        BY <2>1, <3>1, StreamAssumption DEF ClientAudio, Chunk
      <4>2. audioQueue' \in Seq(Chunk \cup {End}) /\ Len(audioQueue') <= QueueSize
        <5>1. audioQueue \in Seq(Chunk \cup {End}) /\ accepted + 1 \in Chunk \cup {End}
          BY <4>1
        <5>2. audioQueue' = Append(audioQueue, accepted + 1)
          BY <2>1, <3>1 DEF ClientAudio
        <5>3. QED
          BY <3>1, <5>1, <5>2, QueueAppend
      <4>3. QED
        BY <2>1, <3>1, <4>1, <4>2 DEF ClientAudio
    <3>2. CASE ~(Len(audioQueue) < QueueSize)
      BY <2>1, <3>2 DEF ClientAudio
    <3>3. QED
      BY <3>1, <3>2
  <2>2. CASE ClientEnds
    BY <2>2 DEF ClientEnds
  <2>3. CASE SenderGet
    <3>1. /\ Head(audioQueue) \in Chunk \cup {End}
          /\ audioQueue' \in Seq(Chunk \cup {End}) /\ Len(audioQueue') <= QueueSize
      <4>1. audioQueue # <<>> /\ audioQueue' = Tail(audioQueue)
        BY <2>3 DEF SenderGet
      <4>2. Len(Tail(audioQueue)) < QueueSize /\ Head(audioQueue) \in Chunk \cup {End}
            /\ Tail(audioQueue) \in Seq(Chunk \cup {End})
        BY <4>1, QueuePop
      <4>3. QED
        BY <4>1, <4>2, StreamAssumption
    <3>2. QED
      <4>1. CASE Head(audioQueue) = End
        BY <2>3, <3>1, <4>1 DEF SenderGet
      <4>2. CASE Head(audioQueue) # End
        <5>1. sender' = "send" /\ sending' = Head(audioQueue) /\ sending' \in Chunk
          BY <2>3, <3>1, <4>2 DEF SenderGet
        <5>2. QED
          BY <2>3, <3>1, <5>1 DEF SenderGet
      <4>3. QED
        BY <4>1, <4>2
  <2>4. CASE SenderSent
    <3>1. sent' \in Seq(Chunk)
      <4>1. sent \in Seq(Chunk) /\ sending \in Chunk
        BY <2>4 DEF SenderSent
      <4>2. Append(sent, sending) \in Seq(Chunk)
        BY <4>1
      <4>3. QED
        BY <2>4, <4>1, <4>2 DEF SenderSent
    <3>2. QED
      BY <2>4, <3>1 DEF SenderSent
  <2>5. CASE ReceiverEvent
    <3>1. emitted' \in 0..MaxEvents /\ emitted + 1 \in Event
      BY <2>5, StreamAssumption DEF ReceiverEvent, Event
    <3>2. /\ eventQueue' \in Seq(Event \cup {Finished, Failure}) /\ Len(eventQueue') <= QueueSize
          /\ receiver' \in {"running", "ended"}
      BY <2>5, <3>1, EventFits DEF ReceiverEvent
    <3>3. QED
      BY <2>5, <3>1, <3>2 DEF ReceiverEvent
  <2>6. CASE ReceiverFinished
    <3>1. /\ eventQueue' \in Seq(Event \cup {Finished, Failure}) /\ Len(eventQueue') <= QueueSize
          /\ receiver' \in {"running", "ended"}
      BY <2>6, EventFits DEF ReceiverFinished
    <3>2. QED
      BY <2>6, <3>1 DEF ReceiverFinished
  <2>7. CASE ReceiverInvalid
    <3>1. eventQueue' \in Seq(Event \cup {Finished, Failure}) /\ Len(eventQueue') <= QueueSize
      BY <2>7, FailureFits DEF ReceiverInvalid
    <3>2. QED
      BY <2>7, <3>1 DEF ReceiverInvalid
  <2>8. CASE LineBreaks
    BY <2>8 DEF LineBreaks
  <2>9. CASE ForwardGet
    <3>1. /\ Head(eventQueue) \in Event \cup {Finished, Failure}
          /\ eventQueue' \in Seq(Event \cup {Finished, Failure}) /\ Len(eventQueue') <= QueueSize
      <4>1. eventQueue # <<>> /\ eventQueue' = Tail(eventQueue)
        BY <2>9 DEF ForwardGet
      <4>2. /\ Len(Tail(eventQueue)) < QueueSize
            /\ Head(eventQueue) \in Event \cup {Finished, Failure}
            /\ Tail(eventQueue) \in Seq(Event \cup {Finished, Failure})
        BY <4>1, QueuePop
      <4>3. QED
        BY <4>1, <4>2, StreamAssumption
    <3>2. QED
      <4>1. CASE Head(eventQueue) \in {Failure, Finished}
        <5>1. forward' \in {"raised", "returned"} /\ handling' = handling
          BY <2>9, <4>1 DEF ForwardGet
        <5>2. QED
          BY <2>9, <3>1, <5>1 DEF ForwardGet
      <4>2. CASE Head(eventQueue) \notin {Failure, Finished}
        <5>1. forward' = "handle" /\ handling' \in Event
          BY <2>9, <3>1, <4>2 DEF ForwardGet
        <5>2. QED
          BY <2>9, <3>1, <5>1 DEF ForwardGet
      <4>3. QED
        BY <4>1, <4>2
  <2>10. CASE ForwardHandled
    <3>1. forwarded' \in Seq(Event)
      <4>1. forwarded \in Seq(Event) /\ handling \in Event
        BY <2>10 DEF ForwardHandled
      <4>2. Append(forwarded, handling) \in Seq(Event)
        BY <4>1
      <4>3. QED
        BY <2>10, <4>1, <4>2 DEF ForwardHandled
    <3>2. QED
      BY <2>10, <3>1 DEF ForwardHandled
  <2>11. CASE RunWakes
    BY <2>11 DEF RunWakes, Conclude
  <2>12. CASE FinishPut
    <3>1. audioQueue' \in Seq(Chunk \cup {End}) /\ Len(audioQueue') <= QueueSize
      BY <2>12, QueueAppend DEF FinishPut
    <3>2. QED
      BY <2>12, <3>1 DEF FinishPut
  <2>13. CASE FinishJoin \/ FinishSend \/ FinishWait
    BY <2>13 DEF FinishJoin, FinishSend, FinishWait, Conclude
  <2>14. CASE Report
    BY <2>14 DEF Report
  <2>15. CASE Cancel
    <3>1. Len(<<>>) <= QueueSize
      BY StreamAssumption
    <3>2. QED
      BY <2>15, <3>1 DEF Cancel
  <2>16. CASE UNCHANGED streamVars
    BY <2>16 DEF streamVars
  <2>17. QED
    BY <2>1, <2>2, <2>3, <2>4, <2>5, <2>6, <2>7, <2>8, <2>9, <2>10, <2>11, <2>12, <2>13, <2>14,
       <2>15, <2>16 DEF StreamNext, Internal, External, ReceiverDisconnected
<1>3. QED
  BY <1>1, <1>2, PTL DEF StreamSpec

(* Every variable keeps its type, and neither queue outgrows its bound.    *)
THEOREM TypeTheorem == StreamSpec => []StreamTypeOK
<1>1. StreamTypes => StreamTypeOK
  BY DEF StreamTypes
<1>2. QED
  BY <1>1, StreamTypesInvariant, PTL

-------------------------------------------------------------------------------
(* The events.                                                             *)

(* What ends the receiver is the last thing in the queue, and once the     *)
(* regular end was taken from it nothing follows.                          *)
EndIsLast ==
  /\ \A k \in 1..Len(eventQueue) :
       eventQueue[k] \in {Finished, Failure} => k = Len(eventQueue) /\ receiver = "ended"
  /\ forward = "returned" => receiver = "ended" /\ eventQueue = <<>>

(* Events taken from the queue.                                            *)
Place == Len(forwarded) + (IF forward = "handle" THEN 1 ELSE 0)

EventsInOrder ==
  /\ \A k \in 1..Len(forwarded) : forwarded[k] = k
  /\ forward = "handle" => handling = Len(forwarded) + 1
  /\ \A k \in 1..Len(eventQueue) : eventQueue[k] \in {Place + k, Finished}
  /\ receiver = "running" => Place + Len(eventQueue) = emitted
  /\ receiver = "ended" /\ forward # "returned" =>
       Place + Len(eventQueue) = emitted + 1 /\ eventQueue[Len(eventQueue)] = Finished
  /\ forward = "returned" => Len(forwarded) = emitted

NoFailure ==
  forward # "raised" /\ \A k \in 1..Len(eventQueue) : eventQueue[k] # Failure

(* A failure is a gap in the events: from then on nothing is promised but  *)
(* that it is delivered.                                                   *)
EventInv ==
  /\ EndIsDelivered
  /\ EndIsLast
  /\ run # "closed" /\ NoFailure => EventsInOrder
  /\ outcome = "completed" =>
       /\ forward = "returned" /\ receiver = "ended"
       /\ Len(forwarded) = emitted /\ \A k \in 1..emitted : forwarded[k] = k

LEMMA FailureQueued ==
  ASSUME StreamTypes, QueueFailure
  PROVE  /\ Len(eventQueue') \in Nat \ {0} /\ eventQueue'[Len(eventQueue')] = Failure
         /\ \A k \in 1..(Len(eventQueue') - 1) : \E j \in 1..Len(eventQueue) : eventQueue'[k] = eventQueue[j]
<1> DEFINE S == Event \cup {Finished, Failure}
<1>1. eventQueue \in Seq(S)
  BY DEF StreamTypes, StreamTypeOK
<1>2. CASE Len(eventQueue) < QueueSize
  BY <1>1, <1>2 DEF QueueFailure
<1>3. CASE ~(Len(eventQueue) < QueueSize)
  <2>1. eventQueue # <<>> /\ Len(eventQueue) \in Nat \ {0}
    BY <1>1, <1>3, StreamAssumption
  <2>2. /\ Tail(eventQueue) \in Seq(S) /\ Len(Tail(eventQueue)) = Len(eventQueue) - 1
        /\ \A k \in 1..(Len(eventQueue) - 1) : Tail(eventQueue)[k] = eventQueue[k + 1]
    BY <1>1, <2>1, HeadTailProperties
  <2>3. eventQueue' = Append(Tail(eventQueue), Failure)
    BY <1>3 DEF QueueFailure
  <2> HIDE DEF S
  <2>4. /\ Len(eventQueue') = Len(eventQueue)
        /\ eventQueue'[Len(eventQueue)] = Failure
        /\ \A k \in 1..(Len(eventQueue) - 1) : eventQueue'[k] = eventQueue[k + 1]
    BY <2>1, <2>2, <2>3
  <2>5. QED
    BY <2>1, <2>4
<1>4. QED
  BY <1>2, <1>3

LEMMA FailureStep ==
  ASSUME StreamTypes, EventInv, receiver = "running", receiver' = "ended", QueueFailure,
         UNCHANGED forwardVars, UNCHANGED <<run, outcome>>
  PROVE  EventInv'
<1>1. /\ Len(eventQueue') \in Nat \ {0} /\ eventQueue'[Len(eventQueue')] = Failure
      /\ \A k \in 1..(Len(eventQueue') - 1) : \E j \in 1..Len(eventQueue) : eventQueue'[k] = eventQueue[j]
  BY FailureQueued
<1>2. EndIsDelivered'
  BY <1>1 DEF EndIsDelivered
<1>3. EndIsLast'
  <2>1. \A j \in 1..Len(eventQueue) : eventQueue[j] \notin {Finished, Failure}
    BY DEF EventInv, EndIsLast
  <2>2. forward' # "returned"
    BY DEF EventInv, EndIsLast, forwardVars
  <2>3. ASSUME NEW k \in 1..Len(eventQueue'), k # Len(eventQueue')
        PROVE  eventQueue'[k] \notin {Finished, Failure}
    <3>1. k \in 1..(Len(eventQueue') - 1)
      BY <1>1, <2>3
    <3>2. QED
      BY <1>1, <2>1, <3>1
  <2>4. QED
    BY <2>2, <2>3 DEF EndIsLast
<1>4. ~NoFailure'
  BY <1>1 DEF NoFailure
<1>5. outcome' # "completed"
  BY DEF EventInv
<1>6. QED
  BY <1>2, <1>3, <1>4, <1>5 DEF EventInv

LEMMA ArrivalStep ==
  ASSUME StreamTypes, EventInv, receiver = "running", NEW e \in {emitted + 1, Finished},
         Len(eventQueue) < QueueSize,
         eventQueue' = Append(eventQueue, e),
         receiver' = IF e = Finished THEN "ended" ELSE receiver,
         emitted' = IF e = Finished THEN emitted ELSE emitted + 1,
         UNCHANGED forwardVars, UNCHANGED <<run, outcome>>
  PROVE  EventInv'
<1>1. /\ eventQueue \in Seq(Event \cup {Finished, Failure})
      /\ emitted \in Nat /\ Finished = -1 /\ Failure = -2 /\ Len(eventQueue) \in Nat
      /\ Len(forwarded) \in Nat
  BY StreamAssumption DEF StreamTypes, StreamTypeOK, Finished, Failure
<1>2. /\ Len(eventQueue') = Len(eventQueue) + 1
      /\ eventQueue'[Len(eventQueue')] = e
      /\ \A k \in 1..Len(eventQueue) : eventQueue'[k] = eventQueue[k]
      /\ \A k \in 1..Len(eventQueue') : k = Len(eventQueue') \/ k \in 1..Len(eventQueue)
  BY <1>1
<1>3. \A k \in 1..Len(eventQueue) : eventQueue[k] \notin {Finished, Failure}
  BY DEF EventInv, EndIsLast
<1>4. forward # "returned" /\ outcome # "completed"
  BY DEF EventInv, EndIsLast
<1>5. /\ forward' = forward /\ handling' = handling /\ forwarded' = forwarded
      /\ Place' = Place /\ Place \in Nat
  BY <1>1 DEF forwardVars, Place
<1>6. e = Finished \/ (e = emitted + 1 /\ e \notin {Finished, Failure})
  BY <1>1
<1>7. EndIsDelivered'
  <2>1. receiver' = "ended" => e = Finished
    OBVIOUS
  <2>2. eventQueue' # <<>>
    BY <1>1, <1>2
  <2>3. QED
    BY <1>2, <2>1, <2>2 DEF EndIsDelivered
<1>8. EndIsLast'
  <2>1. ASSUME NEW k \in 1..Len(eventQueue'), eventQueue'[k] \in {Finished, Failure}
        PROVE  k = Len(eventQueue') /\ receiver' = "ended"
    <3>1. k = Len(eventQueue')
      BY <1>2, <1>3, <2>1
    <3>2. e = Finished
      BY <1>2, <1>6, <2>1, <3>1
    <3>3. QED
      BY <3>1, <3>2
  <2>2. QED
    BY <1>4, <1>5, <2>1 DEF EndIsLast
<1>9. ASSUME run' # "closed", NoFailure'
      PROVE  EventsInOrder'
  <2>1. NoFailure
    BY <1>3, <1>5, <1>9 DEF NoFailure
  <2>2. EventsInOrder
    BY <1>9, <2>1 DEF EventInv
  <2>3. Place + Len(eventQueue) = emitted
    BY <2>2 DEF EventsInOrder
  <2>4. \A k \in 1..Len(eventQueue) : eventQueue'[k] = Place + k
    BY <1>2, <1>3, <2>2 DEF EventsInOrder
  <2>5. \A k \in 1..Len(eventQueue') : eventQueue'[k] \in {Place + k, Finished}
    <3>1. e \in {Place + Len(eventQueue'), Finished}
      BY <1>1, <1>2, <1>5, <1>6, <2>3
    <3>2. QED
      BY <1>2, <2>4, <3>1
  <2>6. receiver' = "running" => Place + Len(eventQueue') = emitted'
    BY <1>1, <1>2, <1>5, <2>3
  <2>7. receiver' = "ended" => Place + Len(eventQueue') = emitted' + 1
                               /\ eventQueue'[Len(eventQueue')] = Finished
    BY <1>1, <1>2, <1>5, <2>3
  <2>8. QED
    BY <1>4, <1>5, <2>2, <2>5, <2>6, <2>7 DEF EventsInOrder
<1>10. outcome' # "completed"
  BY <1>4
<1>11. QED
  BY <1>7, <1>8, <1>9, <1>10 DEF EventInv

LEMMA ForwardGetStep ==
  ASSUME StreamTypes, EventInv, ForwardGet
  PROVE  EventInv'
<1>1. /\ eventQueue \in Seq(Event \cup {Finished, Failure}) /\ eventQueue # <<>>
      /\ emitted \in Nat /\ Finished = -1 /\ Failure = -2 /\ Len(eventQueue) \in Nat \ {0}
      /\ Len(forwarded) \in Nat
      /\ eventQueue' = Tail(eventQueue)
  BY StreamAssumption DEF ForwardGet, StreamTypes, StreamTypeOK, Finished, Failure
<1>2. /\ Len(eventQueue') = Len(eventQueue) - 1
      /\ Head(eventQueue) = eventQueue[1]
      /\ \A k \in 1..Len(eventQueue') : eventQueue'[k] = eventQueue[k + 1] /\ k + 1 \in 1..Len(eventQueue)
  BY <1>1
<1>3. /\ forward = "get" /\ forwarded' = forwarded /\ emitted' = emitted /\ receiver' = receiver
      /\ run' = run /\ outcome' = outcome
      /\ outcome # "completed"
  BY DEF ForwardGet, receiverVars, runVars, EventInv
<1>4. \/ Head(eventQueue) = Failure /\ forward' = "raised"
      \/ Head(eventQueue) = Finished /\ forward' = "returned"
      \/ /\ Head(eventQueue) \notin {Failure, Finished}
         /\ forward' = "handle" /\ handling' = Head(eventQueue)
  BY DEF ForwardGet
<1>5. Head(eventQueue) \in {Finished, Failure} => Len(eventQueue) = 1 /\ receiver = "ended" /\ eventQueue' = <<>>
  <2> SUFFICES ASSUME Head(eventQueue) \in {Finished, Failure}
               PROVE  Len(eventQueue) = 1 /\ receiver = "ended" /\ eventQueue' = <<>>
    OBVIOUS
  <2>1. 1 \in 1..Len(eventQueue) /\ eventQueue[1] \in {Finished, Failure}
    BY <1>1, <1>2
  <2>2. Len(eventQueue) = 1 /\ receiver = "ended"
    BY <2>1 DEF EventInv, EndIsLast
  <2>3. Len(eventQueue') = 0 /\ eventQueue' \in Seq(Event \cup {Finished, Failure})
    BY <1>1, <1>2, <2>2
  <2>4. QED
    BY <2>2, <2>3, EmptySeq
<1>6. EndIsDelivered'
  <2>1. SUFFICES ASSUME Serving', receiver' = "ended", ~ForwardEnded'
                 PROVE  eventQueue' # <<>> /\ eventQueue'[Len(eventQueue')] \in {Finished, Failure}
    BY DEF EndIsDelivered
  <2>2. Head(eventQueue) \notin {Finished, Failure}
    BY <1>4, <2>1 DEF ForwardEnded
  <2>3. eventQueue[Len(eventQueue)] \in {Finished, Failure}
    BY <1>3, <2>1 DEF EventInv, EndIsDelivered, Serving, ForwardEnded
  <2>4. Len(eventQueue') # 0
    BY <1>1, <1>2, <2>2, <2>3
  <2>5. Len(eventQueue') \in 1..Len(eventQueue') /\ Len(eventQueue') + 1 = Len(eventQueue)
    BY <1>1, <1>2, <2>4
  <2>6. QED
    BY <1>1, <1>2, <2>3, <2>4, <2>5
<1>7. EndIsLast'
  <2>1. forward' = "returned" => receiver' = "ended" /\ eventQueue' = <<>>
    BY <1>1, <1>3, <1>4, <1>5
  <2>2. ASSUME NEW k \in 1..Len(eventQueue'), eventQueue'[k] \in {Finished, Failure}
        PROVE  k = Len(eventQueue') /\ receiver' = "ended"
    <3>1. k + 1 \in 1..Len(eventQueue) /\ eventQueue[k + 1] \in {Finished, Failure}
      BY <1>2, <2>2
    <3>2. k + 1 = Len(eventQueue) /\ receiver = "ended"
      BY <3>1 DEF EventInv, EndIsLast
    <3>3. Len(eventQueue') = Len(eventQueue) - 1 /\ Len(eventQueue) \in Nat
      BY <1>1, <1>2
    <3>4. k \in Int /\ k <= Len(eventQueue')
      BY <3>3
    <3>5. k = Len(eventQueue')
      BY <3>2, <3>3, <3>4
    <3>6. QED
      BY <1>3, <3>2, <3>5
  <2>3. QED
    BY <2>1, <2>2 DEF EndIsLast
<1>8. ASSUME run' # "closed", NoFailure'
      PROVE  EventsInOrder'
  <2>1. Head(eventQueue) # Failure
    BY <1>1, <1>4, <1>8 DEF NoFailure
  <2>2. NoFailure
    <3>1. ASSUME NEW k \in 1..Len(eventQueue)
          PROVE  eventQueue[k] # Failure
      <4>1. CASE k = 1
        BY <1>2, <2>1, <4>1
      <4>2. CASE k # 1
        <5>1. k - 1 \in 1..Len(eventQueue') /\ (k - 1) + 1 = k
          BY <1>1, <1>2, <4>2
        <5>2. QED
          BY <1>2, <1>8, <5>1 DEF NoFailure
      <4>3. QED
        BY <4>1, <4>2
    <3>2. QED
      BY <1>3, <3>1 DEF NoFailure
  <2>3. EventsInOrder /\ Place = Len(forwarded)
    BY <1>1, <1>3, <1>8, <2>2 DEF EventInv, Place
  <2>4. CASE Head(eventQueue) = Finished
    <3>1. Len(eventQueue) = 1 /\ receiver = "ended" /\ forward' = "returned"
      BY <1>1, <1>4, <1>5, <2>4
    <3>2. Len(forwarded) = emitted
      BY <1>1, <1>3, <2>3, <3>1 DEF EventsInOrder
    <3>3. Len(eventQueue') = 0
      BY <1>2, <3>1
    <3>4. QED
      BY <1>3, <2>3, <3>1, <3>2, <3>3 DEF EventsInOrder
  <2>5. CASE Head(eventQueue) # Finished
    <3>1. forward' = "handle" /\ handling' = eventQueue[1]
      BY <1>2, <1>4, <2>1, <2>5
    <3>2. handling' = Len(forwarded') + 1 /\ Place' = Len(forwarded) + 1
      BY <1>1, <1>2, <1>3, <2>3, <2>5, <3>1 DEF EventsInOrder, Place
    <3>3. \A k \in 1..Len(eventQueue') : eventQueue'[k] \in {Place' + k, Finished}
      <4> TAKE k \in 1..Len(eventQueue')
      <4>1. eventQueue[k + 1] \in {Place + (k + 1), Finished}
        BY <1>2, <2>3 DEF EventsInOrder
      <4>2. Place' + k = Place + (k + 1)
        BY <1>1, <2>3, <3>2
      <4>3. QED
        BY <1>2, <4>1, <4>2
    <3>4. Place' + Len(eventQueue') = Place + Len(eventQueue)
      BY <1>1, <1>2, <2>3, <3>2
    <3>5. receiver = "ended" => eventQueue'[Len(eventQueue')] = Finished
      <4>1. SUFFICES ASSUME receiver = "ended"
                     PROVE  eventQueue'[Len(eventQueue')] = Finished
        OBVIOUS
      <4>2. eventQueue[Len(eventQueue)] = Finished
        BY <1>3, <2>3, <4>1 DEF EventsInOrder
      <4>3. Len(eventQueue') \in 1..Len(eventQueue') /\ Len(eventQueue') + 1 = Len(eventQueue)
        BY <1>1, <1>2, <2>5, <4>2
      <4>4. QED
        BY <1>2, <4>2, <4>3
    <3>6. QED
      BY <1>3, <2>3, <3>1, <3>2, <3>3, <3>4, <3>5 DEF EventsInOrder
  <2>6. QED
    BY <2>4, <2>5
<1>9. QED
  BY <1>3, <1>6, <1>7, <1>8 DEF EventInv

LEMMA ForwardHandledStep ==
  ASSUME StreamTypes, EventInv, ForwardHandled
  PROVE  EventInv'
<1>1. /\ forward = "handle" /\ forward' \in {"get", "raised"}
      /\ forward' = "get" => forwarded' = Append(forwarded, handling)
      /\ eventQueue' = eventQueue /\ emitted' = emitted /\ receiver' = receiver
      /\ run' = run /\ outcome' = outcome
  BY DEF ForwardHandled, receiverVars, runVars
<1>2. forwarded \in Seq(Event) /\ handling \in Event /\ Len(forwarded) \in Nat
  BY <1>1 DEF StreamTypes, StreamTypeOK
<1>3. EndIsDelivered'
  BY <1>1 DEF EventInv, EndIsDelivered, Serving, ForwardEnded
<1>4. EndIsLast'
  BY <1>1 DEF EventInv, EndIsLast
<1>5. outcome' # "completed"
  BY <1>1 DEF EventInv
<1>6. ASSUME run' # "closed", NoFailure'
      PROVE  EventsInOrder'
  <2>1. NoFailure /\ forward' = "get"
    BY <1>1, <1>6 DEF NoFailure
  <2>2. EventsInOrder
    BY <1>1, <1>6, <2>1 DEF EventInv
  <2>3. /\ Len(forwarded') = Len(forwarded) + 1
        /\ forwarded'[Len(forwarded) + 1] = handling
        /\ \A k \in 1..Len(forwarded) : forwarded'[k] = forwarded[k]
    BY <1>1, <1>2, <2>1
  <2>4. \A k \in 1..Len(forwarded') : forwarded'[k] = k
    <3>1. handling = Len(forwarded) + 1 /\ \A k \in 1..Len(forwarded) : forwarded[k] = k
      BY <1>1, <2>2 DEF EventsInOrder
    <3>2. QED
      BY <1>2, <2>3, <3>1
  <2>5. Place' = Place
    BY <1>1, <1>2, <2>1, <2>3 DEF Place
  <2>6. QED
    BY <1>1, <2>1, <2>2, <2>4, <2>5 DEF EventsInOrder
<1>7. QED
  BY <1>3, <1>4, <1>5, <1>6 DEF EventInv

(* The steps of the other tasks; only the end of run looks at the events.  *)
LEMMA OtherStep ==
  ASSUME EventInv, UNCHANGED <<receiverVars, forwardVars, eventQueue>>,
         Serving' => Serving, run # "closed",
         \/ outcome' \in {outcome, "failed"}
         \/ forward = "returned"
  PROVE  EventInv'
<1>1. /\ forward' = forward /\ handling' = handling /\ forwarded' = forwarded
      /\ emitted' = emitted /\ receiver' = receiver /\ eventQueue' = eventQueue
  BY DEF receiverVars, forwardVars
<1>2. EndIsDelivered' /\ EndIsLast'
  BY <1>1 DEF EventInv, EndIsDelivered, EndIsLast, ForwardEnded
<1>3. run' # "closed" /\ NoFailure' => EventsInOrder'
  BY <1>1 DEF EventInv, NoFailure, EventsInOrder, Place
<1>4. ASSUME outcome' = "completed"
      PROVE  /\ forward' = "returned" /\ receiver' = "ended"
             /\ Len(forwarded') = emitted' /\ \A k \in 1..emitted' : forwarded'[k] = k
  <2>1. CASE outcome = "completed"
    BY <1>1, <2>1 DEF EventInv
  <2>2. CASE forward = "returned"
    <3>1. receiver = "ended" /\ eventQueue = <<>>
      BY <2>2 DEF EventInv, EndIsLast
    <3>2. NoFailure
      BY <2>2, <3>1 DEF NoFailure
    <3>3. EventsInOrder
      BY <3>2 DEF EventInv
    <3>4. QED
      BY <1>1, <2>2, <3>1, <3>3 DEF EventsInOrder
  <2>3. QED
    BY <1>4, <2>1, <2>2
<1>5. QED
  BY <1>2, <1>3, <1>4 DEF EventInv

LEMMA CancelStep ==
  ASSUME EventInv, Cancel
  PROVE  EventInv'
<1>1. /\ forward' = forward /\ handling' = handling /\ forwarded' = forwarded
      /\ emitted' = emitted /\ receiver' = receiver /\ eventQueue' = <<>>
      /\ run' = "closed" /\ outcome' = outcome
  BY DEF Cancel, receiverVars, forwardVars
<1>2. EndIsDelivered'
  BY <1>1 DEF EndIsDelivered, Serving
<1>3. EndIsLast'
  BY <1>1 DEF EventInv, EndIsLast
<1>4. QED
  BY <1>1, <1>2, <1>3 DEF EventInv

LEMMA EventInvariant == StreamSpec => []EventInv
<1>1. StreamInit => EventInv
  BY DEF StreamInit, EventInv, EndIsDelivered, EndIsLast, EventsInOrder, Place
<1>2. StreamTypes /\ EventInv /\ [StreamNext]_streamVars => EventInv'
  <2> SUFFICES ASSUME StreamTypes, EventInv, [StreamNext]_streamVars
               PROVE  EventInv'
    OBVIOUS
  <2>1. CASE ReceiverEvent
    <3>1. CASE Len(eventQueue) < QueueSize
      <4>1. emitted + 1 # Finished
        BY StreamAssumption DEF Finished, StreamTypes, StreamTypeOK
      <4>2. QED
        BY <2>1, <3>1, <4>1, ArrivalStep DEF ReceiverEvent, QueueEvent, runVars
    <3>2. CASE ~(Len(eventQueue) < QueueSize)
      BY <2>1, <3>2, FailureStep DEF ReceiverEvent, QueueEvent, runVars
    <3>3. QED
      BY <3>1, <3>2
  <2>2. CASE ReceiverFinished
    <3>1. CASE Len(eventQueue) < QueueSize
      BY <2>2, <3>1, ArrivalStep DEF ReceiverFinished, QueueEvent, runVars
    <3>2. CASE ~(Len(eventQueue) < QueueSize)
      BY <2>2, <3>2, FailureStep DEF ReceiverFinished, QueueEvent, runVars
    <3>3. QED
      BY <3>1, <3>2
  <2>3. CASE ReceiverInvalid
    BY <2>3, FailureStep DEF ReceiverInvalid, runVars
  <2>4. CASE ForwardGet
    BY <2>4, ForwardGetStep
  <2>5. CASE ForwardHandled
    BY <2>5, ForwardHandledStep
  <2>6. CASE Cancel
    BY <2>6, CancelStep
  <2>7. CASE ClientAudio \/ ClientEnds \/ SenderGet \/ SenderSent \/ LineBreaks
    <3>1. UNCHANGED <<receiverVars, forwardVars, eventQueue, runVars>> /\ run # "closed"
      BY <2>7 DEF ClientAudio, ClientEnds, SenderGet, SenderSent, LineBreaks, Serving
    <3>2. (Serving' => Serving) /\ outcome' = outcome
      BY <3>1 DEF Serving, runVars
    <3>3. QED
      BY <3>1, <3>2, OtherStep
  <2>8. CASE RunWakes \/ FinishPut \/ FinishJoin \/ FinishSend \/ FinishWait \/ Report
    <3>1. /\ UNCHANGED <<receiverVars, forwardVars, eventQueue>>
          /\ run \notin {"cleanup", "closed"}
          /\ outcome' \in {outcome, "failed"} \/ forward = "returned"
      BY <2>8 DEF RunWakes, FinishPut, FinishJoin, FinishSend, FinishWait, Report, Conclude
    <3>2. QED
      BY <3>1, OtherStep DEF Serving
  <2>9. CASE UNCHANGED streamVars
    <3>1. CASE run = "closed"
      BY <2>9, <3>1 DEF streamVars, receiverVars, forwardVars, runVars, EventInv, EndIsDelivered,
         EndIsLast, Serving
    <3>2. CASE run # "closed"
      BY <2>9, <3>2, OtherStep DEF streamVars, runVars, Serving
    <3>3. QED
      BY <3>1, <3>2
  <2>10. QED
    BY <2>1, <2>2, <2>3, <2>4, <2>5, <2>6, <2>7, <2>8, <2>9
       DEF StreamNext, Internal, External, ReceiverDisconnected
<1>3. QED
  BY <1>1, <1>2, StreamTypesInvariant, PTL DEF StreamSpec

(* The task that handles the events never waits on a queue that nobody     *)
(* fills: whatever ended the receiver is the last thing in the queue, even *)
(* if the queue was full when it happened.                                 *)
THEOREM DeliveredTheorem == StreamSpec => []EndIsDelivered
<1>1. EventInv => EndIsDelivered
  BY DEF EventInv
<1>2. QED
  BY <1>1, EventInvariant, PTL

(* A session that reports its completion has handled every event of the    *)
(* upstream in order.                                                      *)
THEOREM CompletedTheorem == StreamSpec => []CompletedHandledAll
<1>1. StreamTypes /\ EventInv => CompletedHandledAll
  <2> SUFFICES ASSUME StreamTypes, EventInv, outcome = "completed"
               PROVE  forwarded = UpTo(emitted)
    BY DEF CompletedHandledAll
  <2>1. /\ forwarded \in Seq(Event) /\ emitted \in Nat
        /\ Len(forwarded) = emitted /\ \A k \in 1..emitted : forwarded[k] = k
    BY StreamAssumption DEF StreamTypes, StreamTypeOK, EventInv
  <2>2. QED
    BY <2>1 DEF UpTo
<1>2. QED
  BY <1>1, EventInvariant, StreamTypesInvariant, PTL

-------------------------------------------------------------------------------
(* The audio.                                                              *)

(* All that was taken from the client, on its way to the upstream.         *)
Line == sent \o InHand \o audioQueue

AudioInv ==
  /\ run \in {"put", "join", "finish", "wait"} => receive = "returned"
  /\ run \in {"finish", "wait"} => sender = "returned"
  /\ finishSent => sender = "returned" /\ receive = "returned" /\ sent = UpTo(accepted)
  /\ run # "closed" /\ sender # "raised" =>
       \/ Line = UpTo(accepted)
       \/ /\ Line = Append(UpTo(accepted), End)
          /\ receive = "returned"
          /\ run \notin {"serving", "put"}

LEMMA UpToType ==
  ASSUME NEW n \in Nat
  PROVE  UpTo(n) \in Seq(Int) /\ Len(UpTo(n)) = n /\ \A k \in 1..n : UpTo(n)[k] = k
  BY DEF UpTo

LEMMA UpToNext ==
  ASSUME NEW n \in Nat
  PROVE  Append(UpTo(n), n + 1) = UpTo(n + 1)
<1>1. /\ Append(UpTo(n), n + 1) \in Seq(Int) /\ Len(Append(UpTo(n), n + 1)) = n + 1
      /\ \A k \in 1..(n + 1) : Append(UpTo(n), n + 1)[k] = k
  BY UpToType
<1>2. /\ UpTo(n + 1) \in Seq(Int) /\ Len(UpTo(n + 1)) = n + 1
      /\ \A k \in 1..(n + 1) : UpTo(n + 1)[k] = k
  BY UpToType
<1>3. QED
  BY <1>1, <1>2

LEMMA LineTypes ==
  ASSUME StreamTypes
  PROVE  /\ sent \in Seq(Int) /\ audioQueue \in Seq(Int) /\ InHand \in Seq(Int)
         /\ accepted \in Nat /\ Line \in Seq(Int)
<1>1. Chunk \subseteq Int /\ Chunk \cup {End} \subseteq Int
  BY DEF Chunk, End
<1>2. sent \in Seq(Int) /\ audioQueue \in Seq(Int) /\ accepted \in Nat
  BY <1>1, SeqMonotonic, StreamAssumption DEF StreamTypes, StreamTypeOK
<1>3. InHand \in Seq(Int)
  <2>1. CASE sender = "send"
    <3>1. InHand = <<sending>> /\ sending \in Int
      BY <1>1, <2>1 DEF InHand, StreamTypes
    <3>2. QED
      BY <3>1
  <2>2. CASE sender = "returned"
    <3>1. InHand = <<End>> /\ End \in Int
      BY <1>1, <2>2 DEF InHand
    <3>2. QED
      BY <3>1
  <2>3. CASE sender \notin {"send", "returned"}
    BY <2>3 DEF InHand
  <2>4. QED
    BY <2>1, <2>2, <2>3
<1>4. sent \o InHand \in Seq(Int)
  BY <1>2, <1>3, ConcatProperties
<1>5. QED
  BY <1>2, <1>3, <1>4, ConcatProperties DEF Line

LEMMA LineGrows ==
  ASSUME StreamTypes, NEW c \in Int, audioQueue' = Append(audioQueue, c),
         sent' = sent, sender' = sender, sending' = sending
  PROVE  Line' = Append(Line, c)
<1>1. sent \in Seq(Int) /\ audioQueue \in Seq(Int) /\ InHand \in Seq(Int) /\ Line \in Seq(Int)
  BY LineTypes
<1>2. sent \o InHand \in Seq(Int) /\ <<c>> \in Seq(Int)
  BY <1>1, ConcatProperties
<1>3. InHand' = InHand
  BY DEF InHand
<1>4. Line' = (sent \o InHand) \o (audioQueue \o <<c>>)
  BY <1>1, <1>3, AppendIsConcat DEF Line
<1>5. (sent \o InHand) \o (audioQueue \o <<c>>) = ((sent \o InHand) \o audioQueue) \o <<c>>
  BY <1>1, <1>2, ConcatAssociative
<1>6. Append(Line, c) = Line \o <<c>>
  BY <1>1, AppendIsConcat
<1>7. QED
  BY <1>4, <1>5, <1>6 DEF Line

LEMMA SenderGetKeepsLine ==
  ASSUME StreamTypes, SenderGet
  PROVE  Line' = Line
<1>1. sent \in Seq(Int) /\ audioQueue \in Seq(Int) /\ audioQueue # <<>>
  BY LineTypes DEF SenderGet
<1>2. Head(audioQueue) \in Int /\ Tail(audioQueue) \in Seq(Int) /\ <<Head(audioQueue)>> \in Seq(Int)
  BY <1>1
<1>3. InHand = <<>> /\ InHand' = <<Head(audioQueue)>> /\ sent' = sent /\ audioQueue' = Tail(audioQueue)
  BY DEF SenderGet, InHand
<1>4. sent \o <<>> = sent
  BY <1>1, ConcatEmptySeq
<1>5. (sent \o <<Head(audioQueue)>>) \o Tail(audioQueue) = sent \o (<<Head(audioQueue)>> \o Tail(audioQueue))
  BY <1>1, <1>2, ConcatAssociative
<1>6. <<Head(audioQueue)>> \o Tail(audioQueue) = audioQueue
  BY <1>1, <1>2
<1>7. QED
  BY <1>3, <1>4, <1>5, <1>6 DEF Line

LEMMA SenderSentKeepsLine ==
  ASSUME StreamTypes, SenderSent, line = "open"
  PROVE  Line' = Line
<1>1. sent \in Seq(Int) /\ audioQueue \in Seq(Int) /\ sending \in Int
  BY LineTypes DEF SenderSent, StreamTypes, Chunk
<1>2. InHand = <<sending>> /\ InHand' = <<>> /\ sent' = Append(sent, sending) /\ audioQueue' = audioQueue
  BY DEF SenderSent, InHand
<1>3. Append(sent, sending) = sent \o <<sending>> /\ sent \o <<sending>> \in Seq(Int)
  BY <1>1, AppendIsConcat, AppendProperties
<1>4. (sent \o <<sending>>) \o <<>> = sent \o <<sending>>
  BY <1>3, ConcatEmptySeq
<1>5. QED
  BY <1>2, <1>3, <1>4 DEF Line

(* The sender that has seen the end has sent everything.                   *)
LEMMA ReturnedHasSent ==
  ASSUME StreamTypes, sender = "returned",
         Line = UpTo(accepted) \/ Line = Append(UpTo(accepted), End)
  PROVE  sent = UpTo(accepted)
<1> DEFINE n == Len(sent)
<1>1. /\ sent \in Seq(Int) /\ audioQueue \in Seq(Int) /\ accepted \in Nat
      /\ InHand = <<End>> /\ End = -1 /\ <<End>> \in Seq(Int)
  BY LineTypes DEF InHand, End
<1>2. /\ sent \o <<End>> \in Seq(Int) /\ Len(sent \o <<End>>) = n + 1 /\ n \in Nat
      /\ (sent \o <<End>>)[n + 1] = End
      /\ \A k \in 1..n : (sent \o <<End>>)[k] = sent[k]
  BY <1>1
<1>3. /\ Len(Line) = n + 1 + Len(audioQueue) /\ Len(audioQueue) \in Nat
      /\ Line[n + 1] = End
      /\ \A k \in 1..n : Line[k] = sent[k]
  BY <1>1, <1>2, ConcatProperties DEF Line
<1>4. /\ UpTo(accepted) \in Seq(Int) /\ Len(UpTo(accepted)) = accepted
      /\ \A k \in 1..accepted : UpTo(accepted)[k] = k
  BY <1>1, UpToType
<1>5. /\ Len(Line) \in {accepted, accepted + 1}
      /\ \A k \in 1..accepted : Line[k] = k
  <2>1. /\ Len(Append(UpTo(accepted), End)) = accepted + 1
        /\ \A k \in 1..accepted : Append(UpTo(accepted), End)[k] = UpTo(accepted)[k]
    BY <1>1, <1>4, AppendProperties
  <2>2. CASE Line = UpTo(accepted)
    BY <1>4, <2>2
  <2>3. CASE Line = Append(UpTo(accepted), End)
    BY <1>4, <2>1, <2>3
  <2>4. QED
    BY <2>2, <2>3
<1>6. ~(n + 1 <= accepted)
  BY <1>1, <1>2, <1>3, <1>5
<1>7. n = accepted
  BY <1>1, <1>2, <1>3, <1>5, <1>6
<1>8. \A k \in 1..n : sent[k] = UpTo(accepted)[k]
  BY <1>3, <1>4, <1>5, <1>7
<1>9. QED
  BY <1>1, <1>4, <1>7, <1>8, SeqEqual

LEMMA OtherAudioStep ==
  ASSUME AudioInv, UNCHANGED <<accepted, senderVars, audioQueue, finishSent>>,
         receive = "returned" => receive' = "returned",
         run' \in {"put", "join", "finish", "wait"} => receive' = "returned",
         run' \in {"finish", "wait"} => sender = "returned",
         run' \in {"serving", "put"} => run \in {"serving", "put"},
         run = "closed" => run' = "closed"
  PROVE  AudioInv'
<1>1. accepted' = accepted /\ sender' = sender /\ sent' = sent /\ finishSent' = finishSent
      /\ UpTo(accepted') = UpTo(accepted)
  BY DEF senderVars
<1>2. Line' = Line
  BY DEF Line, InHand, senderVars
<1>3. QED
  BY <1>1, <1>2 DEF AudioInv

LEMMA ClientAudioStep ==
  ASSUME StreamTypes, AudioInv, ClientAudio
  PROVE  AudioInv'
<1>1. /\ receive = "running" /\ sender' = sender /\ run' = run /\ finishSent' = finishSent
      /\ run # "closed"
  BY DEF ClientAudio, senderVars, runVars, Serving
<1>2. run \notin {"put", "join", "finish", "wait"} /\ ~finishSent
  BY <1>1 DEF AudioInv
<1>3. sender # "raised" => Line = UpTo(accepted)
  BY <1>1 DEF AudioInv
<1>4. CASE Len(audioQueue) < QueueSize
  <2>1. /\ audioQueue' = Append(audioQueue, accepted + 1) /\ accepted' = accepted + 1
        /\ sent' = sent /\ sending' = sending /\ accepted \in Nat
    BY <1>4, LineTypes DEF ClientAudio, senderVars
  <2>2. Line' = Append(Line, accepted + 1)
    BY <1>1, <2>1, LineGrows
  <2>3. sender' # "raised" => Line' = UpTo(accepted')
    BY <1>1, <1>3, <2>1, <2>2, UpToNext
  <2>4. QED
    BY <1>1, <1>2, <2>3 DEF AudioInv
<1>5. CASE ~(Len(audioQueue) < QueueSize)
  BY <1>1, <1>2, <1>5, OtherAudioStep DEF ClientAudio
<1>6. QED
  BY <1>4, <1>5

(* A sender that still works has not been given the end, so finish waits.  *)
LEMMA SenderStep ==
  ASSUME StreamTypes, AudioInv, SenderGet \/ SenderSent
  PROVE  AudioInv'
<1>1. /\ sender \in {"get", "send"} /\ run' = run /\ finishSent' = finishSent
      /\ receive' = receive /\ accepted' = accepted /\ run # "closed"
  BY DEF SenderGet, SenderSent, clientVars, runVars
<1>2. run \notin {"finish", "wait"} /\ ~finishSent
  BY <1>1 DEF AudioInv
<1>3. sender' # "raised" => Line' = Line
  BY SenderGetKeepsLine, SenderSentKeepsLine DEF SenderSent
<1>4. UpTo(accepted') = UpTo(accepted)
  BY <1>1
<1>5. QED
  BY <1>1, <1>2, <1>3, <1>4 DEF AudioInv

LEMMA FinishPutStep ==
  ASSUME StreamTypes, AudioInv, FinishPut
  PROVE  AudioInv'
<1>1. /\ run = "put" /\ run' = "join" /\ finishSent' = finishSent /\ receive' = receive
      /\ accepted' = accepted /\ sender' = sender /\ sent' = sent /\ sending' = sending
      /\ audioQueue' = Append(audioQueue, End)
  BY DEF FinishPut, clientVars, senderVars
<1>2. End \in Int
  BY DEF End
<1>3. Line' = Append(Line, End)
  BY <1>1, <1>2, LineGrows
<1>4. receive = "returned" /\ (sender # "raised" => Line = UpTo(accepted))
  BY <1>1 DEF AudioInv
<1>5. UpTo(accepted') = UpTo(accepted)
  BY <1>1
<1>6. QED
  BY <1>1, <1>3, <1>4, <1>5 DEF AudioInv

LEMMA FinishSendStep ==
  ASSUME StreamTypes, AudioInv, FinishSend
  PROVE  AudioInv'
<1>1. /\ run = "finish" /\ run' \in {"wait", "report"} /\ receive' = receive
      /\ accepted' = accepted /\ sender' = sender /\ sent' = sent /\ sending' = sending
      /\ audioQueue' = audioQueue
  BY DEF FinishSend, Conclude, clientVars, senderVars
<1>2. sender = "returned" /\ receive = "returned"
  BY <1>1 DEF AudioInv
<1>3. sent = UpTo(accepted)
  BY <1>1, <1>2, ReturnedHasSent DEF AudioInv
<1>4. Line' = Line /\ UpTo(accepted') = UpTo(accepted)
  BY <1>1 DEF Line, InHand
<1>5. QED
  BY <1>1, <1>2, <1>3, <1>4 DEF AudioInv

LEMMA AudioInvariant == StreamSpec => []AudioInv
<1>1. StreamInit => AudioInv
  <2>1. ASSUME StreamInit
        PROVE  Line = UpTo(accepted)
    <3>1. Line = <<>> /\ accepted = 0
      BY <2>1, ConcatEmptySeq DEF StreamInit, Line, InHand
    <3>2. UpTo(0) = <<>>
      BY UpToType, EmptySeq
    <3>3. QED
      BY <3>1, <3>2
  <2>2. QED
    BY <2>1 DEF StreamInit, AudioInv
<1>2. StreamTypes /\ AudioInv /\ [StreamNext]_streamVars => AudioInv'
  <2> SUFFICES ASSUME StreamTypes, AudioInv, [StreamNext]_streamVars
               PROVE  AudioInv'
    OBVIOUS
  <2>1. CASE ClientAudio
    BY <2>1, ClientAudioStep
  <2>2. CASE SenderGet \/ SenderSent
    BY <2>2, SenderStep
  <2>3. CASE FinishPut
    BY <2>3, FinishPutStep
  <2>4. CASE FinishSend
    BY <2>4, FinishSendStep
  <2>5. CASE ClientEnds
    <3>1. run \notin {"put", "join", "finish", "wait"} /\ receive # "returned"
      BY <2>5 DEF ClientEnds, AudioInv
    <3>2. QED
      BY <2>5, <3>1, OtherAudioStep DEF ClientEnds, runVars
  <2>6. CASE ReceiverEvent \/ ReceiverFinished \/ ReceiverInvalid \/ LineBreaks
             \/ ForwardGet \/ ForwardHandled
    <3>1. UNCHANGED <<clientVars, senderVars, audioQueue, runVars>>
      BY <2>6 DEF ReceiverEvent, ReceiverFinished, ReceiverInvalid, LineBreaks, ForwardGet,
         ForwardHandled
    <3>2. QED
      BY <3>1, OtherAudioStep DEF clientVars, runVars, AudioInv
  <2>7. CASE RunWakes
    <3>1. UNCHANGED <<accepted, senderVars, audioQueue, finishSent>> /\ run = "serving"
      BY <2>7 DEF RunWakes
    <3>2. run' \in {"report", "put"} /\ (run' = "put" => receive = "returned")
          /\ (receive = "returned" => receive' = "returned")
      BY <2>7 DEF RunWakes, Conclude
    <3>3. QED
      BY <3>1, <3>2, OtherAudioStep
  <2>8. CASE FinishJoin
    <3>1. /\ UNCHANGED <<clientVars, senderVars, audioQueue, finishSent>> /\ run = "join"
          /\ run' = "report" \/ (run' = "finish" /\ sender = "returned")
      BY <2>8 DEF FinishJoin, Conclude
    <3>2. QED
      BY <3>1, OtherAudioStep DEF clientVars, AudioInv
  <2>9. CASE FinishWait \/ Report
    <3>1. /\ UNCHANGED <<clientVars, senderVars, audioQueue, finishSent>>
          /\ run \in {"wait", "report"} /\ run' \in {"report", "cleanup"}
      BY <2>9 DEF FinishWait, Report, Conclude
    <3>2. QED
      BY <3>1, OtherAudioStep DEF clientVars
  <2>10. CASE Cancel
    BY <2>10 DEF Cancel, AudioInv, clientVars, senderVars
  <2>11. CASE UNCHANGED streamVars
    <3>1. UNCHANGED <<clientVars, senderVars, audioQueue, runVars>>
      BY <2>11 DEF streamVars
    <3>2. QED
      BY <3>1, OtherAudioStep DEF clientVars, runVars, AudioInv
  <2>12. QED
    BY <2>1, <2>2, <2>3, <2>4, <2>5, <2>6, <2>7, <2>8, <2>9, <2>10, <2>11
       DEF StreamNext, Internal, External, ReceiverDisconnected
<1>3. QED
  BY <1>1, <1>2, StreamTypesInvariant, PTL DEF StreamSpec

(* The upstream hears what the client said: no chunk is lost, repeated or  *)
(* overtaken in the queue and the sender, whatever the size of the queue.  *)
THEOREM OrderTheorem == StreamSpec => []AudioInOrder
<1>1. StreamTypes /\ AudioInv => AudioInOrder
  <2> SUFFICES ASSUME StreamTypes, AudioInv, run # "closed", sender # "raised"
               PROVE  \E end \in {<<>>, <<End>>} : sent \o InHand \o audioQueue = UpTo(accepted) \o end
    BY DEF AudioInOrder
  <2>1. UpTo(accepted) \in Seq(Int) /\ End \in Int
    BY LineTypes, UpToType DEF End
  <2>2. UpTo(accepted) \o <<>> = UpTo(accepted)
        /\ UpTo(accepted) \o <<End>> = Append(UpTo(accepted), End)
    BY <2>1, ConcatEmptySeq, AppendIsConcat
  <2>3. Line = UpTo(accepted) \/ Line = Append(UpTo(accepted), End)
    BY DEF AudioInv
  <2>4. CASE Line = UpTo(accepted)
    BY <2>2, <2>4 DEF Line
  <2>5. CASE Line = Append(UpTo(accepted), End)
    BY <2>2, <2>5 DEF Line
  <2>6. QED
    BY <2>3, <2>4, <2>5
<1>2. QED
  BY <1>1, AudioInvariant, StreamTypesInvariant, PTL

(* When session.finish is sent, the client has said session.stop and every *)
(* chunk it sent before that has been sent to the upstream.                *)
THEOREM FinishTheorem == StreamSpec => []AudioBeforeFinish
<1>1. AudioInv => AudioBeforeFinish
  BY DEF AudioInv, AudioBeforeFinish
<1>2. QED
  BY <1>1, AudioInvariant, PTL

===============================================================================
