--------------------------- MODULE LiveTranslateStream ---------------------------
(***************************************************************************)
(* The tasks of one LiveTranslate session of the gateway and the two       *)
(* bounded queues between them, once the upstream has been started         *)
(* (server/app/providers/livetranslate.py, LiveTranslateUpstreamSession,   *)
(* with run, _receive_client and _forward_upstream_events of               *)
(* server/app/streaming/livetranslate_session.py).                         *)
(*                                                                         *)
(*   client --> _receive_client --> audioQueue --> _sender_loop --> upstream *)
(*   client <-- _forward <-------- eventQueue <-- _receiver_loop <-- upstream *)
(*                                                                         *)
(* and run, which waits for the first of _receive_client and _forward to   *)
(* end, lets the upstream finish, and cleans up.  An action is what a task *)
(* does from one await to the next.  Chunks of audio are numbered as the   *)
(* client sends them, events as the upstream sends them.  What an event    *)
(* means is in LiveTranslateTurns, start and the session deadline are in   *)
(* GatewayStream.                                                          *)
(***************************************************************************)
EXTENDS Integers, Sequences, FiniteSets

CONSTANTS QueueSize,   \* livetranslate_audio_queue_max_chunks
          MaxChunks,   \* audio chunks from the client (bound of the model)
          MaxEvents    \* events before session.finished (bound of the model)

ASSUME StreamAssumption ==
  /\ QueueSize \in Nat \ {0}
  /\ MaxChunks \in Nat
  /\ MaxEvents \in Nat

End == -1         \* the None that finish() puts behind the audio
Finished == -1    \* session.finished
Failure == -2     \* an exception among the events
Nothing == 0

VARIABLES receive,      \* _receive_client: "running", "returned" or "raised"
          accepted,     \* chunks that send_audio has taken
          audioQueue,
          sender,       \* _sender_loop: "get", "send", "returned" or "raised"
          sending,      \* the chunk it awaits connection.send for
          sent,         \* chunks the upstream was given, in order
          finishSent,   \* session.finish was sent
          line,         \* the connection: "open" or "broken"
          emitted,      \* events taken from the connection
          eventQueue,
          receiver,     \* _receiver_loop: "running" or "ended"
          forward,      \* _forward_upstream_events: "get", "handle", "returned" or "raised"
          handling,     \* the event it handles
          forwarded,    \* events handled, in order
          run,          \* where run is
          outcome       \* "none", "completed" or "failed"

clientVars == <<receive, accepted>>
senderVars == <<sender, sending, sent>>
receiverVars == <<emitted, receiver>>
forwardVars == <<forward, handling, forwarded>>
runVars == <<finishSent, run, outcome>>
streamVars == <<clientVars, senderVars, receiverVars, forwardVars, runVars,
          audioQueue, eventQueue, line>>

UpTo(n) == [k \in 1..n |-> k]

StreamInit ==
  /\ receive = "running" /\ accepted = 0 /\ audioQueue = <<>>
  /\ sender = "get" /\ sending = Nothing /\ sent = <<>>
  /\ line = "open"
  /\ emitted = 0 /\ eventQueue = <<>> /\ receiver = "running"
  /\ forward = "get" /\ handling = Nothing /\ forwarded = <<>>
  /\ finishSent = FALSE /\ run = "serving" /\ outcome = "none"

\* cleanup has cancelled the tasks that talk to the client, or they have ended.
Serving == run \notin {"cleanup", "closed"}

-------------------------------------------------------------------------------
(* _receive_client.                                                        *)

\* Mutation: the oldest chunk makes room for the new one.
ClientAudioDropsOldest ==
  /\ Serving /\ receive = "running"
  /\ accepted < MaxChunks
  /\ audioQueue' = Append(IF Len(audioQueue) < QueueSize THEN audioQueue ELSE Tail(audioQueue),
                          accepted + 1)
  /\ accepted' = accepted + 1
  /\ UNCHANGED <<receive, senderVars, receiverVars, forwardVars, runVars, eventQueue, line>>

\* send_audio; a full queue ends the session with SERVER_BACKPRESSURE.
ClientAudio ==
  /\ Serving /\ receive = "running"
  /\ accepted < MaxChunks
  /\ IF Len(audioQueue) < QueueSize
     THEN /\ audioQueue' = Append(audioQueue, accepted + 1)
          /\ accepted' = accepted + 1
          /\ UNCHANGED receive
     ELSE /\ receive' = "raised"
          /\ UNCHANGED <<audioQueue, accepted>>
  /\ UNCHANGED <<senderVars, receiverVars, forwardVars, runVars, eventQueue, line>>

\* session.stop; or the client is gone, silent for the heartbeat timeout, or
\* sends what it may not.
ClientEnds ==
  /\ Serving /\ receive = "running"
  /\ receive' \in {"returned", "raised"}
  /\ UNCHANGED <<accepted, senderVars, receiverVars, forwardVars, runVars,
                 audioQueue, eventQueue, line>>

-------------------------------------------------------------------------------
(* _sender_loop and _receiver_loop, which run until cancel.                *)

SenderGet ==
  /\ run # "closed" /\ sender = "get" /\ audioQueue # <<>>
  /\ audioQueue' = Tail(audioQueue)
  /\ IF Head(audioQueue) = End
     THEN sender' = "returned" /\ UNCHANGED sending
     ELSE sender' = "send" /\ sending' = Head(audioQueue)
  /\ UNCHANGED <<sent, clientVars, receiverVars, forwardVars, runVars, eventQueue, line>>

\* connection.send returns, or raises on a connection that is broken.
SenderSent ==
  /\ run # "closed" /\ sender = "send"
  /\ sending' = Nothing
  /\ IF line = "open"
     THEN sender' = "get" /\ sent' = Append(sent, sending)
     ELSE sender' = "raised" /\ UNCHANGED sent
  /\ UNCHANGED <<clientVars, receiverVars, forwardVars, runVars, audioQueue, eventQueue, line>>

\* Mutation: an exception that finds the queue full is lost.
QueueFailureIfRoom ==
  eventQueue' = IF Len(eventQueue) < QueueSize THEN Append(eventQueue, Failure) ELSE eventQueue

\* The handler of the loop: the oldest event makes room for the exception.
QueueFailure ==
  eventQueue' = Append(IF Len(eventQueue) < QueueSize THEN eventQueue ELSE Tail(eventQueue),
                       Failure)

\* Mutation: an event that finds the queue full is dropped.
QueueEventIfRoom(e) ==
  IF Len(eventQueue) < QueueSize
  THEN /\ eventQueue' = Append(eventQueue, e)
       /\ receiver' = IF e = Finished THEN "ended" ELSE receiver
  ELSE UNCHANGED <<eventQueue, receiver>>

\* The loop ends with session.finished, or with OUTPUT_QUEUE_FULL.
QueueEvent(e) ==
  IF Len(eventQueue) < QueueSize
  THEN /\ eventQueue' = Append(eventQueue, e)
       /\ receiver' = IF e = Finished THEN "ended" ELSE receiver
  ELSE /\ QueueFailure
       /\ receiver' = "ended"

\* An event arrives; those sent before the connection broke still do.
ReceiverEvent ==
  /\ run # "closed" /\ receiver = "running"
  /\ emitted < MaxEvents
  /\ emitted' = emitted + 1
  /\ QueueEvent(emitted + 1)
  /\ UNCHANGED <<clientVars, senderVars, forwardVars, runVars, audioQueue, line>>

ReceiverFinished ==
  /\ run # "closed" /\ receiver = "running"
  /\ QueueEvent(Finished)
  /\ UNCHANGED <<emitted, clientVars, senderVars, forwardVars, runVars, audioQueue, line>>

\* A frame that is no event, or, once it is broken, the end of the connection.
ReceiverInvalid ==
  /\ run # "closed" /\ receiver = "running"
  /\ receiver' = "ended"
  /\ QueueFailure
  /\ UNCHANGED <<emitted, clientVars, senderVars, forwardVars, runVars, audioQueue, line>>

ReceiverDisconnected == line = "broken" /\ ReceiverInvalid

LineBreaks ==
  /\ run # "closed" /\ line = "open"
  /\ line' = "broken"
  /\ UNCHANGED <<clientVars, senderVars, receiverVars, forwardVars, runVars,
                 audioQueue, eventQueue>>

-------------------------------------------------------------------------------
(* events() and _forward_upstream_events.                                  *)

ForwardGet ==
  /\ Serving /\ forward = "get" /\ eventQueue # <<>>
  /\ eventQueue' = Tail(eventQueue)
  /\ LET e == Head(eventQueue)
     IN  CASE e = Failure  -> forward' = "raised" /\ UNCHANGED handling
           [] e = Finished -> forward' = "returned" /\ UNCHANGED handling
           [] OTHER        -> forward' = "handle" /\ handling' = e
  /\ UNCHANGED <<forwarded, clientVars, senderVars, receiverVars, runVars, audioQueue, line>>

\* The client has been sent what the event says, or the handler raises: an
\* error event, an event out of order, a client that is gone.
ForwardHandled ==
  /\ Serving /\ forward = "handle"
  /\ handling' = Nothing
  /\ \/ forward' = "get" /\ forwarded' = Append(forwarded, handling)
     \/ forward' = "raised" /\ UNCHANGED forwarded
  /\ UNCHANGED <<clientVars, senderVars, receiverVars, runVars, audioQueue, eventQueue, line>>

ForwardEnded == forward \in {"returned", "raised"}

-------------------------------------------------------------------------------
(* run, and finish of the upstream session.                                *)

\* To the last frame for the client; the other tasks go on until cleanup.
Conclude(o) ==
  /\ run' = "report"
  /\ outcome' = o

\* asyncio.wait(FIRST_COMPLETED): the events come first, and their regular end
\* cancels _receive_client.  Sending session.completed may fail.
RunWakes ==
  /\ run = "serving"
  /\ \/ /\ forward = "returned"
        /\ receive' = IF receive = "running" THEN "raised" ELSE receive
        /\ \E o \in {"completed", "failed"} : Conclude(o)
     \/ /\ forward = "raised"
        /\ Conclude("failed")
        /\ UNCHANGED receive
     \/ /\ ~ForwardEnded /\ receive = "raised"
        /\ Conclude("failed")
        /\ UNCHANGED receive
     \/ /\ ~ForwardEnded /\ receive = "returned"
        /\ run' = "put"
        /\ UNCHANGED <<outcome, receive>>
  /\ UNCHANGED <<finishSent, accepted, senderVars, receiverVars, forwardVars,
                 audioQueue, eventQueue, line>>

\* Mutation: finish does not wait for the sender.
FinishPutsOnly ==
  /\ run = "put" /\ Len(audioQueue) < QueueSize
  /\ audioQueue' = Append(audioQueue, End)
  /\ run' = "finish"
  /\ UNCHANGED <<finishSent, outcome, clientVars, senderVars, receiverVars, forwardVars,
                 eventQueue, line>>

\* await self._audio_queue.put(None), which waits for room.
FinishPut ==
  /\ run = "put" /\ Len(audioQueue) < QueueSize
  /\ audioQueue' = Append(audioQueue, End)
  /\ run' = "join"
  /\ UNCHANGED <<finishSent, outcome, clientVars, senderVars, receiverVars, forwardVars,
                 eventQueue, line>>

\* await self._sender_task
FinishJoin ==
  /\ run = "join" /\ sender \in {"returned", "raised"}
  /\ IF sender = "returned" THEN run' = "finish" /\ UNCHANGED outcome ELSE Conclude("failed")
  /\ UNCHANGED <<finishSent, clientVars, senderVars, receiverVars, forwardVars,
                 audioQueue, eventQueue, line>>

FinishSend ==
  /\ run = "finish"
  /\ IF line = "open"
     THEN run' = "wait" /\ finishSent' = TRUE /\ UNCHANGED outcome
     ELSE Conclude("failed") /\ UNCHANGED finishSent
  /\ UNCHANGED <<clientVars, senderVars, receiverVars, forwardVars, audioQueue, eventQueue, line>>

\* Mutation: the end of the events is awaited without a timeout.
FinishWaitForEver ==
  /\ run = "wait" /\ ForwardEnded
  /\ IF forward = "returned"
     THEN \E o \in {"completed", "failed"} : Conclude(o)
     ELSE Conclude("failed")
  /\ UNCHANGED <<finishSent, clientVars, senderVars, receiverVars, forwardVars,
                 audioQueue, eventQueue, line>>

\* wait_for(events_task): it has ended, or it is cancelled after
\* livetranslate_session_finish_timeout_seconds.
FinishWait ==
  /\ run = "wait"
  /\ IF forward = "returned"
     THEN \E o \in {"completed", "failed"} : Conclude(o)
     ELSE Conclude("failed")
  /\ UNCHANGED <<finishSent, clientVars, senderVars, receiverVars, forwardVars,
                 audioQueue, eventQueue, line>>

\* session.completed or the error is sent; cleanup cancels the client's tasks.
Report ==
  /\ run = "report"
  /\ run' = "cleanup"
  /\ UNCHANGED <<finishSent, outcome, clientVars, senderVars, receiverVars, forwardVars,
                 audioQueue, eventQueue, line>>

\* cleanup has awaited the client's tasks; cancel ends the others, closes the
\* connection and drains the queues.
Cancel ==
  /\ run = "cleanup"
  /\ run' = "closed"
  /\ audioQueue' = <<>> /\ eventQueue' = <<>>
  /\ line' = "broken"
  /\ UNCHANGED <<finishSent, outcome, clientVars, senderVars, receiverVars, forwardVars>>

-------------------------------------------------------------------------------

\* What the event loop and timeouts bring about by themselves: a send returns
\* or raises, a broken connection is noticed (ping_timeout).
Internal ==
  \/ SenderGet \/ SenderSent \/ ReceiverDisconnected
  \/ ForwardGet \/ ForwardHandled
  \/ RunWakes \/ FinishPut \/ FinishJoin \/ FinishSend \/ FinishWait
  \/ Report \/ Cancel

\* What depends on the client and on the upstream.
External ==
  \/ ClientAudio \/ ClientEnds
  \/ ReceiverEvent \/ ReceiverFinished \/ ReceiverInvalid \/ LineBreaks

StreamNext == Internal \/ External

StreamSpec == StreamInit /\ [][StreamNext]_streamVars

\* No behaviour is endless, so one condition on the union is enough.
FairStreamSpec == StreamSpec /\ WF_streamVars(Internal)

-------------------------------------------------------------------------------

Chunk == 1..MaxChunks
Event == 1..MaxEvents

StreamTypeOK ==
  /\ receive \in {"running", "returned", "raised"}
  /\ accepted \in 0..MaxChunks
  /\ audioQueue \in Seq(Chunk \cup {End}) /\ Len(audioQueue) <= QueueSize
  /\ sender \in {"get", "send", "returned", "raised"}
  /\ sending \in Chunk \cup {Nothing}
  /\ sent \in Seq(Chunk)
  /\ line \in {"open", "broken"}
  /\ emitted \in 0..MaxEvents
  /\ eventQueue \in Seq(Event \cup {Finished, Failure}) /\ Len(eventQueue) <= QueueSize
  /\ receiver \in {"running", "ended"}
  /\ forward \in {"get", "handle", "returned", "raised"}
  /\ handling \in Event \cup {Nothing}
  /\ forwarded \in Seq(Event)
  /\ finishSent \in BOOLEAN
  /\ run \in {"serving", "put", "join", "finish", "wait", "report", "cleanup", "closed"}
  /\ outcome \in {"none", "completed", "failed"}

\* What the sender has taken from the queue last.
InHand ==
  CASE sender = "send"     -> <<sending>>
    [] sender = "returned" -> <<End>>
    [] OTHER               -> <<>>

(* The upstream hears what the client said: no chunk taken from the client *)
(* is lost, repeated or overtaken on its way through queue and sender,     *)
(* until the connection fails under a send; the end comes after them.      *)
AudioInOrder ==
  run # "closed" /\ sender # "raised" =>
    \E end \in {<<>>, <<End>>} : sent \o InHand \o audioQueue = UpTo(accepted) \o end

(* session.finish follows the last chunk: when it is sent, everything the  *)
(* client said before session.stop has been sent.                          *)
AudioBeforeFinish ==
  finishSent => receive = "returned" /\ sent = UpTo(accepted)

(* A session that reports its completion has handled every event that the  *)
(* upstream sent, in order: an event lost to a full queue fails it.        *)
CompletedHandledAll ==
  outcome = "completed" => forwarded = UpTo(emitted)

(* The task that handles the events never waits on a queue that nobody     *)
(* fills: whatever ended the receiver, the last thing in the queue says    *)
(* so, even if the queue was full.                                         *)
EndIsDelivered ==
  Serving /\ receiver = "ended" /\ ~ForwardEnded =>
    eventQueue # <<>> /\ eventQueue[Len(eventQueue)] \in {Finished, Failure}

(* session.stop ends the session, if there is room for the end of the      *)
(* audio: the sender empties the queue or fails, and the wait for the      *)
(* upstream's session.finished has a timeout.                              *)
StopEnds == (run = "put" /\ Len(audioQueue) < QueueSize) ~> run = "closed"

(* session.stop ends the session, as the tests expect even of an upstream  *)
(* that does not answer (test_livetranslate_gateway.py, finish_timeout).   *)
StopIsAnswered == run = "put" ~> run = "closed"

===============================================================================
