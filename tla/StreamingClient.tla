---------------------------- MODULE StreamingClient ----------------------------
(***************************************************************************)
(* A streaming session on the desktop:                                     *)
(*   streaming/controller.py              StreamingSessionController       *)
(*   streaming/microphone.py              StreamingMicrophone              *)
(*   streaming/player.py                  PCMStreamingPlayer               *)
(*   remote/streaming_gateway_client.py   StreamingGatewayClient           *)
(*   ui/workers.py                        StreamingWorker                  *)
(*                                                                         *)
(* Operating system threads: the worker's (main, in controller.run), the   *)
(* sender, the receiver, the player's writer and the callback of the       *)
(* microphone.  main, sender, receiver and writer name the statement the   *)
(* thread is at.  A step is one access to what other threads use, or some  *)
(* that follow each other and between which a step of another thread makes *)
(* no difference (README, StreamingClient).                                *)
(* Every wait of this code has a timeout: a thread that waits for another  *)
(* may give up at any time.  Chunks of captured audio are numbered.        *)
(***************************************************************************)
EXTENDS Naturals, Sequences

CONSTANTS CaptureMax,   \* size of the microphone's queue
          SendMax,      \* stream_send_queue_max_chunks
          PlaybackMax,  \* size of the player's queue
          MaxChunks,    \* bound: chunks the microphone captures
          MaxReplies,   \* bound: turns the gateway speaks
          MaxAudio      \* bound: audio frames of such a turn

ASSUME ClientAssumption ==
  /\ {CaptureMax, SendMax, PlaybackMax} \subseteq Nat \ {0}
  /\ {MaxChunks, MaxReplies, MaxAudio} \subseteq Nat

VARIABLES
  mode,         \* stream_capture_mode
  main,         \* thread of the worker
  outcome,      \* what run() comes to
  fellBack,     \* the HTTP pipeline was called
  finished,     \* the worker has emitted finished
  stop,         \* _stop
  sender,       \* sender thread
  senderError,  \* _sender_error is set
  receiver,     \* receiver thread
  receiverError,\* _receiver_error is set
  completed,    \* _completed
  streamed,     \* _streamed_audio_started
  mic,          \* the microphone's _stream is set: is_running
  loose,        \* who has a stream that captures and is not _stream
  captured,     \* chunks that were captured
  micq,         \* its queue
  dropped,      \* its dropped_chunks is not 0
  held,         \* chunk main has read
  sendq,        \* _send_queue
  sending,      \* chunk the sender has taken
  sent,         \* chunks the gateway was sent, in order
  link,         \* the connection
  stopSent,     \* session.stop was sent
  replies,      \* turns the gateway has begun to speak
  speaking,     \* such a turn has begun and not ended
  frames,       \* its audio frames
  writer,       \* writer thread
  queueSet,     \* the player's _queue is set
  playq,        \* that queue, as the writer holds it
  playerError,  \* the player's _error is set
  fed, played,  \* frames of the turn fed to the player, and written to the device
  buffered,     \* frames the writer holds back
  saved         \* last_turn_path is set

mainVars == <<main, outcome, fellBack, finished>>
recvVars == <<receiver, receiverError, completed, streamed>>
sendVars == <<sender, senderError, sending, sent>>
micVars  == <<mic, loose, captured, micq, dropped>>
gateVars == <<stopSent, replies, speaking, frames>>
playVars == <<writer, queueSet, playq, playerError, fed, played, buffered, saved>>
clientVars == <<mode, mainVars, stop, sendVars, recvVars, micVars, held, sendq, link,
                gateVars, playVars>>

-------------------------------------------------------------------------------

NoChunk == 0
LastChunk == 0      \* the None in the send queue
LastFrame == 0      \* the None in the player's queue

UpTo(n) == [i \in 1..n |-> i]

\* Threads that are not running.
Over == {"none", "ended", "joined", "dead"}

ClientInit ==
  /\ mode \in {"safe", "headphones"}
  /\ main = "open" /\ outcome = "none" /\ fellBack = FALSE
  /\ finished = FALSE /\ stop = FALSE
  /\ sender = "none" /\ senderError = FALSE /\ sending = NoChunk /\ sent = <<>>
  /\ receiver = "none" /\ receiverError = FALSE /\ completed = FALSE /\ streamed = FALSE
  /\ mic = FALSE /\ loose = {} /\ captured = 0 /\ micq = <<>> /\ dropped = FALSE
  /\ held = NoChunk /\ sendq = <<>>
  /\ link = "none" /\ stopSent = FALSE /\ replies = 0 /\ speaking = FALSE /\ frames = 0
  /\ writer = "none" /\ queueSet = FALSE /\ playq = <<>> /\ playerError = FALSE
  /\ fed = 0 /\ played = 0 /\ buffered = 0 /\ saved = FALSE

-------------------------------------------------------------------------------
(* The microphone's streams.  stop() first takes _stream away, so that the *)
(* microphone is not running any more, and then stops the stream, which    *)
(* captures until then; a stream that does not let itself be stopped may   *)
(* go on, and nobody has it.  start() puts a stream that captures already  *)
(* into _stream.                                                           *)

Capturing == mic \/ loose # {}

TakeStream(thread) ==
  mic' = FALSE /\ loose' = IF mic THEN loose \cup {thread} ELSE loose

StopStream(thread) == loose' = loose \ {thread}

StopRaises(thread) == loose' \in {loose \ {thread}, (loose \ {thread}) \cup {"nobody"}}

-------------------------------------------------------------------------------
(* The worker's thread: StreamingWorker.run and controller.run.            *)

\* client.open: the session is started, or no connection is made, or the handshake
\* on it fails: a connection that did not get to be _connection stays open.
OpenConnection ==
  /\ main = "open"
  /\ \/ link' = "open" /\ main' = "start" /\ UNCHANGED outcome
     \/ link' \in {"none", "abandoned"} /\ main' = "close" /\ outcome' = "failed"
  /\ UNCHANGED <<mode, fellBack, finished, stop, sendVars, recvVars, micVars, held, sendq, gateVars, playVars>>

\* The microphone starts, then the two threads; or it does not.
StartThreads ==
  /\ main = "start"
  /\ \/ mic' = TRUE /\ main' = "pump" /\ sender' = "get" /\ receiver' = "recv"
     \/ main' = "except" /\ UNCHANGED <<mic, sender, receiver>>
  /\ UNCHANGED <<mode, outcome, fellBack, finished, stop, senderError, sending, sent, receiverError,
                 completed, streamed, loose, captured, micq, dropped, held, sendq, link, gateVars,
                 playVars>>

StopAsked == stop \/ receiverError \/ senderError

\* _capture_pump_loop: read with a timeout.
Pump ==
  /\ main = "pump" /\ ~StopAsked
  /\ \/ micq # <<>> /\ held' = Head(micq) /\ micq' = Tail(micq) /\ main' = "put"
     \/ micq = <<>> /\ dropped /\ main' = "except" /\ UNCHANGED <<held, micq>>
  /\ UNCHANGED <<mode, outcome, fellBack, finished, stop, sendVars, recvVars, mic, loose, captured,
                 dropped, sendq, link, gateVars, playVars>>

\* Mutation: the loop does not look for chunks that were dropped.
PutUnchecked ==
  /\ main = "put"
  /\ IF Len(sendq) < SendMax
     THEN sendq' = Append(sendq, held) /\ main' = "pump"
     ELSE main' = "except" /\ UNCHANGED sendq
  /\ held' = NoChunk
  /\ UNCHANGED <<mode, outcome, fellBack, finished, stop, sendVars, recvVars, micVars, link, gateVars, playVars>>

\* The chunk is queued for the sender; a full queue, or a chunk that was dropped
\* before, ends the session.
Put ==
  /\ main = "put"
  /\ IF Len(sendq) < SendMax
     THEN sendq' = Append(sendq, held) /\ main' = IF dropped THEN "except" ELSE "pump"
     ELSE main' = "except" /\ UNCHANGED sendq
  /\ held' = NoChunk
  /\ UNCHANGED <<mode, outcome, fellBack, finished, stop, sendVars, recvVars, micVars, link, gateVars, playVars>>

\* The loop ends: the microphone is stopped, unless the receiver has done so.
StopMicrophone ==
  /\ main = "pump" /\ StopAsked
  /\ TakeStream("main") /\ main' = IF mic THEN "halt" ELSE "finish"
  /\ UNCHANGED <<mode, outcome, fellBack, finished, stop, sendVars, recvVars, captured, micq, dropped,
                 held, sendq, link, gateVars, playVars>>

Halt ==
  /\ main = "halt"
  /\ \/ StopStream("main") /\ main' = "finish"
     \/ StopRaises("main") /\ main' = "except"
  /\ UNCHANGED <<mode, outcome, fellBack, finished, stop, sendVars, recvVars, mic, captured, micq,
                 dropped, held, sendq, link, gateVars, playVars>>

\* Mutation: the end is put into the queue without a timeout.
FinishSenderWaits ==
  /\ main = "finish"
  /\ IF receiverError THEN main' = "except" /\ UNCHANGED sendq
     ELSE /\ Len(sendq) < SendMax
          /\ sendq' = Append(sendq, LastChunk) /\ main' = "join_sender"
  /\ UNCHANGED <<mode, outcome, fellBack, finished, stop, sendVars, recvVars, micVars, held, link,
                 gateVars, playVars>>

\* _finish_sender: None behind the chunks, when there is room within a second.
FinishSender ==
  /\ main = "finish"
  /\ IF ~receiverError /\ Len(sendq) < SendMax
     THEN sendq' = Append(sendq, LastChunk) /\ main' = "join_sender"
     ELSE main' = "except" /\ UNCHANGED sendq
  /\ UNCHANGED <<mode, outcome, fellBack, finished, stop, sendVars, recvVars, micVars, held, link,
                 gateVars, playVars>>

\* Mutation: a sender that is late is not waited for.
JoinSenderBriefly ==
  /\ main = "join_sender"
  /\ main' = IF senderError THEN "except" ELSE "send_stop"
  /\ UNCHANGED <<mode, outcome, fellBack, finished, stop, sendVars, recvVars, micVars, held, sendq,
                 link, gateVars, playVars>>

\* The sender is waited for; an error of its own, or its being late, ends the session.
JoinSender ==
  /\ main = "join_sender"
  /\ IF sender = "ended" /\ ~senderError
     THEN sender' = "joined" /\ main' = "send_stop"
     ELSE main' = "except" /\ UNCHANGED sender
  /\ UNCHANGED <<mode, outcome, fellBack, finished, stop, senderError, sending, sent, recvVars,
                 micVars, held, sendq, link, gateVars, playVars>>

SendStop ==
  /\ main = "send_stop"
  /\ \/ link = "open" /\ stopSent' = TRUE /\ main' = "join_receiver"
     \/ link = "broken" /\ main' = "except" /\ UNCHANGED stopSent
  /\ UNCHANGED <<mode, outcome, fellBack, finished, stop, sendVars, recvVars, micVars, held, sendq,
                 link, replies, speaking, frames, playVars>>

\* The receiver is waited for: late, failed, or done with session.completed.
JoinReceiver ==
  /\ main = "join_receiver"
  /\ IF receiver = "ended" /\ ~receiverError /\ completed
     THEN main' = "close" /\ outcome' = "completed"
     ELSE main' = "except" /\ UNCHANGED outcome
  /\ UNCHANGED <<mode, fellBack, finished, stop, sendVars, recvVars, micVars, held, sendq, link,
                 gateVars, playVars>>

\* The handler of run(): a microphone that runs is stopped.
Except ==
  /\ main = "except"
  /\ TakeStream("main") /\ main' = IF mic THEN "except_halt" ELSE "cancel"
  /\ outcome' = "failed"
  /\ UNCHANGED <<mode, fellBack, finished, stop, sendVars, recvVars, captured, micq, dropped, held,
                 sendq, link, gateVars, playVars>>

\* An error of the microphone leaves the handler: no fallback, and the sender is
\* cancelled by the finally of run(), if it is alive.
ExceptHalt ==
  /\ main = "except_halt"
  /\ \/ StopStream("main") /\ main' = "cancel"
     \/ StopRaises("main") /\ main' = IF sender \in Over THEN "close" ELSE "last_drain"
  /\ UNCHANGED <<mode, outcome, fellBack, finished, stop, sendVars, recvVars, mic, captured, micq,
                 dropped, held, sendq, link, gateVars, playVars>>

\* _cancel_sender, unless the sender was joined, empties the queue under the sender's
\* hands and ends it.
CancelSender ==
  /\ main = "cancel"
  /\ main' = IF sender \in {"none", "joined"} THEN "decide" ELSE "drain"
  /\ UNCHANGED <<mode, outcome, fellBack, finished, stop, sendVars, recvVars, micVars, held, sendq,
                 link, gateVars, playVars>>

Drain ==
  /\ main \in {"drain", "last_drain"}
  /\ IF sendq # <<>> THEN sendq' = Tail(sendq) /\ UNCHANGED main
     ELSE /\ sendq' = <<LastChunk>>
          /\ main' = IF main = "drain" THEN "join_cancelled" ELSE "last_join"
  /\ UNCHANGED <<mode, outcome, fellBack, finished, stop, sendVars, recvVars, micVars, held, link,
                 gateVars, playVars>>

JoinCancelled ==
  /\ main \in {"join_cancelled", "last_join"}
  /\ main' = IF main = "join_cancelled" THEN "decide" ELSE "close"
  /\ UNCHANGED <<mode, outcome, fellBack, finished, stop, sendVars, recvVars, micVars, held, sendq,
                 link, gateVars, playVars>>

\* No fallback once streamed audio has begun.
DecideFallback ==
  /\ main = "decide"
  /\ main' = IF streamed THEN "close" ELSE "fallback"
  /\ UNCHANGED <<mode, outcome, fellBack, finished, stop, sendVars, recvVars, micVars, held, sendq,
                 link, gateVars, playVars>>

\* What was captured goes through the HTTP pipeline and is played; nothing captured is
\* an error, and the pipeline may fail.
Fallback ==
  /\ main = "fallback"
  /\ fellBack' = (captured > 0)
  /\ outcome' \in {"failed"} \cup (IF captured > 0 THEN {"fallback"} ELSE {})
  /\ main' = "close"
  /\ UNCHANGED <<mode, finished, stop, sendVars, recvVars, micVars, held, sendq, link, gateVars,
                 playVars>>

\* The finally of run(); a worker whose player has saved a turn has finished.
CloseConnection ==
  /\ main = "close"
  /\ link' = IF link \in {"open", "broken"} THEN "closed" ELSE link
  /\ main' = IF saved THEN "done" ELSE "cleanup"
  /\ finished' = saved
  /\ UNCHANGED <<mode, outcome, fellBack, stop, sendVars, recvVars, micVars, held, sendq,
                 gateVars, playVars>>

\* stop_turn of the player up to the join: the queue is taken, None goes behind the
\* frames; in a queue that stays full it takes the place of the oldest frame, which
\* is an error.
TakeQueue ==
  /\ queueSet' = FALSE
  /\ \/ ~queueSet /\ UNCHANGED <<playq, playerError>>
     \/ /\ queueSet /\ Len(playq) < PlaybackMax
        /\ playq' = Append(playq, LastFrame) /\ UNCHANGED playerError
     \/ /\ queueSet /\ Len(playq) = PlaybackMax
        /\ playq' = Append(Tail(playq), LastFrame) /\ playerError' = TRUE

\* The finally of the worker when no turn was saved: the player's cleanup stops the
\* turn that may be playing.
CleanupPlayer ==
  /\ main = "cleanup" /\ TakeQueue
  /\ main' = IF queueSet THEN "join_player" ELSE "check_player"
  /\ UNCHANGED <<mode, outcome, fellBack, finished, stop, sendVars, recvVars, micVars, held,
                 sendq, link, gateVars, writer, fed, played, buffered, saved>>

\* A writer that is late, or an error of the turn that was left behind, is raised past
\* the signal.
CleanupEnds ==
  /\ main \in {"join_player", "check_player"}
  /\ finished' = ((main = "join_player" => writer \in Over) /\ ~playerError)
  /\ main' = "done"
  /\ UNCHANGED <<mode, outcome, fellBack, stop, sendVars, recvVars, micVars, held, sendq,
                 link, gateVars, playVars>>

\* The user presses stop.
PressStop ==
  /\ main # "open" /\ main # "done" /\ ~stop
  /\ stop' = TRUE
  /\ UNCHANGED <<mode, mainVars, sendVars, recvVars, micVars, held, sendq, link, gateVars, playVars>>

-------------------------------------------------------------------------------
(* The microphone, the sender and the connection.                          *)

\* _audio_callback: a full queue drops the chunk.
Capture ==
  /\ Capturing /\ captured < MaxChunks
  /\ captured' = captured + 1
  /\ IF Len(micq) < CaptureMax THEN micq' = Append(micq, captured') /\ UNCHANGED dropped
     ELSE dropped' = TRUE /\ UNCHANGED micq
  /\ UNCHANGED <<mode, mainVars, stop, sendVars, recvVars, mic, loose, held, sendq, link, gateVars,
                 playVars>>

SenderTakes ==
  /\ sender = "get" /\ sendq # <<>>
  /\ sendq' = Tail(sendq) /\ sending' = Head(sendq)
  /\ sender' = IF Head(sendq) = LastChunk THEN "ended" ELSE "send"
  /\ UNCHANGED <<mode, mainVars, stop, senderError, sent, recvVars, micVars, held, link,
                 gateVars, playVars>>

SenderSends ==
  /\ sender = "send" /\ link = "open"
  /\ sent' = Append(sent, sending) /\ sending' = NoChunk /\ sender' = "get"
  /\ UNCHANGED <<mode, mainVars, stop, senderError, recvVars, micVars, held, sendq, link,
                 gateVars, playVars>>

\* A chunk, or a ping when there is none, meets a connection that is gone.
SenderFails ==
  /\ sender = "send" \/ (sender = "get" /\ sendq = <<>>)
  /\ link # "open"
  /\ sender' = "ended" /\ senderError' = TRUE /\ stop' = TRUE /\ sending' = NoChunk
  /\ UNCHANGED <<mode, mainVars, sent, recvVars, micVars, held, sendq, link, gateVars, playVars>>

ConnectionBreaks ==
  /\ link = "open" /\ link' = "broken"
  /\ UNCHANGED <<mode, mainVars, stop, sendVars, recvVars, micVars, held, sendq, gateVars, playVars>>

-------------------------------------------------------------------------------
(* The receiver, and what the gateway sends.                               *)

ReceiverRaises == receiver' = "ended" /\ receiverError' = TRUE /\ stop' = TRUE

\* No message in time, an error from the gateway, or the end of the connection.
ReceiveFails ==
  /\ receiver = "recv" /\ ReceiverRaises
  /\ UNCHANGED <<mode, mainVars, sendVars, completed, streamed, micVars, held, sendq, link,
                 gateVars, playVars>>

\* Mutation: playback begins while the microphone runs.
ReceiveStartWithMicrophone ==
  /\ receiver = "recv" /\ link = "open" /\ ~speaking /\ replies < MaxReplies
  /\ replies' = replies + 1 /\ speaking' = TRUE /\ frames' = 0
  /\ receiver' = "start_turn"
  /\ UNCHANGED <<mode, mainVars, stop, sendVars, receiverError, completed, streamed, micVars,
                 held, sendq, link, stopSent, playVars>>

\* tts.audio.start: in safe mode a microphone that runs is stopped before playback,
ReceiveStart ==
  /\ receiver = "recv" /\ link = "open" /\ ~speaking /\ replies < MaxReplies
  /\ replies' = replies + 1 /\ speaking' = TRUE /\ frames' = 0
  /\ receiver' = IF mode = "safe" /\ mic THEN "stop_mic" ELSE "start_turn"
  /\ UNCHANGED <<mode, mainVars, stop, sendVars, receiverError, completed, streamed, micVars,
                 held, sendq, link, stopSent, playVars>>

\* if the worker has not taken its stream meanwhile,
PauseMicrophone ==
  /\ receiver = "stop_mic"
  /\ TakeStream("receiver") /\ receiver' = IF mic THEN "halt_mic" ELSE "clear_mic"
  /\ UNCHANGED <<mode, mainVars, stop, sendVars, receiverError, completed, streamed, captured, micq,
                 dropped, held, sendq, link, gateVars, playVars>>

PauseHalts ==
  /\ receiver = "halt_mic"
  /\ \/ StopStream("receiver") /\ receiver' = "clear_mic" /\ UNCHANGED <<receiverError, stop>>
     \/ StopRaises("receiver") /\ ReceiverRaises
  /\ UNCHANGED <<mode, mainVars, sendVars, completed, streamed, mic, captured, micq, dropped, held,
                 sendq, link, gateVars, playVars>>

\* and what waits in its queue is thrown away.
ClearPending ==
  /\ receiver = "clear_mic"
  /\ \/ micq # <<>> /\ micq' = Tail(micq) /\ UNCHANGED receiver
     \/ micq = <<>> /\ receiver' = "start_turn" /\ UNCHANGED micq
  /\ UNCHANGED <<mode, mainVars, stop, sendVars, receiverError, completed, streamed, mic, loose,
                 captured, dropped, held, sendq, link, gateVars, playVars>>

\* A frame of audio: playback has begun.
ReceiveAudio ==
  /\ receiver = "recv" /\ link = "open" /\ speaking /\ frames < MaxAudio
  /\ frames' = frames + 1
  /\ streamed' = TRUE /\ receiver' = "feed"
  /\ UNCHANGED <<mode, mainVars, stop, sendVars, receiverError, completed, micVars, held,
                 sendq, link, stopSent, replies, speaking, playVars>>

\* tts.audio.end.
ReceiveEnd ==
  /\ receiver = "recv" /\ link = "open" /\ speaking /\ frames > 0
  /\ speaking' = FALSE /\ receiver' = "stop_turn"
  /\ UNCHANGED <<mode, mainVars, stop, sendVars, receiverError, completed, streamed, micVars,
                 held, sendq, link, stopSent, replies, frames, playVars>>

\* session.completed, which answers session.stop.
ReceiveCompleted ==
  /\ receiver = "recv" /\ link = "open" /\ stopSent /\ ~speaking
  /\ completed' = TRUE /\ receiver' = "ended"
  /\ UNCHANGED <<mode, mainVars, stop, sendVars, receiverError, streamed, micVars, held, sendq,
                 link, gateVars, playVars>>

\* tts.audio.end is handled: in safe mode, unless a stop was asked for, the microphone
\* is to start again.
AfterTurn ==
  /\ receiver = "after_turn"
  /\ receiver' = IF mode = "safe" /\ ~stop THEN "restart" ELSE "recv"
  /\ UNCHANGED <<mode, mainVars, stop, sendVars, receiverError, completed, streamed, micVars,
                 held, sendq, link, gateVars, playVars>>

RestartMicrophone ==
  /\ receiver = "restart"
  /\ \/ /\ ~mic /\ loose' = loose \cup {"receiver"} /\ receiver' = "assign_mic"
        /\ UNCHANGED <<receiverError, stop>>
     \/ ReceiverRaises /\ UNCHANGED loose
  /\ UNCHANGED <<mode, mainVars, sendVars, completed, streamed, mic, captured, micq, dropped, held,
                 sendq, link, gateVars, playVars>>

AssignMicrophone ==
  /\ receiver = "assign_mic" /\ receiver' = "recv"
  /\ mic' = TRUE /\ loose' = loose \ {"receiver"}
  /\ UNCHANGED <<mode, mainVars, stop, sendVars, receiverError, completed, streamed, captured, micq,
                 dropped, held, sendq, link, gateVars, playVars>>

-------------------------------------------------------------------------------
(* The player, called by the receiver, and its writer thread.              *)

\* start_turn: an error that was left behind is raised; else a new queue and a new writer.
StartTurn ==
  /\ receiver = "start_turn"
  /\ \/ playerError /\ ReceiverRaises
        /\ UNCHANGED <<queueSet, playq, playerError, fed, played, buffered, writer>>
     \/ /\ ~playerError /\ receiver' = "recv" /\ writer' = "begin"
        /\ queueSet' = TRUE /\ playq' = <<>> /\ fed' = 0 /\ played' = 0 /\ buffered' = 0
        /\ UNCHANGED <<receiverError, stop, playerError>>
  /\ UNCHANGED <<mode, mainVars, sendVars, completed, streamed, micVars, held, sendq, link,
                 gateVars, saved>>

\* feed: refused without a queue; a queue that stays full for a second is an error.
Feed ==
  /\ receiver = "feed"
  /\ \/ /\ queueSet /\ Len(playq) < PlaybackMax
        /\ playq' = Append(playq, fed + 1) /\ fed' = fed + 1 /\ receiver' = "recv"
        /\ UNCHANGED <<receiverError, stop>>
     \/ /\ ~queueSet \/ Len(playq) = PlaybackMax
        /\ ReceiverRaises /\ UNCHANGED <<playq, fed>>
  /\ UNCHANGED <<mode, mainVars, sendVars, completed, streamed, micVars, held, sendq, link,
                 gateVars, writer, queueSet, playerError, played, buffered, saved>>

\* tts.audio.end is handled: stop_turn.
StopTurn ==
  /\ receiver = "stop_turn" /\ TakeQueue
  /\ receiver' = IF queueSet THEN "join_writer" ELSE "check_writer"
  /\ UNCHANGED <<mode, mainVars, stop, sendVars, receiverError, completed, streamed, micVars,
                 held, sendq, link, gateVars, writer, fed, played, buffered, saved>>

\* The writer is waited for; it may be late, or have failed.
JoinWriter ==
  /\ receiver \in {"join_writer", "check_writer"}
  /\ IF (receiver = "join_writer" => writer \in Over) /\ ~playerError
     THEN saved' = TRUE /\ receiver' = "after_turn" /\ UNCHANGED <<receiverError, stop>>
     ELSE ReceiverRaises /\ UNCHANGED saved
  /\ UNCHANGED <<mode, mainVars, sendVars, completed, streamed, micVars, held, sendq, link,
                 gateVars, writer, queueSet, playq, playerError, fed, played, buffered>>

\* The writer's first statement asserts that there is a queue.
WriterBegins ==
  /\ writer = "begin"
  /\ writer' = IF queueSet THEN "open" ELSE "dead"
  /\ UNCHANGED <<mode, mainVars, stop, sendVars, recvVars, micVars, held, sendq, link, gateVars,
                 queueSet, playq, playerError, fed, played, buffered, saved>>

\* It keeps the queue, if that was not taken meanwhile, and opens the device.
WriterOpens ==
  /\ writer = "open"
  /\ \/ queueSet /\ writer' = "get" /\ UNCHANGED playerError
     \/ writer' = "ended" /\ playerError' = TRUE
  /\ UNCHANGED <<mode, mainVars, stop, sendVars, recvVars, micVars, held, sendq, link, gateVars,
                 queueSet, playq, fed, played, buffered, saved>>

\* Mutation: the end ends the thread, whatever it holds back.
WriterForgetsRest ==
  /\ writer = "get" /\ playq # <<>>
  /\ playq' = Tail(playq)
  /\ IF Head(playq) = LastFrame
     THEN writer' = "ended" /\ UNCHANGED buffered
     ELSE buffered' = buffered + 1 /\ writer' \in {"get", "write"}
  /\ UNCHANGED <<mode, mainVars, stop, sendVars, recvVars, micVars, held, sendq, link, gateVars,
                 queueSet, playerError, fed, played, saved>>

\* Frames, of any size, are held back until there are enough of them, or the end comes.
WriterTakes ==
  /\ writer = "get" /\ playq # <<>>
  /\ playq' = Tail(playq)
  /\ IF Head(playq) = LastFrame
     THEN writer' = (IF buffered > 0 THEN "flush" ELSE "ended") /\ UNCHANGED buffered
     ELSE buffered' = buffered + 1 /\ writer' \in {"get", "write"}
  /\ UNCHANGED <<mode, mainVars, stop, sendVars, recvVars, micVars, held, sendq, link, gateVars,
                 queueSet, playerError, fed, played, saved>>

\* They are written, or the device fails.
WriterWrites ==
  /\ writer \in {"write", "flush"}
  /\ \/ /\ played' = played + buffered /\ buffered' = 0
        /\ writer' = IF writer = "write" THEN "get" ELSE "ended"
        /\ UNCHANGED playerError
     \/ writer' = "ended" /\ playerError' = TRUE /\ UNCHANGED <<played, buffered>>
  /\ UNCHANGED <<mode, mainVars, stop, sendVars, recvVars, micVars, held, sendq, link, gateVars,
                 queueSet, playq, fed, saved>>

-------------------------------------------------------------------------------

MainNext ==
  \/ OpenConnection \/ StartThreads \/ Pump \/ Put \/ StopMicrophone \/ Halt \/ FinishSender
  \/ JoinSender \/ SendStop \/ JoinReceiver \/ Except \/ ExceptHalt \/ CancelSender \/ Drain
  \/ JoinCancelled \/ DecideFallback \/ Fallback \/ CloseConnection \/ CleanupPlayer \/ CleanupEnds

ReceiverNext ==
  \/ ReceiveFails \/ ReceiveStart \/ PauseMicrophone \/ PauseHalts \/ ClearPending
  \/ ReceiveAudio \/ ReceiveEnd \/ ReceiveCompleted
  \/ AfterTurn \/ RestartMicrophone \/ AssignMicrophone \/ StartTurn \/ Feed \/ StopTurn \/ JoinWriter

ThreadsNext ==
  MainNext \/ SenderTakes \/ SenderSends \/ SenderFails \/ ReceiverNext
  \/ WriterBegins \/ WriterOpens \/ WriterTakes \/ WriterWrites

ClientNext == ThreadsNext \/ PressStop \/ Capture \/ ConnectionBreaks

ClientSpec == ClientInit /\ [][ClientNext]_clientVars

\* The operating system runs the worker's thread.
FairClientSpec == ClientSpec /\ WF_clientVars(MainNext)

-------------------------------------------------------------------------------
(* Properties.                                                             *)

\* In headphones mode the gateway hears the microphone without a gap, however the
\* callback, the pump and the sender overtake each other: a session that dropped a
\* chunk never sends a later one, and a session that completes has sent all that was
\* read.  Only a session that has failed, or fallen back on the HTTP pipeline, may skip
\* chunks: its queue is emptied under the sender's hands.
HeardWithoutGap ==
  mode = "headphones" =>
    /\ outcome \in {"none", "completed"} => sent = UpTo(Len(sent))
    /\ outcome = "completed" => sendq = <<>> /\ sending = NoChunk

\* The worker has begun to clean up the player, which a late receiver may still use.
PlayerTaken == main \in {"join_player", "check_player", "done"}

\* In safe mode a turn is played only after its microphone was told to stop, and nobody
\* starts it again before the writer is over, until the worker takes the player from a
\* receiver that is late: what may still capture is a stream that the worker is about to
\* stop (see SafeModeIsHalfDuplex), or one that did not let itself be stopped.
PlaybackPausesMicrophone ==
  mode = "safe" /\ writer \notin Over /\ ~PlayerTaken => ~mic /\ "receiver" \notin loose

\* "Safe Mode (pauses the microphone during playback)", as the window says: nothing is
\* captured while speech is written to the device.
SafeModeIsHalfDuplex == mode = "safe" /\ writer \in {"write", "flush"} => ~Capturing

\* A turn that was ended without an error was written to the device in full, what the
\* writer held back included, unless the writer began only after the end (see
\* EveryTurnIsPlayed) or the worker has stopped playback meanwhile.
EndedTurnIsPlayed ==
  receiver = "after_turn" /\ writer # "dead" /\ ~PlayerTaken => played = fed

\* The same of every turn: the writer asserts that it finds its queue, and a turn that
\* is fed and ended at once is expected to be played.
EveryTurnIsPlayed == receiver = "after_turn" /\ ~PlayerTaken => played = fed

\* A session that completes leaves nothing at work: threads, connection and, but for
\* a restart after playback that overlaps the stop in safe mode, what captures.
CompletedIsQuiet ==
  main = "done" /\ outcome = "completed" =>
    /\ sender \in Over /\ receiver \in Over /\ writer \in Over
    /\ link = "closed" /\ (Capturing => mode = "safe")

\* However the connection, the threads and the queues stand, a stop that was asked
\* for ends the worker's run: none of its waits is without an end.
StopReturns == stop ~> main = "done"

===============================================================================
