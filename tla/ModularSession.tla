---------------------------- MODULE ModularSession ----------------------------
(***************************************************************************)
(* A modular streaming session of the gateway: recognition, translation    *)
(* and synthesis of the turns the detector finds in the client's audio.    *)
(*   server/app/streaming/session.py            StreamingSession           *)
(*   server/app/providers/realtime_asr.py       the recognizer             *)
(*   server/app/providers/streaming_translation.py   the translator        *)
(*   server/app/providers/streaming_tts.py      the synthesizer            *)
(*                                                                         *)
(* The asyncio tasks: run (main) with its group of receive loop (rx),      *)
(* audio loop (audio) and turn loop (turn); the recognition events task    *)
(* (asrTask); the two tasks of a turn that feed text to the synthesizer    *)
(* (text) and forward its audio (voice).  Other threads: the SDKs          *)
(* (recognizer, synth) and the thread that translates (producer).  A step  *)
(* runs from one await to the next; a message to the client is sent in the *)
(* step that follows from it.                                              *)
(***************************************************************************)
EXTENDS Naturals, Sequences

CONSTANTS InputMax,      \* stream_audio_queue_max_chunks: the client's audio
          TurnMax,       \* stream_turn_queue_max: recognized turns
          TextMax,       \* stream_tts_text_queue_max: text segments
          EventMax,      \* size of the providers' event queues
          DeltaMax,      \* size of the translator's queue
          Deltas,        \* bound: deltas of a translation
          MaxTurns,      \* bound: turns in the client's audio
          MaxEvents      \* bound: texts of a recognizer, audio chunks of a synthesizer

ASSUME ModularAssumption ==
  /\ {InputMax, TurnMax, TextMax, EventMax, DeltaMax, Deltas} \subseteq Nat \ {0}
  /\ {MaxTurns, MaxEvents} \subseteq Nat

VARIABLES
  connected,   \* the client's WebSocket is up
  told,        \* what the client was told of the end of the session
  rx,          \* receive loop
  input,       \* input_queue
  main,        \* run
  errors,      \* kinds of the exceptions in the task group
  struck,      \* run was cancelled from outside (session deadline)
  audio,       \* audio loop: the await it is suspended at
  todo,        \* events of the detector it has yet to handle
  draining,    \* it has met the end of the input
  inTurn,      \* _active_turn and _active_asr are set
  begun,       \* turns begun
  recognizer,  \* SDK side of the recognizer
  finished,    \* its _finished
  asrq,        \* its event queue
  asrOver,     \* its _overflowed
  texts,       \* texts it has given
  asrTask,     \* recognition events task
  words,       \* that task has seen text
  turns,       \* turn_queue
  turn,        \* turn loop
  current,     \* the turn it works on
  outcome,     \* outcome[t]: what became of turn t
  ttsActive,   \* _active_tts is set
  producer,    \* thread of the translator
  given,       \* deltas it has put
  tq,          \* translator's queue, with the puts that wait for room
  held,        \* deltas the segmenter holds
  segments,    \* tts_text_queue
  text,        \* text task
  spoken,      \* deltas sent to the synthesizer, in order
  synth,       \* SDK side of the synthesizer
  ttsq,        \* its event queue
  ttsOver,     \* its _overflowed
  made,        \* audio chunks it has made
  voice,       \* audio task
  aired        \* chunks sent to the client, in order

clientVars == <<connected, told>>
inputVars  == <<rx, input>>
runVars    == <<main, errors, struck>>
audioVars  == <<audio, todo, draining, inTurn, begun>>
asrVars    == <<recognizer, finished, asrq, asrOver, texts, asrTask, words>>
turnVars   == <<turns, turn, current, outcome, ttsActive>>
transVars  == <<producer, given, tq, held>>
textVars   == <<segments, text, spoken>>
ttsVars    == <<synth, ttsq, ttsOver, made, voice, aired>>
vars == <<clientVars, inputVars, runVars, audioVars, asrVars, turnVars, transVars,
          textVars, ttsVars>>

-------------------------------------------------------------------------------
(* Operators.                                                              *)

\* What a provider puts in its queue: n numbers the deltas and the chunks of audio.
Item(kind, n) == [kind |-> kind, n |-> n]
Mark(kind) == Item(kind, 0)

\* The None that closes the queue of chunks, of turns and of text segments.
EndOfInput == "end"
EndOfTurns == 0
EndOfText  == <<>>

Upto(n) == [i \in 1..n |-> i]

\* _offer of both providers: the first event that finds the queue full takes
\* the place of the oldest as an error; those that find it full later are lost.
Offer(q, over, event) ==
  IF Len(q) < EventMax THEN Append(q, event)
  ELSE IF over THEN q ELSE Append(Tail(q), Mark("error"))

\* What a chunk of audio may be to the detector (TurnVAD), by whether it is in a turn;
\* more events of one chunk are as good as those of the chunks that follow.
Detected(active) ==
  IF active THEN {<<>>, <<"audio">>, <<"audio", "stop">>}
  ELSE IF begun < MaxTurns THEN {<<>>, <<"start">>} ELSE {<<>>}

\* Where the audio loop goes when it has handled an event.
Then(rest, drain) ==
  IF rest # <<>> THEN Head(rest) ELSE IF drain THEN "done" ELSE "get"

InGroup == {"receiver", "put_input", "audio", "put_turn", "turns"}

Cancelling == errors # {} \/ struck

Ended(task) == task \in {"done", "failed", "cancelled"}

\* The task group lets its tasks run.
GroupRuns == main \in InGroup /\ ~Cancelling

Raises(kind) == errors' = errors \cup {kind}

\* A send to a client that is gone raises, or is lost before anybody notices.
SendMayFail == ~connected

-------------------------------------------------------------------------------

Init ==
  /\ connected = TRUE /\ told = "nothing"
  /\ rx = "receiving" /\ input = <<>>
  /\ main = "receiver" /\ errors = {} /\ struck = FALSE
  /\ audio = "get" /\ todo = <<>> /\ draining = FALSE /\ inTurn = FALSE /\ begun = 0
  /\ recognizer = "none" /\ finished = FALSE /\ asrq = <<>> /\ asrOver = FALSE
  /\ texts = 0 /\ asrTask = "none" /\ words = FALSE
  /\ turns = <<>> /\ turn = "get" /\ current = 0 /\ ttsActive = FALSE
  /\ outcome = [t \in 1..MaxTurns |-> "none"]
  /\ producer = "ended" /\ given = 0 /\ tq = <<>> /\ held = <<>>
  /\ segments = <<>> /\ text = "none" /\ spoken = <<>>
  /\ synth = "none" /\ ttsq = <<>> /\ ttsOver = FALSE /\ made = 0 /\ voice = "none"
  /\ aired = <<>>

-------------------------------------------------------------------------------
(* The client and the receive loop.                                        *)

\* Later it makes no difference but to what the client is told.
Disconnect ==
  /\ GroupRuns /\ connected
  /\ connected' = FALSE
  /\ UNCHANGED <<told, inputVars, runVars, audioVars, asrVars, turnVars, transVars,
                 textVars, ttsVars>>

\* A chunk goes in the queue, or ends the session when the queue is full.
ReceiveAudio ==
  /\ GroupRuns /\ rx = "receiving" /\ connected
  /\ IF Len(input) < InputMax
     THEN input' = Append(input, "chunk") /\ UNCHANGED <<rx, errors>>
     ELSE Raises("protocol") /\ rx' = "failed" /\ UNCHANGED input
  /\ UNCHANGED <<clientVars, main, struck, audioVars, asrVars, turnVars, transVars,
                 textVars, ttsVars>>

\* session.stop ends the loop; a message it must not get, an oversized frame or
\* a heartbeat that does not come fail it; so does the end of the connection.
ReceiveLast ==
  /\ GroupRuns /\ rx = "receiving"
  /\ \/ connected /\ rx' = "done" /\ UNCHANGED errors
     \/ rx' = "failed" /\ Raises("protocol")
     \/ ~connected /\ rx' = "failed" /\ Raises("disconnect")
  /\ UNCHANGED <<clientVars, input, main, struck, audioVars, asrVars, turnVars, transVars,
                 textVars, ttsVars>>

-------------------------------------------------------------------------------
(* The audio loop.                                                         *)

\* The next chunk is fed to the detector; the end of the input flushes it.
TakeChunk ==
  /\ GroupRuns /\ audio = "get" /\ input # <<>>
  /\ input' = Tail(input)
  /\ IF Head(input) = EndOfInput
     THEN draining' = TRUE /\ todo' = IF inTurn THEN <<"stop">> ELSE <<>>
     ELSE todo' \in Detected(inTurn) /\ UNCHANGED draining
  /\ audio' = Then(todo', draining')
  /\ UNCHANGED <<clientVars, rx, runVars, inTurn, begun, asrVars, turnVars, transVars,
                 textVars, ttsVars>>

\* SPEECH_START: a turn and a recognizer for it, started in a thread.
SpeechStart ==
  /\ GroupRuns /\ audio = "start"
  /\ audio' = "starting" /\ inTurn' = TRUE /\ begun' = begun + 1
  /\ outcome' = [outcome EXCEPT ![begun'] = "heard"]
  /\ recognizer' = "starting" /\ finished' = FALSE /\ asrq' = <<>> /\ asrOver' = FALSE
  /\ texts' = 0 /\ asrTask' = "none" /\ words' = FALSE
  /\ UNCHANGED <<clientVars, inputVars, runVars, todo, draining, turns, turn, current,
                 ttsActive, transVars, textVars, ttsVars>>

\* The recognizer has started: its events get a task, the turn's first audio is sent.
SpeechStarted ==
  /\ GroupRuns /\ audio = "starting" /\ recognizer \notin {"starting", "failed"}
  /\ asrTask' = "running" /\ audio' = "audio"
  /\ UNCHANGED <<clientVars, inputVars, runVars, todo, draining, inTurn, begun,
                 recognizer, finished, asrq, asrOver, texts, words, turnVars, transVars,
                 textVars, ttsVars>>

\* send_audio of a recognizer that has not reported an error.
SendASRAudio ==
  /\ GroupRuns /\ audio = "audio" /\ ~finished
  /\ audio' = Then(Tail(todo), draining) /\ todo' = Tail(todo)
  /\ UNCHANGED <<clientVars, inputVars, runVars, draining, inTurn, begun, asrVars,
                 turnVars, transVars, textVars, ttsVars>>

\* SPEECH_END: finish() unless the recognizer has reported an error, then its events.
SpeechEnd ==
  /\ GroupRuns /\ audio = "stop"
  /\ audio' = IF finished THEN "awaiting" ELSE "finishing"
  /\ finished' = TRUE
  /\ recognizer' = IF finished THEN recognizer ELSE "stopping"
  /\ UNCHANGED <<clientVars, inputVars, runVars, todo, draining, inTurn, begun, asrq,
                 asrOver, texts, asrTask, words, turnVars, transVars, textVars, ttsVars>>

SpeechFinished ==
  /\ GroupRuns /\ audio = "finishing" /\ recognizer = "stopped"
  /\ audio' = "awaiting"
  /\ UNCHANGED <<clientVars, inputVars, runVars, todo, draining, inTurn, begun, asrVars,
                 turnVars, transVars, textVars, ttsVars>>

\* The recognition is over.  A turn without text is skipped with a warning, the
\* others are queued for the turn loop.
TurnStable ==
  /\ GroupRuns /\ audio = "awaiting" /\ asrTask = "returned"
  /\ words => Len(turns) < TurnMax
  /\ inTurn' = FALSE
  /\ outcome' = [outcome EXCEPT ![begun] = IF words THEN "final" ELSE "empty"]
  /\ turns' = IF words THEN Append(turns, begun) ELSE turns
  /\ audio' = Then(Tail(todo), draining) /\ todo' = Tail(todo)
  /\ UNCHANGED <<clientVars, inputVars, runVars, draining, begun, asrVars, turn, current,
                 ttsActive, transVars, textVars, ttsVars>>

\* What fails the audio loop: a call of the recognizer, a full turn queue, a send;
\* or the recognition itself, whose failure is met only when the turn has ended.
AudioFailure(kind) ==
  \/ /\ kind = "protocol"
     /\ \/ audio \in {"starting", "finishing"} /\ recognizer = "failed"
        \/ audio = "audio"
        \/ audio = "awaiting" /\ asrTask = "returned" /\ words /\ Len(turns) = TurnMax
  \/ /\ kind = "internal" /\ audio = "awaiting" /\ asrTask = "failed"
  \/ /\ kind = "disconnect" /\ SendMayFail
     /\ \/ audio = "starting" /\ recognizer \notin {"starting", "failed"}
        \/ audio = "stop"
        \/ audio = "awaiting" /\ asrTask \in {"returned", "failed"}

FailAudio ==
  /\ GroupRuns
  /\ \E kind \in {"protocol", "internal", "disconnect"} : AudioFailure(kind) /\ Raises(kind)
  /\ audio' = "failed"
  /\ inTurn' = (inTurn /\ ~(audio = "awaiting" /\ asrTask = "returned"))
  /\ asrTask' = IF audio = "starting" /\ recognizer # "failed" THEN "running" ELSE asrTask
  /\ UNCHANGED <<clientVars, inputVars, main, struck, todo, draining, begun, recognizer,
                 finished, asrq, asrOver, texts, words, turnVars, transVars, textVars, ttsVars>>

\* _forward_asr_events: partial results go to the client until the last event.
ForwardASREvent ==
  /\ GroupRuns /\ asrTask = "running" /\ asrq # <<>>
  /\ asrq' = Tail(asrq)
  /\ \/ Head(asrq).kind = "text" /\ words' = TRUE /\ UNCHANGED asrTask
     \/ Head(asrq).kind = "completed" /\ asrTask' = "returned" /\ UNCHANGED words
     \/ Head(asrq).kind = "error" /\ asrTask' = "failed" /\ UNCHANGED words
     \/ SendMayFail /\ asrTask' = "failed" /\ UNCHANGED words
  /\ UNCHANGED <<clientVars, inputVars, runVars, audioVars, recognizer, finished, asrOver,
                 texts, turnVars, transVars, textVars, ttsVars>>

-------------------------------------------------------------------------------
(* The recognizer's threads.                                               *)

\* The connection is made, or fails.  A recognizer that was told to stop before
\* (its stop was refused) runs with no owner.
RecognizerStarts ==
  /\ recognizer = "starting"
  /\ recognizer' \in {"failed", IF finished THEN "unowned" ELSE "running"}
  /\ UNCHANGED <<clientVars, inputVars, runVars, audioVars, finished, asrq, asrOver, texts,
                 asrTask, words, turnVars, transVars, textVars, ttsVars>>

\* on_event: a text, or a result whose status is an error; left out when the events
\* task, the only one to read the queue, has ended.
RecognizerEvent ==
  /\ GroupRuns /\ recognizer \in {"running", "stopping"} /\ texts < MaxEvents
  /\ asrTask \in {"none", "running"}
  /\ texts' = texts + 1
  /\ \E kind \in {"text", "error"} : asrq' = Offer(asrq, asrOver, Mark(kind))
  /\ asrOver' = (asrOver \/ Len(asrq) = EventMax)
  /\ UNCHANGED <<clientVars, inputVars, runVars, audioVars, recognizer, finished, asrTask,
                 words, turnVars, transVars, textVars, ttsVars>>

\* on_error: the recognizer is finished without anybody asking.
RecognizerError ==
  /\ recognizer = "running"
  /\ recognizer' = "dead" /\ finished' = TRUE
  /\ asrq' = Offer(asrq, asrOver, Mark("error"))
  /\ asrOver' = (asrOver \/ Len(asrq) = EventMax)
  /\ UNCHANGED <<clientVars, inputVars, runVars, audioVars, texts, asrTask, words, turnVars,
                 transVars, textVars, ttsVars>>

\* stop() returns after on_complete, or raises.
RecognizerStops ==
  /\ recognizer = "stopping"
  /\ \/ recognizer' = "stopped" /\ asrq' = Offer(asrq, asrOver, Mark("completed"))
     \/ recognizer' = "failed" /\ UNCHANGED asrq
  /\ asrOver' = (asrOver \/ (recognizer' = "stopped" /\ Len(asrq) = EventMax))
  /\ UNCHANGED <<clientVars, inputVars, runVars, audioVars, finished, texts, asrTask, words,
                 turnVars, transVars, textVars, ttsVars>>

-------------------------------------------------------------------------------
(* The turn loop.                                                          *)

\* The next turn gets a synthesizer, the two tasks that serve it and a thread
\* that translates; or the end of the turns, or a synthesizer that does not start.
TakeTurn ==
  /\ GroupRuns /\ turn = "get" /\ turns # <<>>
  /\ turns' = Tail(turns)
  /\ IF Head(turns) = EndOfTurns
     THEN turn' = "done" /\ UNCHANGED <<errors, current, ttsActive, producer, given, tq,
                                        held, textVars, ttsVars>>
     ELSE /\ current' = Head(turns) /\ ttsActive' = TRUE
          /\ synth' = "idle" /\ ttsq' = <<>> /\ ttsOver' = FALSE /\ made' = 0 /\ aired' = <<>>
          /\ held' = <<>> /\ segments' = <<>> /\ spoken' = <<>> /\ given' = 0 /\ tq' = <<>>
          /\ \/ turn' = "translating" /\ producer' = "running" /\ text' = "running"
                /\ voice' = "running" /\ UNCHANGED errors
             \/ turn' = "failed" /\ Raises("protocol") /\ text' = "none" /\ voice' = "none"
                /\ UNCHANGED producer
  /\ UNCHANGED <<clientVars, inputVars, main, struck, audioVars, asrVars, outcome>>

\* The text queue takes a segment.
QueueText(segment) ==
  /\ text # "failed" /\ Len(segments) < TextMax
  /\ segments' = Append(segments, segment)

\* A delta of the translation: the client gets it, and the segmenter, which may
\* then give a segment of all it holds.
TakeDelta ==
  /\ GroupRuns /\ turn = "translating" /\ tq # <<>> /\ Head(tq).kind = "delta"
  /\ tq' = Tail(tq)
  /\ LET fed == Append(held, Head(tq).n)
     IN  \/ held' = fed /\ UNCHANGED segments
         \/ held' = <<>> /\ QueueText(fed)
  /\ UNCHANGED <<clientVars, inputVars, runVars, audioVars, asrVars, turnVars, producer,
                 given, text, spoken, ttsVars>>

\* No delta for a while: the segmenter gives what it holds.
PollText ==
  /\ GroupRuns /\ turn = "translating" /\ tq = <<>> /\ held # <<>>
  /\ QueueText(held) /\ held' = <<>>
  /\ UNCHANGED <<clientVars, inputVars, runVars, audioVars, asrVars, turnVars, producer,
                 given, tq, text, spoken, ttsVars>>

\* Mutation: the segmenter is not flushed.
TakeTranslationUnflushed ==
  /\ GroupRuns /\ turn = "translating" /\ tq # <<>> /\ Head(tq).kind = "final"
  /\ tq' = Tail(tq) /\ turn' = "ending"
  /\ UNCHANGED <<clientVars, inputVars, runVars, audioVars, asrVars, turns, current, outcome,
                 ttsActive, producer, given, held, textVars, ttsVars>>

\* The final translation: what the segmenter holds is flushed.
TakeTranslation ==
  /\ GroupRuns /\ turn = "translating" /\ tq # <<>> /\ Head(tq).kind = "final"
  /\ tq' = Tail(tq) /\ turn' = "ending"
  /\ IF held = <<>> THEN UNCHANGED segments ELSE QueueText(held)
  /\ held' = <<>>
  /\ UNCHANGED <<clientVars, inputVars, runVars, audioVars, asrVars, turns, current, outcome,
                 ttsActive, producer, given, text, spoken, ttsVars>>

\* put(None), when there is room.
EndText ==
  /\ GroupRuns /\ turn = "ending" /\ Len(segments) < TextMax
  /\ segments' = Append(segments, EndOfText)
  /\ turn' = "texting"
  /\ UNCHANGED <<clientVars, inputVars, runVars, audioVars, asrVars, turns, current, outcome,
                 ttsActive, transVars, text, spoken, ttsVars>>

\* When all the text is sent the synthesizer is told to complete, in a thread.
CompleteText ==
  /\ GroupRuns /\ turn = "texting" /\ text = "returned"
  /\ turn' = "completing" /\ synth' = "completing"
  /\ UNCHANGED <<clientVars, inputVars, runVars, audioVars, asrVars, turns, current, outcome,
                 ttsActive, transVars, textVars, ttsq, ttsOver, made, voice, aired>>

SpeechCompleted ==
  /\ GroupRuns /\ turn = "completing" /\ synth = "completed"
  /\ turn' = "listening"
  /\ UNCHANGED <<clientVars, inputVars, runVars, audioVars, asrVars, turns, current, outcome,
                 ttsActive, transVars, textVars, ttsVars>>

\* The turn is completed once the audio task has forwarded everything.
CompleteTurn ==
  /\ GroupRuns /\ turn = "listening" /\ voice = "returned"
  /\ outcome' = [outcome EXCEPT ![current] = "completed"]
  /\ turn' = "get" /\ ttsActive' = FALSE
  /\ UNCHANGED <<clientVars, inputVars, runVars, audioVars, asrVars, turns, current, transVars,
                 textVars, ttsVars>>

\* What fails a turn: the translation, a segment that finds the text task dead or
\* the queue full (put(None) waits 5 s for it), the tasks, the synthesizer, a send.
TurnFailure ==
  \/ /\ turn = "translating"
     /\ \/ tq # <<>> /\ (Head(tq).kind = "error" \/ SendMayFail)
        \/ /\ text = "failed" \/ Len(segments) = TextMax
           /\ held # <<>> \/ (tq # <<>> /\ Head(tq).kind = "delta")
  \/ turn = "ending" /\ Len(segments) = TextMax
  \/ turn = "texting" /\ text = "failed"
  \/ turn = "completing" /\ synth = "failed"
  \/ turn = "listening" /\ (voice = "failed" \/ (voice = "returned" /\ SendMayFail))

\* What a turn that ends before its time held is dropped with it.
ForgetTurn ==
  /\ given' = 0 /\ tq' = <<>> /\ held' = <<>> /\ segments' = <<>> /\ spoken' = <<>>
  /\ ttsq' = <<>> /\ ttsOver' = FALSE /\ made' = 0 /\ aired' = <<>>

\* The handlers of _process_stable_turn cancel the two tasks; the synthesizer is
\* forgotten, not cancelled.
FailTurn ==
  /\ GroupRuns /\ TurnFailure
  /\ turn' = "failed" /\ Raises("protocol")
  /\ ttsActive' = FALSE
  /\ text' = IF text = "running" THEN "cancelled" ELSE text
  /\ voice' = IF voice = "running" THEN "cancelled" ELSE voice
  /\ ForgetTurn
  /\ UNCHANGED <<clientVars, inputVars, main, struck, audioVars, asrVars, turns, current,
                 outcome, producer, synth>>

-------------------------------------------------------------------------------
(* The two tasks of a turn.                                                *)

\* _forward_tts_text: a segment is sent, or the synthesizer refuses it.
SendText ==
  /\ GroupRuns /\ text = "running" /\ segments # <<>>
  /\ segments' = Tail(segments)
  /\ \/ /\ Head(segments) = EndOfText
        /\ text' = "returned" /\ UNCHANGED <<spoken, synth>>
     \/ /\ Head(segments) # EndOfText
        /\ \/ synth \in {"idle", "open"} /\ synth' = "open"
              /\ spoken' = spoken \o Head(segments) /\ UNCHANGED text
           \/ text' = "failed" /\ UNCHANGED <<spoken, synth>>
  /\ UNCHANGED <<clientVars, inputVars, runVars, audioVars, asrVars, turnVars, transVars,
                 ttsq, ttsOver, made, voice, aired>>

\* _forward_tts_audio: every chunk goes to the client; no chunk at all is an error.
ForwardAudio ==
  /\ GroupRuns /\ voice = "running" /\ ttsq # <<>>
  /\ ttsq' = Tail(ttsq)
  /\ \/ /\ Head(ttsq).kind = "audio"
        /\ aired' = Append(aired, Head(ttsq).n) /\ UNCHANGED voice
     \/ /\ Head(ttsq).kind = "completed" /\ aired # <<>>
        /\ voice' = "returned" /\ UNCHANGED aired
     \/ /\ Head(ttsq).kind = "error" \/ SendMayFail \/ (Head(ttsq).kind = "completed" /\ aired = <<>>)
        /\ voice' = "failed" /\ UNCHANGED aired
  /\ UNCHANGED <<clientVars, inputVars, runVars, audioVars, asrVars, turnVars, transVars,
                 textVars, synth, ttsOver, made>>

-------------------------------------------------------------------------------
(* The translator's thread and the synthesizer's.                          *)

\* _put: the thread waits for room up to 10 s; a put that timed out stays queued
\* and ends the translation like any other error.  The None that closes the queue
\* is put with the last event: nobody reads it.
Produce ==
  /\ producer = "running"
  /\ \/ /\ Len(tq) <= DeltaMax /\ given < Deltas
        /\ given' = given + 1 /\ tq' = Append(tq, Item("delta", given'))
        /\ UNCHANGED producer
     \/ /\ Len(tq) <= DeltaMax /\ given > 0
        /\ tq' = Append(tq, Mark("final")) /\ producer' = "ended"
        /\ UNCHANGED given
     \/ /\ tq' = Append(tq, Mark("error")) /\ producer' = "ended"
        /\ UNCHANGED given
  /\ UNCHANGED <<clientVars, inputVars, runVars, audioVars, asrVars, turnVars, held,
                 textVars, ttsVars>>

\* on_data, or on_error of a synthesizer that has text; left out when the audio
\* task, the only one to read the queue, has ended.
Synthesize ==
  /\ GroupRuns /\ synth \in {"open", "completing"} /\ made < MaxEvents /\ voice = "running"
  /\ made' = made + 1
  /\ \E event \in {Item("audio", made'), Mark("error")} : ttsq' = Offer(ttsq, ttsOver, event)
  /\ ttsOver' = (ttsOver \/ Len(ttsq) = EventMax)
  /\ UNCHANGED <<clientVars, inputVars, runVars, audioVars, asrVars, turnVars, transVars,
                 textVars, synth, voice, aired>>

\* streaming_complete returns after on_complete, or raises (at its timeout).
Synthesized ==
  /\ synth = "completing"
  /\ \/ synth' = "completed" /\ ttsq' = Offer(ttsq, ttsOver, Mark("completed"))
        /\ ttsOver' = (ttsOver \/ Len(ttsq) = EventMax)
     \/ synth' = "failed" /\ UNCHANGED <<ttsq, ttsOver>>
  /\ UNCHANGED <<clientVars, inputVars, runVars, audioVars, asrVars, turnVars, transVars,
                 textVars, made, voice, aired>>

-------------------------------------------------------------------------------
(* run, the task group and the clean-up.                                   *)

\* Mutation: the turn loop is not told that no turn follows.
RunWithoutEnd ==
  /\ GroupRuns
  /\ \/ main = "receiver" /\ rx = "done" /\ main' = "put_input" /\ UNCHANGED input
     \/ main = "put_input" /\ Len(input) < InputMax /\ input' = Append(input, EndOfInput)
        /\ main' = "audio"
     \/ main = "audio" /\ audio = "done" /\ main' = "turns" /\ UNCHANGED input
  /\ UNCHANGED <<clientVars, rx, errors, struck, audioVars, asrVars, turnVars, transVars,
                 textVars, ttsVars>>

\* run waits for the receive loop, closes the input, waits for the audio loop,
\* closes the turns; both puts wait for room.
Run ==
  /\ GroupRuns
  /\ \/ main = "receiver" /\ rx = "done" /\ main' = "put_input" /\ UNCHANGED <<input, turns>>
     \/ main = "put_input" /\ Len(input) < InputMax /\ input' = Append(input, EndOfInput)
        /\ main' = "audio" /\ UNCHANGED turns
     \/ main = "audio" /\ audio = "done" /\ main' = "put_turn" /\ UNCHANGED <<input, turns>>
     \/ main = "put_turn" /\ Len(turns) < TurnMax /\ turns' = Append(turns, EndOfTurns)
        /\ main' = "turns" /\ UNCHANGED input
  /\ UNCHANGED <<clientVars, rx, errors, struck, audioVars, asrVars, turn, current, outcome,
                 ttsActive, transVars, textVars, ttsVars>>

\* session.completed.
Complete ==
  /\ GroupRuns /\ main = "turns" /\ turn = "done"
  /\ told' = IF connected THEN "completed" ELSE told
  /\ main' = "release_asr"
  /\ UNCHANGED <<connected, inputVars, errors, struck, audioVars, asrVars, turnVars, transVars,
                 textVars, ttsVars>>

\* The session's deadline cancels run in the group, or at an await of its clean-up,
\* of which the rest is then not run.
Deadline ==
  /\ ~struck /\ main \in InGroup \cup {"releasing_asr", "release_task"}
  /\ struck' = TRUE
  /\ main' = IF main \in InGroup THEN main ELSE "closed"
  /\ UNCHANGED <<clientVars, inputVars, errors, audioVars, asrVars, turnVars, transVars,
                 textVars, ttsVars>>

\* The group cancels its tasks, each at its await.  The audio loop takes the events
\* task with it if it awaits it; so does the turn loop with the task it awaits, and
\* the other runs on.  In the translation the turn loop may first have to wait for
\* the translator's thread.  What the queues hold is lost with the tasks.
CancelLoops ==
  /\ main \in InGroup /\ Cancelling
  /\ ~(Ended(rx) /\ Ended(audio) /\ Ended(turn)) /\ turn # "abandoning"
  /\ rx' = IF Ended(rx) THEN rx ELSE "cancelled"
  /\ audio' = IF Ended(audio) THEN audio ELSE "cancelled"
  /\ asrTask' = IF audio = "awaiting" /\ asrTask = "running" THEN "cancelled" ELSE asrTask
  /\ turn' \in IF Ended(turn) THEN {turn}
               ELSE {"cancelled"} \cup IF turn = "translating" THEN {"abandoning"} ELSE {}
  /\ text' = IF turn = "texting" /\ text = "running" THEN "cancelled" ELSE text
  /\ voice' = IF turn = "listening" /\ voice = "running" THEN "cancelled" ELSE voice
  /\ ttsActive' = (ttsActive /\ Ended(turn))
  /\ input' = <<>> /\ turns' = <<>> /\ todo' = <<>> /\ draining' = FALSE
  /\ asrq' = <<>> /\ asrOver' = FALSE /\ texts' = 0 /\ words' = FALSE
  /\ ForgetTurn
  /\ UNCHANGED <<clientVars, runVars, inTurn, begun, recognizer, finished, current, outcome,
                 producer, synth>>

AbandonTranslation ==
  /\ turn = "abandoning" /\ producer = "ended"
  /\ turn' = "cancelled"
  /\ UNCHANGED <<clientVars, inputVars, runVars, audioVars, asrVars, turns, current, outcome,
                 ttsActive, transVars, textVars, ttsVars>>

\* Mutation: only protocol errors are reported.
ReportProtocolErrors ==
  /\ main \in InGroup /\ Cancelling /\ Ended(rx) /\ Ended(audio) /\ Ended(turn)
  /\ main' = "release_asr"
  /\ told' = IF "protocol" \in errors /\ connected THEN "error" ELSE told
  /\ UNCHANGED <<connected, inputVars, errors, struck, audioVars, asrVars, turnVars, transVars,
                 textVars, ttsVars>>

\* When all its tasks have ended the group raises: an error is reported unless
\* the client's disconnection explains it.
Report ==
  /\ main \in InGroup /\ Cancelling /\ Ended(rx) /\ Ended(audio) /\ Ended(turn)
  /\ main' = "release_asr"
  /\ told' = IF connected /\ ("protocol" \in errors \/ errors = {"internal"})
             THEN "error" ELSE told
  /\ UNCHANGED <<connected, inputVars, errors, struck, audioVars, asrVars, turnVars, transVars,
                 textVars, ttsVars>>

\* Mutation: the recognizer of the turn in progress is not cancelled.
ReleaseNoRecognizer ==
  /\ main = "release_asr" /\ main' = "release_tts"
  /\ UNCHANGED <<clientVars, inputVars, errors, struck, audioVars, asrVars, turnVars,
                 transVars, textVars, ttsVars>>

\* cancel() of the recognizer stops it unless it is finished; a stop that meets a
\* recognizer that is still starting is refused.
ReleaseRecognizer ==
  /\ main = "release_asr"
  /\ IF inTurn /\ ~finished
     THEN /\ finished' = TRUE
          /\ recognizer' = IF recognizer = "running" THEN "stopping" ELSE recognizer
          /\ main' = "releasing_asr"
     ELSE main' = "release_tts" /\ UNCHANGED <<finished, recognizer>>
  /\ UNCHANGED <<clientVars, inputVars, errors, struck, audioVars, asrq, asrOver, texts,
                 asrTask, words, turnVars, transVars, textVars, ttsVars>>

\* cancel() of the synthesizer, when one is still known.
ReleaseSynthesizer ==
  /\ \/ main = "release_tts"
     \/ main = "releasing_asr" /\ recognizer # "stopping"
  /\ synth' = IF ttsActive /\ synth = "open" THEN "cancelled" ELSE synth
  /\ main' = "release_task"
  /\ UNCHANGED <<clientVars, inputVars, errors, struck, audioVars, asrVars, turnVars,
                 transVars, textVars, ttsq, ttsOver, made, voice, aired>>

ReleaseTask ==
  /\ main = "release_task" /\ main' = "closed"
  /\ asrTask' = IF asrTask = "running" THEN "cancelled" ELSE asrTask
  /\ UNCHANGED <<clientVars, inputVars, errors, struck, audioVars, recognizer, finished, asrq,
                 asrOver, texts, words, turnVars, transVars, textVars, ttsVars>>

-------------------------------------------------------------------------------

ClientNext == Disconnect \/ ReceiveAudio \/ ReceiveLast

AudioNext ==
  \/ TakeChunk \/ SpeechStart \/ SpeechStarted \/ SendASRAudio \/ SpeechEnd
  \/ SpeechFinished \/ TurnStable \/ FailAudio

TurnNext ==
  \/ TakeTurn \/ TakeDelta \/ PollText \/ TakeTranslation \/ EndText \/ CompleteText
  \/ SpeechCompleted \/ CompleteTurn \/ FailTurn

RunNext ==
  \/ Run \/ Complete \/ CancelLoops \/ AbandonTranslation \/ Report \/ ReleaseRecognizer
  \/ ReleaseSynthesizer \/ ReleaseTask

\* What the gateway itself goes on with, and the calls of the SDKs that return.
Progress ==
  \/ AudioNext \/ ForwardASREvent \/ TurnNext \/ SendText \/ ForwardAudio \/ RunNext
  \/ RecognizerStarts \/ RecognizerStops \/ Produce \/ Synthesized

\* Events nobody has to give.
EventNext == RecognizerEvent \/ RecognizerError \/ Synthesize \/ Deadline

Next == ClientNext \/ Progress \/ EventNext

Spec == Init /\ [][Next]_vars

\* The process does not stop as long as one of its tasks, or a call of an SDK, can go
\* on.  The client, the events of the providers and the deadline owe nothing.
FairSpec == Spec /\ WF_vars(Progress)

-------------------------------------------------------------------------------
(* Properties.                                                             *)

\* A client that is told session.completed has lost no turn: each turn that began
\* was translated and voiced, or had no text, whatever the queues between the loops,
\* the providers' threads and the tasks of a turn did.  All deltas of a completed
\* turn were spoken, in order, and all audio made from them was sent, in order.
CompletedLosesNothing ==
  /\ told = "completed" => \A t \in 1..begun : outcome[t] \in {"empty", "completed"}
  /\ \A t \in 1..begun : t = current /\ outcome[t] = "completed" /\ turn = "get" =>
       spoken = Upto(given) /\ aired = Upto(made)

\* A closed session leaves no recognizer at work (but one whose stop was refused
\* because its start, abandoned by the session, had not yet returned), and leaves a
\* synthesizer open only when the turn it worked for failed or was cancelled.
ProvidersReleased ==
  main = "closed" => /\ recognizer # "running"
                     /\ synth = "open" => turn \in {"failed", "cancelled"}

\* A client that stays connected is told how its session ended, unless the
\* deadline of the gateway ended it: completed exactly when all loops ended well.
EndIsTold ==
  main = "closed" /\ connected /\ ~struck =>
    told = IF errors = {} THEN "completed" ELSE "error"

\* Once the client has stopped or a task has failed the session closes: no loop
\* waits for ever for a queue, a provider or a thread that has given up.
SessionEnds == (rx # "receiving" \/ Cancelling) ~> main = "closed"

===============================================================================
