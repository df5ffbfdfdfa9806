----------------------------- MODULE DesktopWindow -----------------------------
(***************************************************************************)
(* The window of the desktop program and the work it starts:               *)
(*   ui/main_window.py    buttons, mode, _start_worker, closeEvent         *)
(*   ui/workers.py        the workers, each in a QThread of its own        *)
(*   audio/recorder.py    MicrophoneRecorder                               *)
(*   audio/player.py      MacAudioPlayer                                   *)
(*                                                                         *)
(* What a worker emits is queued for the window's thread and delivered in  *)
(* order: inbox.  What a worker does is a step or two here; the streaming  *)
(* session and the meeting bridge have modules of their own.               *)
(***************************************************************************)
EXTENDS Naturals, Sequences

CONSTANT MaxWorkers   \* bound: workers started

ASSUME WindowAssumption == MaxWorkers \in Nat

VARIABLES
  chosen,    \* mode_combo
  recording, \* the recorder has a stream
  current,   \* _thread and _worker: the last worker started, 0 for None
  started,   \* workers started
  kind,      \* kind[w]
  step,      \* step[w]: where its thread is
  stopAsked, \* workers that were asked to stop
  quitting,  \* workers whose thread was told to quit
  afplay,    \* worker whose process the player holds
  inbox,     \* signals queued for the window
  startOn, stopOn, replayOn, checkOn,   \* enabled buttons
  hasAudio,  \* latest_audio_path is set
  astray,    \* the mode was changed, or the audio check run, while something ran
  closed     \* the window was closed

buttonVars == <<startOn, stopOn, replayOn>>
workerVars == <<current, started, kind>>
windowVars == <<chosen, recording, workerVars, step, stopAsked, quitting, afplay, inbox, buttonVars,
                checkOn, hasAudio, astray, closed>>

-------------------------------------------------------------------------------

Workers == 1..MaxWorkers

WindowInit ==
  /\ chosen \in {"remote", "remote_stream"}
  /\ recording = FALSE
  /\ current = 0 /\ started = 0
  /\ kind = [w \in Workers |-> "none"] /\ step = [w \in Workers |-> "off"]
  /\ stopAsked = {} /\ quitting = {} /\ afplay = 0 /\ inbox = <<>>
  /\ startOn = TRUE /\ stopOn = FALSE /\ replayOn = FALSE /\ checkOn \in BOOLEAN
  /\ hasAudio = FALSE /\ astray = FALSE /\ closed = FALSE

\* _fail and _complete leave the buttons alike.
Rest(audio) == startOn' = TRUE /\ stopOn' = FALSE /\ replayOn' = audio

\* _start_worker, which does not ask whether a worker is running.
StartWorker(k) ==
  /\ started < MaxWorkers /\ started' = started + 1 /\ current' = started'
  /\ kind' = [kind EXCEPT ![started'] = k]

\* The step a new worker is at, s being those of the others.
NewStep(s, first) == step' = [s EXCEPT ![started + 1] = first]

\* The steps after MacAudioPlayer.stop: the process it holds is terminated.
StepsPlayerStopped == IF afplay = 0 THEN step ELSE [step EXCEPT ![afplay] = "played"]

StopPlayer == afplay' = 0 /\ step' = StepsPlayerStopped

\* The current worker is one with request_stop.
TakesRequests == current # 0 /\ kind[current] \in {"stream", "meeting"}

-------------------------------------------------------------------------------
(* The user.                                                               *)

\* Start, one recording at a time: the recorder refuses a second one, or the device.
StartRecording ==
  /\ ~closed /\ startOn /\ current = 0 /\ chosen = "remote"
  /\ StopPlayer
  /\ \/ /\ ~recording /\ recording' = TRUE
        /\ startOn' = FALSE /\ stopOn' = TRUE /\ replayOn' = FALSE
     \/ Rest(hasAudio) /\ UNCHANGED recording
  /\ UNCHANGED <<chosen, workerVars, stopAsked, quitting, inbox, checkOn, hasAudio, astray, closed>>

\* Start, streaming: configuration and worker.
StartStreaming ==
  /\ ~closed /\ startOn /\ current = 0 /\ chosen = "remote_stream"
  /\ \/ /\ StartWorker("stream") /\ NewStep(StepsPlayerStopped, "work") /\ afplay' = 0
        /\ startOn' = FALSE /\ stopOn' = TRUE /\ replayOn' = FALSE
     \/ Rest(hasAudio) /\ UNCHANGED <<workerVars, step, afplay>>
  /\ UNCHANGED <<chosen, recording, stopAsked, quitting, inbox, checkOn, hasAudio, astray, closed>>

\* Start, meeting bridge: the route is refused, or a worker starts.
StartMeeting ==
  /\ ~closed /\ startOn /\ current = 0 /\ chosen = "meeting_bridge"
  /\ \/ /\ StartWorker("meeting") /\ NewStep(step, "work")
        /\ startOn' = FALSE /\ stopOn' = TRUE /\ replayOn' = FALSE
     \/ Rest(hasAudio) /\ UNCHANGED <<workerVars, step>>
  /\ UNCHANGED <<chosen, recording, stopAsked, quitting, afplay, inbox, checkOn, hasAudio, astray,
                 closed>>

\* A worker that takes requests is asked to stop.
AskToStop ==
  /\ ~closed /\ stopOn /\ TakesRequests
  /\ stopAsked' = stopAsked \cup {current} /\ stopOn' = FALSE
  /\ UNCHANGED <<chosen, recording, workerVars, step, quitting, afplay, inbox, startOn, replayOn,
                 checkOn, hasAudio, astray, closed>>

\* Mutation: the recorder keeps its stream when the recording is refused.
StopRecordingKeepsStream ==
  /\ ~closed /\ stopOn /\ ~TakesRequests
  /\ \/ /\ recording /\ StartWorker("process") /\ NewStep(step, "work")
        /\ startOn' = FALSE /\ stopOn' = FALSE /\ replayOn' = FALSE /\ recording' = FALSE
     \/ Rest(hasAudio) /\ UNCHANGED <<workerVars, step, recording>>
  /\ UNCHANGED <<chosen, stopAsked, quitting, afplay, inbox, checkOn, hasAudio, astray, closed>>

\* Stop, otherwise: the recorder lets go of its stream, whether it then fails (the
\* device, a recording that is too short, the file) or a worker processes the file.
StopRecording ==
  /\ ~closed /\ stopOn /\ ~TakesRequests
  /\ recording' = FALSE
  /\ \/ /\ recording /\ StartWorker("process") /\ NewStep(step, "work")
        /\ startOn' = FALSE /\ stopOn' = FALSE /\ replayOn' = FALSE
     \/ Rest(hasAudio) /\ UNCHANGED <<workerVars, step>>
  /\ UNCHANGED <<chosen, stopAsked, quitting, afplay, inbox, checkOn, hasAudio, astray, closed>>

\* Replay.
Replay ==
  /\ ~closed /\ replayOn
  /\ \/ /\ hasAudio /\ current = 0 /\ StartWorker("replay") /\ NewStep(step, "play")
        /\ startOn' = FALSE /\ replayOn' = FALSE /\ UNCHANGED stopOn
     \/ (~hasAudio \/ current # 0) /\ Rest(hasAudio) /\ UNCHANGED <<workerVars, step>>
  /\ UNCHANGED <<chosen, recording, stopAsked, quitting, afplay, inbox, checkOn, hasAudio, astray,
                 closed>>

\* Run Audio Check: the button was enabled when nothing ran.
RunAudioCheck ==
  /\ ~closed /\ checkOn /\ chosen = "meeting_bridge"
  /\ StartWorker("check") /\ NewStep(step, "work") /\ checkOn' = FALSE
  /\ astray' = (astray \/ current # 0)
  /\ UNCHANGED <<chosen, recording, stopAsked, quitting, afplay, inbox, buttonVars, hasAudio, closed>>

\* Devices are refreshed or chosen: the buttons of the setup are looked at again.
UpdateSetup ==
  /\ ~closed /\ chosen = "meeting_bridge"
  /\ checkOn' \in {FALSE, current = 0} /\ checkOn' # checkOn
  /\ UNCHANGED <<chosen, recording, workerVars, step, stopAsked, quitting, afplay, inbox, buttonVars,
                 hasAudio, astray, closed>>

\* _mode_changed; the choice is never disabled.
SwitchMode ==
  /\ ~closed
  /\ chosen' \in {"remote", "remote_stream", "meeting_bridge"} \ {chosen}
  /\ replayOn' = (chosen' # "meeting_bridge" /\ hasAudio)
  /\ astray' = (astray \/ recording \/ current # 0)
  /\ UNCHANGED <<recording, workerVars, step, stopAsked, quitting, afplay, inbox, startOn, stopOn,
                 checkOn, hasAudio, closed>>

\* closeEvent: playback stops, the worker is asked to stop, and its thread is waited for;
\* one that does not end meanwhile keeps the window open.
CloseWindow ==
  /\ ~closed
  /\ StopPlayer
  /\ stopAsked' = IF TakesRequests THEN stopAsked \cup {current} ELSE stopAsked
  /\ IF current # 0 /\ step[current] # "over" THEN UNCHANGED <<recording, closed>>
     ELSE recording' = FALSE /\ closed' = TRUE
  /\ UNCHANGED <<chosen, workerVars, quitting, inbox, buttonVars, checkOn, hasAudio, astray>>

-------------------------------------------------------------------------------
(* The workers' threads.                                                   *)

\* Signals of w, with which its run() is left when the last is "finished".
Emit(w, signals) == inbox' = inbox \o [i \in DOMAIN signals |-> <<signals[i], w>>]

threadFrame == <<chosen, recording, workerVars, stopAsked, quitting, buttonVars, checkOn, hasAudio,
                 astray, closed>>

\* A recording was processed: its result is shown, then it is played or it has failed.
Processed(w) ==
  /\ step[w] = "work" /\ kind[w] = "process"
  /\ \/ Emit(w, <<"audio">>) /\ step' = [step EXCEPT ![w] = "play"]
     \/ Emit(w, <<"failed", "finished">>) /\ step' = [step EXCEPT ![w] = "returned"]
  /\ UNCHANGED <<threadFrame, afplay>>

\* A streaming session saves a turn.
TurnSaved(w) ==
  /\ step[w] = "work" /\ kind[w] = "stream" /\ ~hasAudio
  /\ \A i \in DOMAIN inbox : inbox[i][1] # "audio"
  /\ Emit(w, <<"audio">>)
  /\ UNCHANGED <<threadFrame, step, afplay>>

\* A session, a bridge or a check ends, of itself or because it was asked to; the
\* fallback of a streaming session may first play.
WorkEnds(w) ==
  /\ step[w] = "work" /\ kind[w] \in {"stream", "meeting", "check"}
  /\ \/ /\ kind[w] = "stream" /\ step' = [step EXCEPT ![w] = "play"] /\ UNCHANGED inbox
     \/ /\ \E signal \in {"completed", "failed"} : Emit(w, <<signal, "finished">>)
        /\ step' = [step EXCEPT ![w] = "returned"]
  /\ UNCHANGED <<threadFrame, afplay>>

\* MacAudioPlayer.play: what was playing stops, the process is started, then noted.
Spawn(w) ==
  /\ step[w] = "play"
  /\ \/ /\ step' = [StepsPlayerStopped EXCEPT ![w] = "spawned"] /\ afplay' = 0
        /\ UNCHANGED inbox
     \/ /\ step' = [step EXCEPT ![w] = "returned"] /\ Emit(w, <<"failed", "finished">>)
        /\ UNCHANGED afplay
  /\ UNCHANGED threadFrame

NoteProcess(w) ==
  /\ step[w] = "spawned"
  /\ step' = [step EXCEPT ![w] = "playing"] /\ afplay' = w
  /\ UNCHANGED <<threadFrame, inbox>>

\* The process ends, in good or bad order, or was terminated, which is as good.
PlayEnds(w) ==
  /\ step[w] \in {"playing", "played"}
  /\ step' = [step EXCEPT ![w] = "returned"] /\ afplay' = IF afplay = w THEN 0 ELSE afplay
  /\ \/ Emit(w, <<"completed", "finished">>)
     \/ step[w] = "playing" /\ Emit(w, <<"failed", "finished">>)
  /\ UNCHANGED threadFrame

ThreadEnds(w) ==
  /\ step[w] = "returned" /\ w \in quitting
  /\ step' = [step EXCEPT ![w] = "over"] /\ Emit(w, <<"gone">>)
  /\ UNCHANGED <<threadFrame, afplay>>

-------------------------------------------------------------------------------
(* The window receives the first signal of its queue.                      *)

signalFrame == <<chosen, recording, started, kind, step, stopAsked, afplay, astray, closed>>

Received(signal) == ~closed /\ inbox # <<>> /\ Head(inbox)[1] = signal /\ inbox' = Tail(inbox)

ReceiveAudioPath ==
  /\ Received("audio") /\ hasAudio' = TRUE
  /\ UNCHANGED <<signalFrame, current, quitting, buttonVars, checkOn>>

\* _complete, for a bridge or a check only a label; _fail.
ReceiveOutcome ==
  /\ Received("completed") \/ Received("failed")
  /\ IF Head(inbox)[1] = "completed" /\ kind[Head(inbox)[2]] \in {"meeting", "check"}
     THEN UNCHANGED buttonVars ELSE Rest(hasAudio)
  /\ UNCHANGED <<signalFrame, current, quitting, checkOn, hasAudio>>

\* thread.quit.
ReceiveFinished ==
  /\ Received("finished") /\ quitting' = quitting \cup {Head(inbox)[2]}
  /\ UNCHANGED <<signalFrame, current, buttonVars, checkOn, hasAudio>>

\* _worker_thread_finished, whichever thread it was.
ReceiveGone ==
  /\ Received("gone") /\ current' = 0
  /\ IF chosen = "meeting_bridge"
     THEN startOn' = TRUE /\ stopOn' = FALSE /\ checkOn' \in BOOLEAN /\ UNCHANGED replayOn
     ELSE UNCHANGED <<buttonVars, checkOn>>
  /\ UNCHANGED <<signalFrame, quitting, hasAudio>>

WorkerNext(w) ==
  \/ Processed(w) \/ TurnSaved(w) \/ WorkEnds(w) \/ Spawn(w) \/ NoteProcess(w) \/ PlayEnds(w)
  \/ ThreadEnds(w)

WindowNext ==
  \/ StartRecording \/ StartStreaming \/ StartMeeting \/ AskToStop \/ StopRecording \/ Replay
  \/ RunAudioCheck \/ UpdateSetup \/ SwitchMode \/ CloseWindow
  \/ ReceiveAudioPath \/ ReceiveOutcome \/ ReceiveFinished \/ ReceiveGone
  \/ \E w \in 1..started : WorkerNext(w)

WindowSpec == WindowInit /\ [][WindowNext]_windowVars

-------------------------------------------------------------------------------
(* Properties.                                                             *)

\* Whatever is under way can be stopped: while a recording, or a session or bridge not
\* yet asked to stop, is running, the stop button is enabled, whichever late signals of
\* earlier workers arrive.  Not so once the mode was changed, or the audio check run,
\* while something ran.
RunCanBeStopped ==
  ~astray =>
    /\ recording => stopOn
    /\ \A w \in 1..started :
         kind[w] \in {"stream", "meeting"} /\ step[w] = "work" /\ w \notin stopAsked =>
           stopOn /\ current = w

\* A window that was closed has left nothing running: leaving the program closes all
\* streams and connections.
ExitClosesAll == closed => \A w \in 1..started : step[w] = "over"

===============================================================================
