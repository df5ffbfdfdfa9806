----------------------------- MODULE MeetingBridge -----------------------------
(***************************************************************************)
(* The desktop client's Meeting Bridge: two directional sessions, each     *)
(* with a sender and a receiver thread, under one controller               *)
(* (src/ai_voice_interpreter/meeting/controller.py) that is driven by the  *)
(* worker of the window (ui/workers.py, MeetingBridgeWorker).  When both   *)
(* directions have failed the controller starts a daemon thread that stops *)
(* the bridge.                                                             *)
(*                                                                         *)
(* These are operating system threads: any of them may run between two     *)
(* statements of another.  pc[t] names the statement thread t is at; a     *)
(* step is one access to state that other threads write, or a run of       *)
(* accesses to state that is the thread's own.  What the audio devices and *)
(* the gateway connection do is left out: here they are open or closed,    *)
(* and any use of a connection may fail.                                   *)
(***************************************************************************)
EXTENDS Naturals, Sequences, FiniteSets

CONSTANT MaxStops   \* daemon stop threads alive at a time (bound of the model)

Direction == {"local_to_remote", "remote_to_local"}

ASSUME BridgeAssumption == MaxStops \in Nat \ {0}

StartOrder == <<"remote_to_local", "local_to_remote">>
StopOrder == <<"local_to_remote", "remote_to_local">>

\* <<kind, of>>: the worker, the threads of a direction, and the daemons that stop.
Worker == <<"worker", 0>>
Sender(d) == <<"send", d>>
Receiver(d) == <<"recv", d>>
Stopper == {"stop"} \X (1..MaxStops)
Loop == {"send", "recv"} \X Direction
Thread == {Worker} \cup Loop \cup Stopper

VARIABLES pc,          \* pc[t]: the statement thread t is at
          todo,        \* todo[t]: directions the thread still has to go through
          counted,     \* counted[t]: local "running" of _refresh_state
          opened,      \* local "opened" of start
          state,       \* BridgeState of the controller
          dir,         \* dir[d]: DirectionState of the session
          stopping,    \* stopping[d]: the session's _stop event
          error,       \* error[d]: the session's error is set
          audio,       \* audio[d]: the devices of the direction are open
          conn,        \* conn[d]: the gateway connection of the direction is open
          asked,       \* the worker's _stop event: the user wants the bridge to end
          told         \* what the worker told the window in the end

sessionVars == <<dir, stopping, error, audio, conn>>
vars == <<pc, todo, counted, opened, state, sessionVars, asked, told>>

-------------------------------------------------------------------------------

At(t, place) == pc[t] = place
Goto(t, place) == pc' = [pc EXCEPT ![t] = place]

\* A loop, or a daemon, that is not running.
Idle == {"unstarted", "done"}

Running == {d \in Direction : dir[d] = "RUNNING"}
Failed == {d \in Direction : dir[d] = "FAILED"}

\* Where a thread goes on after _refresh_state, and after stop().
AfterRefresh(t) == IF t = Worker THEN "poll" ELSE "done"
AfterStop(t) == IF t = Worker THEN "report" ELSE "done"

Init ==
  /\ pc = [t \in Thread |-> IF t = Worker THEN "start" ELSE "unstarted"]
  /\ todo = [t \in Thread |-> <<>>]
  /\ counted = [t \in Thread |-> 0]
  /\ opened = <<>>
  /\ state = "READY"
  /\ dir = [d \in Direction |-> "DISCONNECTED"]
  /\ stopping = [d \in Direction |-> FALSE]
  /\ error = [d \in Direction |-> FALSE]
  /\ audio = [d \in Direction |-> FALSE]
  /\ conn = [d \in Direction |-> FALSE]
  /\ asked = FALSE
  /\ told = "nothing"

-------------------------------------------------------------------------------
(* MeetingBridgeController.start.                                          *)

\* The route guard refuses, or the state is STARTING and the sessions are new.
Start ==
  /\ At(Worker, "start")
  /\ \/ /\ state' = "UNCONFIGURED"
        /\ told' = "failed"
        /\ Goto(Worker, "final")
        /\ UNCHANGED todo
     \/ /\ state' = "STARTING"
        /\ todo' = [todo EXCEPT ![Worker] = StartOrder]
        /\ Goto(Worker, "open")
        /\ UNCHANGED told
  /\ UNCHANGED <<counted, opened, sessionVars, asked>>

\* open_gateway blocks until session.started; a failure keeps the connection it
\* had begun to itself.
OpenGateway ==
  /\ At(Worker, "open")
  /\ LET d == Head(todo[Worker])
         rest == Tail(todo[Worker])
     IN  /\ dir' = [dir EXCEPT ![d] = "CONNECTING"]
         /\ \/ /\ conn' = [conn EXCEPT ![d] = TRUE]
               /\ opened' = Append(opened, d)
               /\ IF rest = <<>>
                  THEN /\ todo' = [todo EXCEPT ![Worker] = StartOrder]
                       /\ Goto(Worker, "audio")
                  ELSE /\ todo' = [todo EXCEPT ![Worker] = rest]
                       /\ UNCHANGED pc
            \/ /\ todo' = [todo EXCEPT ![Worker] = opened]
               /\ Goto(Worker, "unwind")
               /\ UNCHANGED <<conn, opened>>
  /\ UNCHANGED <<counted, state, stopping, error, audio, asked, told>>

\* start_audio: the devices open and the two loops start, or nothing does.
StartAudio ==
  /\ At(Worker, "audio")
  /\ LET d == Head(todo[Worker])
         rest == Tail(todo[Worker])
         next == IF rest = <<>> THEN "count" ELSE "audio"
     IN  \/ /\ audio' = [audio EXCEPT ![d] = TRUE]
            /\ stopping' = [stopping EXCEPT ![d] = FALSE]
            /\ dir' = [dir EXCEPT ![d] = "RUNNING"]
            /\ todo' = [todo EXCEPT ![Worker] = rest]
            /\ pc' = [pc EXCEPT ![Worker] = next, ![Sender(d)] = "loop", ![Receiver(d)] = "loop"]
         \/ /\ todo' = [todo EXCEPT ![Worker] = opened]
            /\ Goto(Worker, "unwind")
            /\ UNCHANGED <<audio, stopping, dir>>
  /\ UNCHANGED <<counted, opened, state, error, conn, asked, told>>

\* The except clause: the opened sessions are stopped and the state is FAILED; the
\* worker reports it and stops the controller in its finally clause.
Unwound ==
  /\ At(Worker, "unwind")
  /\ todo[Worker] = <<>>
  /\ state' = "FAILED"
  /\ told' = "failed"
  /\ Goto(Worker, "final")
  /\ UNCHANGED <<todo, counted, opened, sessionVars, asked>>

-------------------------------------------------------------------------------
(* The loops of a direction.                                               *)

\* The sender sees the event, or the connection (or a device) fails under it.
SenderEnds(d) ==
  /\ At(Sender(d), "loop")
  /\ stopping[d]
  /\ Goto(Sender(d), "done")
  /\ UNCHANGED <<todo, counted, opened, state, sessionVars, asked, told>>

SenderBreaks(d) ==
  /\ At(Sender(d), "loop")
  /\ Goto(Sender(d), "fail")
  /\ UNCHANGED <<todo, counted, opened, state, sessionVars, asked, told>>

\* session.completed: the gateway ended the session, asked or not.
ReceiverCompletes(d) ==
  /\ At(Receiver(d), "loop")
  /\ conn[d]
  /\ stopping' = [stopping EXCEPT ![d] = TRUE]
  /\ Goto(Receiver(d), "done")
  /\ UNCHANGED <<todo, counted, opened, state, dir, error, audio, conn, asked, told>>

\* The receiver takes an error for the end of the session once _stop is set.
ReceiverBreaks(d) ==
  /\ At(Receiver(d), "loop")
  /\ Goto(Receiver(d), IF stopping[d] THEN "done" ELSE "fail")
  /\ UNCHANGED <<todo, counted, opened, state, sessionVars, asked, told>>

\* Mutation: a failing loop closes the devices of both directions.
FailClosesBoth(t) ==
  /\ At(t, "fail")
  /\ dir' = [dir EXCEPT ![t[2]] = "FAILED"]
  /\ error' = [error EXCEPT ![t[2]] = TRUE]
  /\ stopping' = [d \in Direction |-> TRUE]
  /\ audio' = [d \in Direction |-> FALSE]
  /\ Goto(t, "close")
  /\ UNCHANGED <<todo, counted, opened, state, conn, asked, told>>

\* _fail, up to the event.
Fail(t) ==
  /\ At(t, "fail")
  /\ dir' = [dir EXCEPT ![t[2]] = "FAILED"]
  /\ error' = [error EXCEPT ![t[2]] = TRUE]
  /\ stopping' = [stopping EXCEPT ![t[2]] = TRUE]
  /\ Goto(t, "close")
  /\ UNCHANGED <<todo, counted, opened, state, audio, conn, asked, told>>

\* _fail closes the devices and the connection and calls the controller back:
\* _refresh_state, which takes no lock, counts the running directions.
FailClose(t) ==
  /\ At(t, "close")
  /\ audio' = [audio EXCEPT ![t[2]] = FALSE]
  /\ conn' = [conn EXCEPT ![t[2]] = FALSE]
  /\ counted' = [counted EXCEPT ![t] = Cardinality(Running)]
  /\ Goto(t, "decide")
  /\ UNCHANGED <<todo, opened, state, dir, stopping, error, asked, told>>

-------------------------------------------------------------------------------
(* _refresh_state, at the end of start and after a failure.                *)

Count ==
  /\ At(Worker, "count")
  /\ counted' = [counted EXCEPT ![Worker] = Cardinality(Running)]
  /\ Goto(Worker, "decide")
  /\ UNCHANGED <<todo, opened, state, sessionVars, asked, told>>

\* Mutation: every failure is taken for the end of the bridge.
VerdictAny(running, failed) ==
  IF failed > 0 THEN "set_failed"
  ELSE IF running = 2 THEN "set_running" ELSE "none"

Verdict(running, failed) ==
  IF running > 0 /\ failed > 0 THEN "set_degraded"
  ELSE IF failed = 2 THEN "set_failed"
  ELSE IF running = 2 THEN "set_running" ELSE "none"

Decide(t) ==
  /\ At(t, "decide")
  /\ LET verdict == Verdict(counted[t], Cardinality(Failed))
     IN  Goto(t, IF verdict = "none" THEN AfterRefresh(t) ELSE verdict)
  /\ counted' = [counted EXCEPT ![t] = 0]
  /\ UNCHANGED <<todo, opened, state, sessionVars, asked, told>>

SetState(t) ==
  /\ \/ /\ At(t, "set_degraded")
        /\ state' = "DEGRADED"
        /\ Goto(t, AfterRefresh(t))
     \/ /\ At(t, "set_running")
        /\ state' = "RUNNING"
        /\ Goto(t, AfterRefresh(t))
     \/ \* A daemon thread is started to stop the bridge (MaxStops of them at most).
        /\ At(t, "set_failed")
        /\ state' = "FAILED"
        /\ \/ \E k \in Stopper :
                /\ pc[k] \in Idle
                /\ pc' = [pc EXCEPT ![t] = AfterRefresh(t), ![k] = "stop"]
           \/ /\ \A k \in Stopper : pc[k] \notin Idle
              /\ Goto(t, AfterRefresh(t))
  /\ UNCHANGED <<todo, counted, opened, sessionVars, asked, told>>

-------------------------------------------------------------------------------
(* MeetingBridgeController.stop, by the worker or a daemon, and            *)
(* DirectionalBridgeSession.stop in it.                                    *)

\* The part under the lock.
EnterStop(t) ==
  /\ \/ At(t, "stop")
     \/ At(t, "final")
  /\ IF state \in {"STOPPED", "READY"}
     THEN /\ state' = "STOPPED"
          /\ Goto(t, IF At(t, "final") THEN "finished" ELSE AfterStop(t))
          /\ UNCHANGED todo
     ELSE /\ state' = "STOPPING"
          /\ todo' = [todo EXCEPT ![t] = StopOrder]
          /\ Goto(t, IF At(t, "final") THEN "final_stopping" ELSE "stopping")
  /\ UNCHANGED <<counted, opened, sessionVars, asked, told>>

\* The places at which a thread goes through the directions to stop them.
Stops == {"stopping", "final_stopping", "unwind"}

Joining(place) ==
  IF place = "stopping" THEN "joining"
  ELSE IF place = "final_stopping" THEN "final_joining" ELSE "unwind_joining"
NextStop(place) ==
  IF place = "joining" THEN "stopping"
  ELSE IF place = "final_joining" THEN "final_stopping" ELSE "unwind"

\* A session that is down already is only closed once more; any other is told to
\* stop, and so is the gateway.
StopSession(t) ==
  /\ pc[t] \in Stops
  /\ todo[t] # <<>>
  /\ LET d == Head(todo[t])
     IN  IF dir[d] \in {"STOPPED", "DISCONNECTED"}
         THEN /\ dir' = [dir EXCEPT ![d] = "STOPPED"]
              /\ audio' = [audio EXCEPT ![d] = FALSE]
              /\ conn' = [conn EXCEPT ![d] = FALSE]
              /\ todo' = [todo EXCEPT ![t] = Tail(@)]
              /\ UNCHANGED <<pc, stopping>>
         ELSE /\ dir' = [dir EXCEPT ![d] = "STOPPING"]
              /\ stopping' = [stopping EXCEPT ![d] = TRUE]
              /\ Goto(t, Joining(pc[t]))
              /\ UNCHANGED <<audio, conn, todo>>
  /\ UNCHANGED <<counted, opened, state, error, asked, told>>

\* Mutation: the closing of the session is left to the loops.
JoinWithoutClose(t) ==
  /\ pc[t] \in {"joining", "final_joining", "unwind_joining"}
  /\ LET d == Head(todo[t])
     IN  /\ pc[Sender(d)] \in Idle /\ pc[Receiver(d)] \in Idle
         /\ dir' = [dir EXCEPT ![d] = IF @ = "FAILED" THEN @ ELSE "STOPPED"]
  /\ todo' = [todo EXCEPT ![t] = Tail(@)]
  /\ Goto(t, NextStop(pc[t]))
  /\ UNCHANGED <<counted, opened, state, stopping, error, audio, conn, asked, told>>

\* Both loops have ended within the 20 s that stop() grants each of them; a session
\* that failed meanwhile stays FAILED.
JoinLoops(t) ==
  /\ pc[t] \in {"joining", "final_joining", "unwind_joining"}
  /\ LET d == Head(todo[t])
     IN  /\ pc[Sender(d)] \in Idle /\ pc[Receiver(d)] \in Idle
         /\ audio' = [audio EXCEPT ![d] = FALSE]
         /\ conn' = [conn EXCEPT ![d] = FALSE]
         /\ dir' = [dir EXCEPT ![d] = IF @ = "FAILED" THEN @ ELSE "STOPPED"]
  /\ todo' = [todo EXCEPT ![t] = Tail(@)]
  /\ Goto(t, NextStop(pc[t]))
  /\ UNCHANGED <<counted, opened, state, stopping, error, asked, told>>

LeaveStop(t) ==
  /\ pc[t] \in {"stopping", "final_stopping"}
  /\ todo[t] = <<>>
  /\ state' = "STOPPED"
  /\ Goto(t, IF At(t, "stopping") THEN AfterStop(t) ELSE "finished")
  /\ UNCHANGED <<todo, counted, opened, sessionVars, asked, told>>

-------------------------------------------------------------------------------
(* MeetingBridgeWorker.run, between start and the last stop.               *)

\* The stop button, or the window is closed; nothing but the poll looks at it, so
\* an earlier request counts as one that comes then.
RequestStop ==
  /\ At(Worker, "poll")
  /\ ~asked
  /\ asked' = TRUE
  /\ UNCHANGED <<pc, todo, counted, opened, state, sessionVars, told>>

\* Mutation: the worker looks at the state of the bridge and not at the request.
PollStateOnly ==
  /\ At(Worker, "poll")
  /\ state \in {"FAILED", "STOPPED"}
  /\ Goto(Worker, "stop")
  /\ UNCHANGED <<todo, counted, opened, state, sessionVars, asked, told>>

Poll ==
  /\ At(Worker, "poll")
  /\ asked \/ state \in {"FAILED", "STOPPED"}
  /\ Goto(Worker, "stop")
  /\ UNCHANGED <<todo, counted, opened, state, sessionVars, asked, told>>

Report ==
  /\ At(Worker, "report")
  /\ told' = IF state = "FAILED" THEN "failed" ELSE "completed"
  /\ Goto(Worker, "final")
  /\ UNCHANGED <<todo, counted, opened, state, sessionVars, asked>>

-------------------------------------------------------------------------------

\* What a thread does by itself, once it is not waiting for the network.
StopStep(t) == EnterStop(t) \/ StopSession(t) \/ JoinLoops(t) \/ LeaveStop(t)

RefreshStep(t) == Decide(t) \/ SetState(t)

WorkerStep ==
  \/ Start \/ OpenGateway \/ StartAudio \/ Unwound \/ Count \/ Poll \/ Report
  \/ RefreshStep(Worker) \/ StopStep(Worker)

FailStep(t) == Fail(t) \/ FailClose(t) \/ RefreshStep(t)

Next ==
  \/ WorkerStep
  \/ \E t \in Loop : FailStep(t)
  \/ \E d \in Direction :
       SenderEnds(d) \/ SenderBreaks(d) \/ ReceiverCompletes(d) \/ ReceiverBreaks(d)
  \/ \E t \in Stopper : StopStep(t)
  \/ RequestStop

Spec == Init /\ [][Next]_vars

ReceiverLeaves(d) ==
  /\ ~conn[d] \/ stopping[d]
  /\ ReceiverCompletes(d) \/ ReceiverBreaks(d)

\* Fairness.  The operating system runs every thread; the calls that open things
\* have timeouts; the sender looks at its event between two reads of 250 ms, and a
\* receiver leaves a connection that was closed.  A gateway that has been told to
\* stop answers, or its connection breaks.  Nothing else is assumed of the network,
\* and nothing of the user.
\* No behaviour is endless (a loop fails once, the user asks once), so fairness of
\* the union of these steps is fairness of each of them.
FairStep ==
  \/ WorkerStep
  \/ \E t \in Stopper : StopStep(t)
  \/ \E t \in Loop : FailStep(t)
  \/ \E d \in Direction : SenderEnds(d) \/ ReceiverLeaves(d)

FairSpec == Spec /\ WF_vars(FairStep)

-------------------------------------------------------------------------------

StopPlace == {"stop", "stopping", "joining"}

RefreshPlace == {"count", "decide", "set_degraded", "set_failed", "set_running"}

WorkerPlace == StopPlace \cup RefreshPlace \cup
  {"start", "open", "audio", "unwind", "unwind_joining", "poll", "report",
   "final", "final_stopping", "final_joining", "finished"}

LoopPlace == Idle \cup RefreshPlace \cup {"loop", "fail", "close"}

TypeOK ==
  /\ pc[Worker] \in WorkerPlace
  /\ \A t \in Loop : pc[t] \in LoopPlace
  /\ \A t \in Stopper : pc[t] \in Idle \cup StopPlace
  /\ \A t \in Thread : todo[t] \in {<<>>} \cup {<<d>> : d \in Direction} \cup {StartOrder, StopOrder}
  /\ counted \in [Thread -> 0..2]
  /\ opened \in {SubSeq(StartOrder, 1, k) : k \in 0..2}
  /\ state \in {"UNCONFIGURED", "READY", "STARTING", "RUNNING", "DEGRADED",
                "STOPPING", "STOPPED", "FAILED"}
  /\ dir \in [Direction -> {"DISCONNECTED", "CONNECTING", "RUNNING",
                            "STOPPING", "STOPPED", "FAILED"}]
  /\ stopping \in [Direction -> BOOLEAN]
  /\ error \in [Direction -> BOOLEAN]
  /\ audio \in [Direction -> BOOLEAN]
  /\ conn \in [Direction -> BOOLEAN]
  /\ asked \in BOOLEAN
  /\ told \in {"nothing", "failed", "completed"}

(* When the worker is finished both directions have given up their devices *)
(* and their connections, whichever threads failed or stopped them and in  *)
(* whatever order.                                                         *)
FinishedIsClosed ==
  At(Worker, "finished") => \A d \in Direction : ~audio[d] /\ ~conn[d]

StopUnderWay ==
  \E t \in {Worker} \cup Stopper : pc[t] \in StopPlace

(* One failure never stops the bridge: unless the user asks, stop() runs   *)
(* only after both directions have failed, however the unlocked counts of  *)
(* _refresh_state interleave with the failures.                            *)
StopIsWarranted ==
  StopUnderWay => asked \/ \A d \in Direction : error[d]

StopsNow(t, d) == todo[t] # <<>> /\ Head(todo[t]) = d

(* A direction keeps its devices until it fails itself or somebody stops   *)
(* it: the failure of the other direction is not felt.                     *)
DirectionsAreIsolated ==
  [][\A d \in Direction :
       audio[d] /\ ~audio'[d] => error[d] \/ \E t \in Thread : StopsNow(t, d)]_vars

(* Once the user asks, the worker finishes and no thread is left behind:   *)
(* the threads that stop the bridge and the loops that fail meanwhile      *)
(* never wait for each other.                                              *)
StopEnds ==
  asked ~> /\ At(Worker, "finished")
           /\ \A t \in Thread \ {Worker} : pc[t] \in Idle

(* Stated by the message of the worker, "both directions of the Meeting    *)
(* Bridge have failed": if they have, and nobody asked to stop, that is    *)
(* what the window is told.                                                *)
BothFailedIsReported ==
  At(Worker, "finished") /\ ~asked /\ (\A d \in Direction : error[d]) => told = "failed"

===============================================================================
