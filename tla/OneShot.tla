-------------------------------- MODULE OneShot --------------------------------
(***************************************************************************)
(* One recording interpreted by one HTTP request:                          *)
(*   server main.py          ConcurrencyGate, interpret, audio_download,   *)
(*                           _save_upload, _cleanup_loop                   *)
(*   server audio_store.py   AudioStore, validate_wav                      *)
(*   pipeline.py             InterpreterPipeline.process, in a thread      *)
(*   client remote/          RemoteInterpreterPipeline, GatewayClient      *)
(*                                                                         *)
(* Every client makes one request; an action runs from one await of the    *)
(* handler to the next.  The audio directory outlives the process (it is a *)
(* volume of compose.yaml): a crash takes handlers and threads, no file.   *)
(* Texts are left out: a stage succeeds or it does not.                    *)
(***************************************************************************)
EXTENDS Naturals, FiniteSets

CONSTANTS Request,    \* the requests, each of a client of its own
          Limit,      \* max_concurrent_requests
          TimeToLive, \* audio_ttl_seconds, in ticks
          MaxCrashes  \* bound: crashes of the gateway

ASSUME OneShotAssumption ==
  /\ IsFiniteSet(Request)
  /\ {Limit, TimeToLive} \subseteq Nat \ {0} /\ MaxCrashes \in Nat

VARIABLES
  handler,   \* handler[r]: what the handler of r awaits
  synthesis, \* synthesis[r]: the thread of its pipeline
  active,    \* gate.active
  inputs,    \* requests whose input-*.wav exists
  unclaimed, \* requests whose tts-*.wav exists: written, not published
  published, \* requests whose output-*.wav exists
  age,       \* age[r]: ticks since the audio of r was written, up to TimeToLive
  caller,    \* caller[r]: the client's pipeline
  crashes

oneShotVars == <<handler, synthesis, active, inputs, unclaimed, published, age, caller, crashes>>
serverVars == <<handler, synthesis, active, inputs>>
fileVars == <<unclaimed, published, age>>

OneShotInit ==
  /\ handler = [r \in Request |-> "none"]
  /\ synthesis = [r \in Request |-> "none"]
  /\ active = 0
  /\ inputs = {} /\ unclaimed = {} /\ published = {}
  /\ age = [r \in Request |-> 0]
  /\ caller = [r \in Request |-> "idle"]
  /\ crashes = 0

-------------------------------------------------------------------------------
(* The handler.                                                            *)

\* The client's post is under way; the answer reaches it unless it has given up.
Answer(r, answer) ==
  caller' = [caller EXCEPT ![r] = IF @ = "waiting" THEN answer ELSE @]

\* Mutation: a refused request runs the finally clause too.
RefuseAndLeave(r) ==
  /\ caller[r] \in {"waiting", "gone"} /\ handler[r] = "none" /\ active >= Limit
  /\ handler' = [handler EXCEPT ![r] = "done"] /\ active' = active - 1
  /\ Answer(r, "failed")
  /\ UNCHANGED <<synthesis, inputs, fileVars, crashes>>

\* gate.enter raises 429, outside the try.
Refuse(r) ==
  /\ caller[r] \in {"waiting", "gone"} /\ handler[r] = "none" /\ active >= Limit
  /\ handler' = [handler EXCEPT ![r] = "done"]
  /\ Answer(r, "failed")
  /\ UNCHANGED <<synthesis, active, inputs, fileVars, crashes>>

\* gate.enter, and the file for the upload is opened.
Enter(r) ==
  /\ caller[r] \in {"waiting", "gone"} /\ handler[r] = "none" /\ active < Limit
  /\ handler' = [handler EXCEPT ![r] = "saving"] /\ active' = active + 1
  /\ inputs' = inputs \cup {r}
  /\ UNCHANGED <<synthesis, fileVars, caller, crashes>>

\* The upload is saved and valid: the pipeline gets a thread.
StartPipeline(r) ==
  /\ handler[r] = "saving"
  /\ handler' = [handler EXCEPT ![r] = "pipeline"]
  /\ synthesis' = [synthesis EXCEPT ![r] = "running"]
  /\ UNCHANGED <<active, inputs, fileVars, caller, crashes>>

\* The thread returns a result: an error, before anything or with a part of a file
\* written; audio too short to be a WAV; or good audio.
PipelineEnds(r) ==
  /\ synthesis[r] = "running"
  /\ \/ synthesis' = [synthesis EXCEPT ![r] = "error"] /\ UNCHANGED <<unclaimed, age>>
     \/ /\ synthesis' \in {[synthesis EXCEPT ![r] = s] : s \in {"error", "short", "audio"}}
        /\ unclaimed' = unclaimed \cup {r} /\ age' = [age EXCEPT ![r] = 0]
  /\ UNCHANGED <<handler, active, inputs, published, caller, crashes>>

\* The finally clause begins: the input goes, or unlink raises and the rest of the
\* clause, the gate too, is skipped.  then is what the handler is about to do.
Unlink(r, then) ==
  \/ handler' = [handler EXCEPT ![r] = then] /\ inputs' = inputs \ {r} /\ UNCHANGED caller
  \/ handler' = [handler EXCEPT ![r] = "lost"] /\ Answer(r, "failed") /\ UNCHANGED inputs

\* The upload is too large, empty or no such WAV; the pipeline failed, or its audio is
\* too short.
Reject(r) ==
  /\ \/ handler[r] = "saving"
     \/ handler[r] = "pipeline" /\ synthesis[r] \in {"error", "short"}
  /\ Unlink(r, "raising")
  /\ UNCHANGED <<synthesis, active, fileVars, crashes>>

\* store.publish: the file is renamed and keeps its age.
Publish(r) ==
  /\ handler[r] = "pipeline" /\ synthesis[r] = "audio"
  /\ unclaimed' = unclaimed \ {r} /\ published' = published \cup {r}
  /\ Unlink(r, "returning")
  /\ UNCHANGED <<synthesis, active, age, crashes>>

\* audio.close, then gate.leave, then the answer; the first may raise.
Leave(r) ==
  /\ handler[r] \in {"raising", "returning"}
  /\ \/ /\ handler' = [handler EXCEPT ![r] = "done"] /\ active' = active - 1
        /\ Answer(r, IF handler[r] = "returning" THEN "answered" ELSE "failed")
     \/ /\ handler' = [handler EXCEPT ![r] = "lost"]
        /\ Answer(r, "failed") /\ UNCHANGED active
  /\ UNCHANGED <<synthesis, inputs, fileVars, crashes>>

-------------------------------------------------------------------------------
(* The stored audio.                                                       *)

\* resolve: an expired file goes at once.  The file is opened later, by the response.
Resolve(r) ==
  /\ caller[r] = "answered"
  /\ published' = IF age[r] < TimeToLive THEN published ELSE published \ {r}
  /\ caller' = [caller EXCEPT ![r] = IF r \in published' THEN "opening" ELSE "failed"]
  /\ UNCHANGED <<serverVars, unclaimed, age, crashes>>

\* The response opens the file, which may be gone by now.
Serve(r) ==
  /\ caller[r] = "opening"
  /\ caller' = [caller EXCEPT ![r] = IF r \in published THEN "served" ELSE "failed"]
  /\ UNCHANGED <<serverVars, fileVars, crashes>>

\* Mutation: audio is removed a tick before its time.
CleanupAudioEarly ==
  /\ published' = {r \in published : age[r] + 1 < TimeToLive} /\ published' # published
  /\ UNCHANGED <<serverVars, unclaimed, age, caller, crashes>>

\* One turn of _cleanup_loop: published audio only.
CleanupAudio ==
  /\ published' = {r \in published : age[r] < TimeToLive} /\ published' # published
  /\ UNCHANGED <<serverVars, unclaimed, age, caller, crashes>>

-------------------------------------------------------------------------------
(* The client, time, and the gateway's process.                            *)

\* GatewayClient.interpret posts the recording.
Post(r) ==
  /\ caller[r] = "idle"
  /\ caller' = [caller EXCEPT ![r] = "waiting"]
  /\ UNCHANGED <<serverVars, fileVars, crashes>>

\* The post, or the download, takes too long or loses its connection.
GiveUp(r) ==
  /\ caller[r] \in {"waiting", "answered", "opening"}
  /\ caller' = [caller EXCEPT ![r] = IF @ = "waiting" THEN "gone" ELSE "failed"]
  /\ UNCHANGED <<serverVars, fileVars, crashes>>

ClockTick ==
  /\ age' = [r \in Request |->
               IF r \in unclaimed \cup published /\ age[r] < TimeToLive THEN age[r] + 1 ELSE age[r]]
  /\ age' # age
  /\ UNCHANGED <<serverVars, unclaimed, published, caller, crashes>>

\* Handlers that hold a place in the gate.
Inside == {r \in Request : handler[r] \in {"saving", "pipeline", "raising", "returning", "lost"}}

\* The process dies and is started again.
GatewayCrash ==
  /\ crashes < MaxCrashes /\ crashes' = crashes + 1
  /\ handler' = [r \in Request |-> IF r \in Inside THEN "cut" ELSE handler[r]]
  /\ synthesis' = [r \in Request |-> "none"]
  /\ active' = 0
  /\ caller' = [r \in Request |-> IF caller[r] \in {"waiting", "opening"} THEN "failed" ELSE caller[r]]
  /\ UNCHANGED <<inputs, fileVars>>

RequestNext(r) ==
  \/ Post(r) \/ Refuse(r) \/ Enter(r) \/ StartPipeline(r) \/ PipelineEnds(r) \/ Reject(r)
  \/ Publish(r) \/ Leave(r) \/ Resolve(r) \/ Serve(r) \/ GiveUp(r)

OneShotNext == (\E r \in Request : RequestNext(r)) \/ CleanupAudio \/ ClockTick \/ GatewayCrash

OneShotSpec == OneShotInit /\ [][OneShotNext]_oneShotVars

-------------------------------------------------------------------------------
(* Properties.                                                             *)

\* However requests overtake, fail or are refused, the gate counts exactly those that
\* are inside, the ones whose clean-up raised included, and never more than its limit;
\* and no recording stays behind but those of such requests and of a crash.
GateIsHandlers ==
  /\ active = Cardinality(Inside) /\ active <= Limit
  /\ inputs \subseteq Inside \cup {r \in Request : handler[r] = "cut"}

\* Audio a client was told of can be fetched until it is as old as its time to live,
\* whatever the clean-up, other requests and a restart of the gateway do meanwhile.
AnswerIsServable ==
  \A r \in Request : caller[r] \in {"answered", "opening"} /\ age[r] < TimeToLive => r \in published

===============================================================================
