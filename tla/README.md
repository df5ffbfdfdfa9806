# A verification project for AI Voice Interpreter

TLA+ modules that model the concurrent and stateful parts of AI Voice
Interpreter (the desktop client in `src/ai_voice_interpreter`, the gateway in
`server/app`), TLC configurations that check them on small instances, and TLAPS
proofs of what matters most for every instance. Every definition is translated
from the source; `PROJECT.json` maps each one to its lines. Paths below are
relative to the repository.

## 1. Inventory

| Part | State it keeps | Operations | Interacts with |
|---|---|---|---|
| Bridge registry (`server/app/streaming/bridge_registry.py`) | records: owner, members, last activity | register, touch, release, cleanup_expired | routed sessions call it, the gateway's clean-up loop too |
| Admission and routed session (`main.py` stream, `streaming/session.py` StreamingConnectionRegistry, `streaming/router.py`) | slots in total and per token; the active pipeline, switches, registration, touch task | acquire, run, fallback, deadline, cleanup, release | one pipeline session at a time, the bridge registry |
| LiveTranslate session (`streaming/livetranslate_session.py`) | turns, pairing maps, normalizers, the playing response, counts | one handler per upstream event, one per client message; run, cleanup | upstream connection, client socket |
| LiveTranslate upstream (`providers/livetranslate.py`) | connection, two bounded queues, two tasks, process-wide count of connections | start, send_audio, finish, cancel, events | LiveTranslate service |
| Modular session (`streaming/session.py`) | turn contexts, queues between VAD, ASR, translation and TTS | receive, audio, turn and forwarding loops | providers |
| ASR, translation and TTS providers (`providers/realtime_asr.py`, `streaming_*.py`) | SDK sessions, bounded event queues | start, send, finish, cancel, callbacks from SDK threads | DashScope |
| Turn detector (`streaming/vad.py`) | candidate, counters of frames | feed, flush | modular session |
| One-shot HTTP (`main.py` interpret, `audio_store.py`) | concurrency gate, files with tokens and expiry | interpret, download, clean up | pipelines |
| Configuration, authentication, errors (`config.py`, `auth.py`, `errors.py`) | none | validation | all |
| Meeting Bridge controller and worker (`meeting/controller.py`, `ui/workers.py`) | bridge state, two sessions with their own state, devices, connection, loops | start, stop, reconnect, failures | gateway client, audio, window |
| Streaming gateway client (`remote/streaming_gateway_client.py`) | connection | open, send, packets, stop_session, close | gateway |
| Directional audio (`meeting/audio_io.py`, `audio_format.py`) | streams, bounded queues, drop counts | start, read, enqueue, close, callbacks | audio devices |
| Route guard and devices (`meeting/route_guard.py`, `devices.py`) | none | rules over devices | controller |
| Streaming session client (`streaming/controller.py`, `microphone.py`, `player.py`) | sender and receiver, playback queue, microphone | start, stop, events | gateway client, devices |
| Segmenter and normalizers (`streaming/segmenter.py`, `normalizer.py`) | buffer of text | feed, flush | translation stream |
| One-shot pipelines, recorder, player, HTTP client | one request each | run, retry | gateway or DashScope |
| Window (`ui/main_window.py`) | widgets | slots | workers |
| Tools, smoke and soak tests, mocks | - | - | - |

What is hard here, and what makes each part correct:

* **Bridge registry.** Records expire under live sessions, ids are reused, a
  stale session may release or touch a record it no longer belongs to. Correct:
  at most one holder per role, one token per bridge, at most
  `max_active_per_token` bridges, no record without members, no member without
  a session, and a live session keeps its seat.
* **Connection handler.** `asyncio.wait_for` cancels the run at whatever await
  it is suspended; the clean-up after it is not cancelled; some awaits swallow
  the cancellation. Correct: slots, seats and upstream connections are given
  back once and only by their holder; two pipelines never serve one client;
  every handler ends.
* **LiveTranslate session.** Two streams of events, neither naming the other's
  ids, with repetitions. Correct: an utterance shares its turn with its own
  response; audio frames, which carry no turn id, lie between the start and the
  end of their own turn; a turn is completed once; one final translation.
* **Meeting Bridge.** Operating system threads without a common lock. Correct:
  when the worker is finished everything is closed; one failed direction
  neither stops the other nor the bridge; stopping always ends.
* **LiveTranslate upstream.** Five tasks and two bounded queues; a queue is full
  exactly when something goes wrong. Correct: no audio is lost or reordered,
  `session.finish` follows the last chunk, a completed session has handled every
  event, the end of the events always arrives, `session.stop` ends the session.
* **Modular session.** Three loops, three bounded queues, three providers with
  threads of their own, two tasks per turn; a failure of one cancels the others
  at whatever they await. Correct: a session that says completed has lost no turn
  and no delta; the client is told how it ended; providers are released; it ends.
* **Turn detector.** Correct: frames are handed on once and in order, and no
  burst of speech of the least length is missed, for every threshold.
* **Streaming client.** Five threads, three queues, a microphone that must be
  silent while the loudspeaker is not, and that takes time to stop; a writer that
  holds frames back. Correct: no gap in what the gateway hears, safe mode is half
  duplex, a turn that ended was played to the last frame, nothing is left at work
  after a session that completes, a stop returns.
* **Directional audio.** Two callbacks that take chunks apart, two queues that
  drop, a sample rate that changes, a close from another thread. Correct: played
  audio is continuous, a closed device is empty.
* **Route guard.** Devices that come and go between the choice and the start.
  Correct: no route that is accepted lets the bridge hear itself.
* **One-shot requests.** Handlers that fail at any await, a thread that cannot be
  cancelled, a clean-up by age, a client that gives up, a crash. Correct: the
  gate counts who is inside; an answer can be fetched as long as it lives.
* **Window.** Signals of workers that ended late arrive after the next has
  begun. Correct: what runs can be stopped; leaving the program leaves nothing.

`PROJECT.json` lists the hazards at their lines, the ones no property covers
yet with the reason.

## 2. Plan

Built in this order: the registry and the connection handlers
(`BridgeMembership`, `BridgeRegistry`, `GatewayStream`), the LiveTranslate session
(`LiveTurnPairing`, `LiveTranslateTurns`, `LiveTranslateStream`), the bridge of the
client (`MeetingBridge`), the client of a stream (`StreamingClient`), the modular
session and its detector (`ModularSession`, `TurnVAD`), and the rest of the
desktop and of HTTP (`DirectionalAudio`, `RouteGuard`, `OneShot`,
`DesktopWindow`).

Every safety invariant that a run checks is also proved, for every value of the
constants, and so are the two refinements. Next: theorems that say more than the
runs check, such as that a reader of `inq` of `DirectionalAudio` gets captured
chunks in order, and that a modular session's error is the one that was raised
first.

## 3. Modules

| Module | Models | Extends, instantiates |
|---|---|---|
| `BridgeMembership` | abstract: bridges as sets of parties that join, leave or are forgotten | |
| `BridgeRegistry` | the registry with its clock, and the touch tasks | implements `BridgeMembership` |
| `BridgeMembershipProofs` | proofs about `BridgeMembership` | `BridgeMembership` |
| `BridgeRegistryProofs` | proofs about `BridgeRegistry`; it implements the membership | `MCBridgeRegistry` |
| `GatewayStream` | a connection handler from admission to release | uses `BridgeMembership` for the registry |
| `StreamEndsProofs` | proofs about the two ends of a stream, gateway and client | `GatewayStream`, `StreamingClient` |
| `LiveTurnPairing` | abstract: the k-th utterance meets the k-th response | |
| `LiveTranslateTurns` | the event handlers of the LiveTranslate session | implements `LiveTurnPairing` |
| `LiveTranslateTurnsProofs` | proofs about `LiveTranslateTurns`; it implements the pairing | `LiveTranslateTurns` |
| `LiveTranslateStream` | the tasks and queues of one LiveTranslate session | |
| `LiveTranslateStreamProofs` | proofs about `LiveTranslateStream` | `LiveTranslateStream` |
| `MeetingBridge` | the client's bridge controller and its threads | |
| `MeetingBridgeProofs` | proofs about `MeetingBridge` | `MeetingBridge` |
| `StreamingClient` | the threads of a streaming session on the desktop | |
| `ModularSession` | a modular session: loops, queues, providers | |
| `TurnVAD` | the detector of turns | |
| `ModularSessionProofs` | proofs about the session and its detector | `ModularSession`, `TurnVAD` |
| `DirectionalAudio` | the devices of one direction of a bridge | |
| `RouteGuard` | devices, profile, checks and start of a bridge | |
| `OneShot` | one-shot requests, the gate and the stored audio | |
| `DesktopWindow` | the window, its workers and their signals | |
| `DesktopProofs` | proofs about devices, routes, one-shot requests and the window | `RouteGuard`, `DirectionalAudio`, `OneShot`, `DesktopWindow` |
| `BridgeSeats` | the roles of a bridge, shared by `BridgeRegistry` and `GatewayStream` | |
| `MC...` | instances for TLC: symmetry, and parts beside each other | |

### BridgeRegistry

`owner[b]`, `members[b]` and `age[b]` are a `BridgeRecord`; `owner[b] = NoToken`
is a missing record. The code's methods run under an `asyncio.Lock` and contain
no await inside it, so each is one action: `Register`, `RegisterRefused` (which
keeps the clean-up it began with), `Touch`, `Release`, `CleanupExpired`. `Tick`
is time: a third of a second, which makes `ttl / 3` exact; `age` is the code's
`now - last_activity_at`, frozen at the ttl. A touch task sleeps
`TouchInterval` and may then be late by at most `MaxDelay` ticks.
`registration[s]` is the routed session's `_bridge_registration`. A session id
is reused only when nothing refers to it, so a finite set stands for the fresh
UUIDs.

### GatewayStream

A handler is an asyncio task; `pc[h]` names the await it is suspended at, and an
action is what it does from one await to the next. `Deadline` is the
cancellation by `asyncio.wait_for`, enabled once at every await inside it. Its
effect is the code's: some awaits are abandoned, some unwind through the
`finally` clause, and those inside `suppress(CancelledError)` swallow it.
`active`, `counted` and `closed` are `active_connections`, `_counted_active` and
`_closed` of the upstream. `AcceptMayFail` lets `websocket.accept()` raise,
which leaks the slot (place `lost`); the run that checks liveness says `ended`
or `lost`. The registry is used through its abstract specification: a join may
be preceded by the expiry of any bridges, which covers every delay. What the
pipelines do with audio is left out; they serve, finish, fail, or their client
disappears.

### LiveTranslateTurns

One action per event type, the whole handler each, frames to the client kept
only where a property counts them. Turn ids are numbers in order of creation,
which is the order of `unbound_source_turns` and `unbound_response_turns`. Text
is empty, the same as displayed, or new; texts made only of white space are left
out. The upstream may repeat any event and interleave the two streams at will,
but utterances are first heard, and responses first announced, in order.
`Silent` utterances never get source text. With `LateAudio = FALSE` the upstream
sends no audio after `response.audio.done`.

### LiveTranslateStream

The five tasks of a session once `start()` has returned, an action each from one
await to the next: `_receive_client` (`receive`: `ClientAudio`, `ClientEnds`),
`_sender_loop` (`sender`, with the chunk it awaits the connection for in
`sending`), `_receiver_loop` (`receiver`: `ReceiverEvent`, `ReceiverFinished`,
`ReceiverInvalid`, `ReceiverDisconnected`), `_forward_upstream_events` (`forward`,
with the event it handles in `handling`) and `run`. The places of `run` are
`serving` (the first `asyncio.wait`), `put`, `join` and `finish` (the three awaits
of the upstream's `finish()`), `wait` (for the events, with the timeout),
`report`, `cleanup` and `closed`. `receive = "raised"` and `forward = "raised"`
stand for every exception, cancellation included. Chunks and events are numbers
in the order of their arrival, which is what order and loss are judged by.
`QueueEvent` is `put_nowait` in `_receiver_loop` with the handler of
`OUTPUT_QUEUE_FULL`, which takes the oldest event out to make room for the
exception. What an event does is in `LiveTranslateTurns`; that the handler may
raise is kept. `start()`, the session deadline and the count of connections are in
`GatewayStream`.

### MeetingBridge

`pc[t]` is the statement thread `t` is at; steps are cut at every access to
state that other threads write: `_refresh_state` counts the running sessions,
then the failed ones, then sets the state; `stop()` enters under the lock, then
goes through the sessions outside of it. `_fail` sets the state and event, then
closes, then calls back. `MaxStops` bounds the daemon stop threads alive at a
time. The audio devices and the connection are open or closed; any use of a
connection may fail. The timeout of 20 s on joining a loop is taken as enough;
`reconnect` is not modelled.

### StreamingClient

`main`, `sender`, `receiver` and `writer` name the statement a thread is at: the
worker's (`run` of the controller), `_network_send_loop`, `_receive_loop` and the
player's `_writer`. `Capture` is the microphone's callback, `PressStop` the user.
Every wait of the code has a timeout, so a thread that joins, puts or gets may give
up at any time, and the model lets it. `mode` is headphones or safe (the microphone
is off while a turn plays); `Fallback` is the one-shot pipeline on what was recorded.
`link = "abandoned"` is a connection whose `open()` failed after it was made.

*The microphone.* `mic` says that `_stream` is set, which is what `is_running`
looks at, and `loose` who holds a stream that captures without being `_stream`.
`stop()` is two steps: `TakeStream` is its swap, one statement, and `StopStream` or
`StopRaises` its `stream.stop()` and `close()`, after which a stream that refused to
stop may capture on (`"nobody"` has it). `start()` captures before it sets `_stream`
(`RestartMicrophone`, `AssignMicrophone`). Three threads come to `stop()`: the worker
after its loop (`StopMicrophone`, `Halt`), its handler of a failure (`Except`,
`ExceptHalt`; when that raises, the fallback is skipped and the sender is cancelled
by `run`'s `finally`, if it is alive), and the receiver at `tts.audio.start`
(`ReceiveStart` looks at `is_running`; `PauseMicrophone`, `PauseHalts`, then
`ClearPending` a chunk at a time).

*The player.* `start_turn` makes a queue and a thread; the thread first asserts that
there is a queue (`WriterBegins`: `"dead"` is the thread that found none), then keeps
it and opens the device (`WriterOpens`). `WriterTakes` moves a frame from the queue to
`buffered`, the prebuffer; as frames have any size, the threshold may be met by any
of them, and then, or at the end with something held back, `WriterWrites` writes all
of it. A frame counts as played when it is written.

A step is one access to what other threads use, except for these, which are one step
together: noting an error and setting `_stop` behind it; looking at `_stop` or
`is_running` and the swap that follows, in the worker; the assignments of
`start_turn` and the start of its thread; `stop_turn`'s taking of the queue and
putting of the end; `queue.get` and what the thread does with the element before its
next access; the start of the microphone and of both threads. In each of them a step
of another thread in between has the effect it has before or after, with one
exception: a worker that cleans up the player under the hands of a late receiver may
find `start_turn` half done. The properties of playback end where the worker takes
the player (`PlayerTaken`), and the worker's waits have timeouts there as elsewhere.

### ModularSession

The tasks of `StreamingSession.run`: `rx`, `audio` and `turn` are the loops in the
task group, `asrTask`, `text` and `voice` the tasks they start, and `main` is `run`.
Each names its await. `recognizer`, `synth` and `producer` are the sides of the
providers that SDK threads drive; their event queues have the overflow rule of
`_offer` (the oldest is dropped for an error, later events are ignored).
`CancelLoops` is what the task group does on the first failure, `Deadline` the
cancellation from outside. Texts are deltas with numbers: `held` are those the
segmenter keeps, `segments` the queue, `spoken` what the synthesizer was sent. A
turn's audio is numbered in `aired`. A send to a client that is gone fails.

### TurnVAD

A step is one frame, speech or not; `handed` is what was put into the events, by
frame number. `candidate` and `preRoll` are the code's deques.

### DirectionalAudio

`InputCallback` and `QueueInput`, `OutputCallback`, `NextChunk` and `WriteFrames`
are the two callbacks of the devices; `ReadInput` and `Enqueue` are called by the
loops of `MeetingBridge`; `BeginClose`, `StopStreams` and `DrainQueues` are
`close()`. An adapter lets go of a part of the samples it holds; a change of the
sample rate makes a new one and loses the rest (`SwitchRate`). What is lost by
design, a chunk that finds the queue full, sets `refused`.

### RouteGuard

A device is its stable key, what its name matches and its channels. The boxes of
the window offer devices, the choice is saved as keys, the start resolves them
again among the devices plugged in, and validates. `Loopback` and `OpenAir` are
the physical truth, which the program cannot see; `NamesAssumption` says what
names promise of it.

### OneShot

`handler[r]` is the await a request is at, `synthesis[r]` the thread of its
pipeline, which goes on when the handler does not. The clock is the age of
published audio. `GatewayCrash` takes handlers and threads; files stay. `Reject`
is a bad upload or a failed stage, `GiveUp` the client's timeout.

### DesktopWindow

`inbox` is the event queue of the window's thread: signals of workers, delivered
in order, possibly after the next worker was started. The enabled buttons are
variables, and a handler runs only from an enabled one. `astray` remembers that
the mode was changed, or the audio check run, while something ran: these two are
enabled when they should not be, and `window_exit` shows where that leads.

## 4. Runs

| Run | Shows | Bounds |
|---|---|---|
| `gateway` | slots and upstream connections, pipelines, seats | two settings: 4 handlers of 2 tokens with limits of 3 and 2, both of which bite; or 2 of them with 2 bridges: same role, other role, other token, other bridge |
| `gateway_close` | **violated**: the upstream count is not returned | 1 handler |
| `stream_ends` | the client's threads; and every admitted handler ends | 2 handlers of one token; a send queue of 2, so that a chunk taken out of turn has another behind it, the other queues of 1; the client in two settings: `hear`, headphones, 3 chunks and no speech: each queue fills and overflows; `play`, both modes, 1 chunk and a turn of 2 frames: the player's queue overflows, and the writer holds one frame back and flushes it, or both |
| `client_pause` | **violated**: safe mode captures nothing while it plays | queues of 1, 1 chunk, 1 turn of 1 frame |
| `client_turn` | **violated**: every turn that is ended is played | a player's queue of 2, 1 turn of 1 frame |
| `small_parts` | registry: members are live sessions, seats lost only by expiry, kept while touches are punctual, refinement; stream: audio in order and before the end, every event or a failure, the end delivered, stop ends if there is room; devices, route, window | registry: 2 bridges, 2 tokens, 3 sessions, ttl 2 s (6 ticks), interval 1 s (3 ticks); touches up to 4 late, so that records expire under live sessions and are recreated by others; up to 2 in the behaviours called punctual, the largest delay below ttl minus interval. Stream: queues of 2, 4 chunks, 4 events: each queue fills, overflows, and empties again. An audio queue of 1, 4 samples in blocks of 3; 6 devices, two of one key; 2 workers |
| `large_parts` | bridge, one-shot requests; turns: pairing, audio and completion | 2 directions (as in the code), 1 daemon stop at a time besides the worker; 2 requests for a gate of 1 and 1 crash; 2 utterances and responses, 2 audio deltas in all, for one response or one for each: either stream may be two turns ahead, two responses can interleave, a delta can follow a delta. A partial text is empty or new: one that is the same as displayed leads to no other state |
| `turns_silent` | **violated**: pairing after a silent utterance | 2 utterances, the first silent |
| `stream_stop` | **violated**: stop always ends the session | queues of 1, 2 chunks, no events |
| `modular` | no loss, release, report and end of a modular session; the detector | queues of 1, 2 turns, so that a turn begins while another is spoken; 10 frames, bursts of 2, turns of 4: a turn ends by force and another follows it |
| `meeting_report` | **violated**: the failure of both directions is reported | as above |
| `window_exit` | **violated**: a closed window has left nothing running | 2 workers: a bridge and an audio check |

Some runs hold parts that share no state: `part`, chosen in the initial state,
says which of them a behaviour is of, and the others stay as they began. Fairness
is then stated of the part that moves. In `small_parts` only the registry uses the
sets whose elements may be permuted; the liveness property there, `StopEnds`, is of
the stream, whose behaviours leave the registry in its initial state, which is the
same under every permutation, so that no state of such a behaviour stands for
another. The other two temporal properties there are about single steps.

Deadlock is not checked: in every run handlers, sessions, threads and bounded
sequences of audio all end. That nothing waits for ever is the business of the
liveness properties.

Every property of a passing run has a mutation of the code, defined next to the
original, that violates it (`PROJECT.json`, "mutants"). The type invariants, and
`TokenLimit`, `NoEmptyRecord`, `TurnsAreMatchings`, `OneOpenAudio`, `CompletedTurns`
and `TurnIsBounded`, are proved and therefore in no run.

### Fairness

* `GatewayStream`: the deadline timer fires; the event loop resumes a handler
  whose await is over; and the awaits that end by themselves do: those with a
  timeout (first message, connect, handshake, close), and those for tasks that
  were cancelled. Nothing is assumed of service or of finish, so
  `AdmittedHandlersEnd` rests on the deadline where the client or the upstream
  hangs.
* `LiveTranslateStream`: the event loop runs every task whose await is over; a
  frame sent to the upstream is sent or fails, since `ping_timeout` closes a
  connection that does not answer, and so is a frame sent to the client; the
  timeout of `finish` fires; a broken connection ends the receiver. Nothing is
  assumed of the client or of the upstream. No behaviour is endless, so one
  condition on the union of these steps is enough.
* `StreamingClient`: the operating system runs the worker's thread, and nothing
  else is assumed: every wait of that thread has a timeout, so `StopReturns` does
  not need the others.
* `ModularSession`: the event loop runs every task whose await is over, and the
  calls of the SDKs that are under way return (they have timeouts). Nothing is
  assumed of the client, of the events of the providers, or of the deadline.
* `MeetingBridge`: every thread runs, calls with timeouts return, the sender
  looks at its event every 250 ms, a receiver leaves a connection that was
  closed or told to stop. Nothing is assumed of the user or of a healthy
  network. No behaviour of the module is endless, so one weak fairness condition
  on the union of these steps is the same as one for each.

### What the violated runs show

* `gateway_close`: the deadline strikes while `cancel()` awaits
  `connection.close()`; `suppress(Exception)` lets the cancellation through, the
  count of `active_connections` is never lowered and the second `cancel()`
  returns at once.
* `turns_silent`: after an utterance without source text, the response to it
  opens a turn that the next utterance joins; from there on subtitles and
  translations are off by one.
* `stream_stop`: the sender has failed on a broken connection and the client has
  filled the audio queue before `session.stop`; `finish()` then awaits
  `put(None)` on a queue that nobody empties, before it looks at the sender. The
  receiver's failure does not help: `run` no longer waits for it. Only the
  session's deadline (`GatewayStream`) ends this.
* `client_pause`: the worker's `stop()` has taken `_stream` and is about to stop the
  stream when `tts.audio.start` arrives: `is_running` is False, the receiver skips
  its own stop and starts the turn, and its writer writes to the device while the
  stream captures. `PlaybackPausesMicrophone` is what does hold: the microphone was
  told to stop, and nobody starts it before the writer is over.
* `client_turn`: `stop_turn` sets `_queue` to None before the writer's thread has
  executed its first statement. The assertion there ends the thread outside its
  `try`, so that `_error` stays None; the join returns at once and `stop_turn`
  hands the file of the turn on as if it had been played. `EndedTurnIsPlayed` is
  what holds of every writer that has begun.
* `meeting_report`: the worker compares the state with `FAILED` after `stop()`
  has made it `STOPPED`, so "both directions have failed" is never shown.
* `window_exit`: a bridge runs, and the button of the audio check is still enabled,
  because starting a bridge does not look at it again; the check takes the place
  of the bridge in `_worker` and `_thread`. Once its thread is over, `closeEvent`
  finds nothing to stop or to wait for and accepts, and the bridge runs on.

## 5. Proofs

`BridgeRegistryProofs`, for any sets of bridges (finite), tokens and sessions, any
limit, ttl and delay, under the assumptions `RegistryAssumption` and
`ClaimAssumption` of `BridgeRegistry`:

* `RegistryInvariant`: `Spec => []RegistryInv`. The invariant is inductive. It
  joins the types of owner, members and registration with `NoGhostMember` and
  `NoEmptyRecord`, which need each other: `Release` looks only at the role's
  holder, and that the record becomes empty exactly when the owner is cleared
  follows from members being registrations with the owner's token.
* `NoGhostTheorem`, `NoEmptyRecordTheorem`: its consequences.
* `TokenLimitTheorem`: by induction over the steps with the invariant;
  expiry and release only shrink the set of bridges a token holds, a
  registration adds at most one, and does so below the limit.
* `LiveSessionKeepsSeatTheorem`, under `TouchesInTime` (the touch interval plus
  the largest delay is below the ttl): the strengthening says that the age of
  the record of a live session is at most the time its touch task has slept.
* `PunctualSeatTheorem`: the same argument from what is true of a behaviour whose
  touches happen to be punctual, whatever the delays it is capable of.
* `TypeTheorem`, and `SeatTheorem` for the action property
  `SeatLostOnlyByExpiry`: `SeatStep` shows step by step that a registration never
  overwrites a seat and a release clears only its own.

There too: `RefinementTheorem`, the registry implements `BridgeMembership`. The parties are the occupied seats (`SeatParties`).
`KeptParties` says that the clean-up forgets the parties of the expired bridges
and no others, `RegisterJoins` that an accepted registration is a `Join`,
`ReleaseLeaves` that a release is a `Leave` or changes nothing; refused
registrations and clean-ups are an `Expire`, touches and ticks stutter. The
invariant is needed for `Release`: without `NoGhostMember` it could clear the
record of a bridge that still has a party.

`BridgeMembershipProofs`: what the membership promises to the connection handlers,
one holder per role and one token per bridge (`OneHolderTheorem`), and the limit
of bridges per token (`WithinLimitTheorem`).

`LiveTranslateTurnsProofs`, for any number of utterances, under
`TurnsAssumption`; all but `OneFinalTheorem` also assume that every utterance gets
its source text (`EveryUtteranceHasText`), and `turns_silent` shows why:

* `PairInvariant`: utterance u is in no turn or in turn u, all before it are then
  in a turn too, and the same for responses; a turn exists exactly if it has a
  side. The lookups take the oldest waiting turn, and `ItemTurnIsOwn` and
  `ReplyTurnIsOwn` show that for the next utterance or response this is the turn
  of its own number, or a new one of that number. `PairingTheorem` and
  `MatchingTheorem` follow.
* `OneOpenAudioTheorem`, `AudioInsideTheorem`: the open turn is the one of the
  active response, and binding never moves a response to another turn. The
  second also assumes `LateAudio = FALSE`: the code does not look at
  `audio_ended` when a delta arrives.
* `OneFinalTheorem`: a response that has sent its final translation has a
  finalized normalizer, which no event undoes.
* `CompletedTheorem`, `TypeTheorem`.

There too: `PairingRefinementTheorem`. Its own invariant,
`OrderInv`, says that the turns with an utterance are the first ones, and so are
the turns with a response; the mapped sequences are then 1..h and 1..a.

`LiveTranslateStreamProofs`, for queues of any size and any number of chunks and
events, under `StreamAssumption`:

* `TypeTheorem`: types and the bounds of both queues.
* `EventInvariant`: `EventInv` is inductive. The end of the receiver is the last
  thing in the queue (`EndIsLast`); as long as no failure is in the queue or was
  taken from it, the handled events, the one in hand and the queued ones are an
  interval (`EventsInOrder`). A failure leaves a gap, after which only its
  delivery is promised. `DeliveredTheorem` and `CompletedTheorem` follow.
* `AudioInvariant`: `Line`, what was sent, what the sender holds and what is queued,
  is `1..accepted` in order, with the end behind it once `finish` has put it
  there; by `ReturnedHasSent` a sender that has seen the end has sent all of it,
  because the end differs from every chunk and stands behind them.
  `OrderTheorem` and `FinishTheorem` follow.

`StreamEndsProofs`, about the connection handlers, for any finite sets of
handlers and bridges, any tokens and roles, any limits, with the fallback and without it, under
`GatewayAssumption` and `NoClaimAssumption` (no claim is not a party):

* `HandlerInvariant`: `HandlerInv` says of each await what the code after it takes
  for granted: which pipeline is there, whether its upstream counts itself in,
  whether the session was cleaned up, whether the deadline has struck. A step of
  one handler leaves the others' variables alone (`Same`), so one handler at a time
  is enough. `UpstreamClosedTheorem`, `OnePipelineTheorem` and `NoServiceTheorem`
  follow: the deadline may strike at any of the awaits, and the place where it
  struck decides what the clean-up still has to do.
* `SlotsTheorem`: the counters are the sizes of the sets of handlers that hold a
  slot. The sets change by one handler at a time, and the release of a handler is
  reached once; `ConnectedTheorem` is the same for `active_connections`.
* `PartyHasHandlerTheorem`: a handler that gives its seat back also clears its
  claim, and only the handler's own steps seat it. `RosterTheorem`: every step is
  a step of `BridgeMembership` or none, so that `SeatsTheorem` takes the theorems
  of `BridgeMembershipProofs` over to the handlers as they are.

`StreamEndsProofs`, about the client's threads, for queues of any size and any number
of chunks and turns, under `ClientAssumption`. `ClientInvariant` is inductive:

* `OutcomeFits` ties the outcome to the worker's place. A failure may be noted by
  the sender or the receiver at any time; all parts below are about sessions that
  have not failed.
* `SenderInv`: the mark that ends the send queue is put once, last, and after the
  pump is over, so that a sender that has returned without an error has left
  nothing. `HeardInv`: what was captured lies in order along its way, sent, in the
  sender's hand, queued, held by the pump, in the microphone's queue; once a chunk
  was dropped the pump never puts another. `HeardTheorem` follows.
* `TurnInv`: the places of receiver and writer, the player's queue and the
  microphone fit together until the worker takes the player away. In safe mode
  `_stream` is not set from the time that the receiver has taken it, or found that
  it was not, until the writer was waited for, and the receiver's own stream is
  loose only while it stops it before the turn or starts it after: `PauseTheorem`.
  Nothing is claimed of a stream that the worker has taken meanwhile (`client_pause`).
* `PlayInv`: what was fed is what was played, what the writer holds back and what is
  queued; the mark of the end is last; and what is held back when the writer meets it
  is written before the writer ends. `PlayedTheorem`, of every writer that has begun.
  `QuietInv` follows the connection and the microphone, in `_stream` or being
  stopped, of a session on its way to completion; `QuietTheorem`.

`MeetingBridgeProofs`, for any number of daemon stops, under `BridgeAssumption`.
`MeetingInvariant` is inductive:

* `StartInv`: until `start()` has started the last direction no thread of it
  exists, so nothing can have failed twice and no daemon stop is under way. Without
  it a stop could overtake the start and leave a device open.
* `CloseInv`: a thread in `stop()` has closed the directions its tour has behind
  it, and nobody opens one after that; a worker is finished when its own second
  tour is over. `FinishedIsClosedTheorem`.
* `WarrantInv`: a direction that was counted as failed stays failed and has its
  error set; so a count of two, though made without a lock and acted upon later,
  still means that both have failed. `StopIsWarrantedTheorem`.
* `DirectionsAreIsolatedTheorem` (an action property): only threads of a direction
  or of a warranted stop close its devices. `TypesTheorem`.

`ModularSessionProofs`, about the detector, for every threshold and any length of
audio, under `DetectorAssumption`:

* `DetectorInvariant`: `DetectorInv` is inductive. The border is the last frame
  before the current burst; what was handed on is increasing and ends at or
  before the border, the pre-roll is increasing and lies between the two
  (`InTime`), the burst is exactly the frames after the border and shorter than
  `MinSpeech` (`BurstIsLatest`), and the frame at the border is no speech or in a
  turn, until the input has ended (`BorderIsNoLoss`).
* `FramesOnceTheorem` follows from `InTime`; `SpeechTheorem` is part of the
  invariant, because a run of speech that reaches the newest frame is either in
  the burst, which is shorter than `MinSpeech`, or meets a frame of a turn.
* `TurnBoundTheorem`: a turn in progress is bounded also when the settings are at
  odds, as a shortest burst longer than the longest turn.

`ModularSessionProofs`, about the session, for queues of any size and any number of
turns, deltas and chunks, under `ModularAssumption`. `SessionInvariant` joins what
each loop knows of the others:

* `RunInv`, `AudioInv`, `RecognizerInv` and `SynthInv`: the place of `run`, what it
  has told the client and the errors of the group; what the audio loop has left of
  the detector's events at each await; where the providers are at each await of the
  loop that owns them. `EndTheorem` and `ReleasedTheorem` follow.
* `TurnsInv`: as long as nothing has failed every turn that began is over, or with
  the audio loop, in the queue, or with the turn loop; the end of the turns is
  last in the queue and put after the audio loop is done. When the turn loop has
  taken it, every turn is over.
* `TranslatorInv` and `TextInv`: the final translation or an error is the last
  thing the translator's thread puts. The deltas lie in order along their way,
  spoken, in the segments of the text queue, held by the segmenter, in the
  translator's queue; `Upper(i)`, the last delta up to the i-th segment, makes this
  a statement about neighbours only. A text task that fails lets go of all that,
  and then the turn does not complete.
* `VoiceInv`: the same for the synthesizer's audio, with the difference that a full
  queue loses events: `Offer` replaces the oldest by an error and ignores what
  follows, so either there is an error in the queue (`AudioLost`), which fails the
  turn when it is met, or nothing was lost (`AudioInOrder`). `NothingLostTheorem`
  follows: at the turn's end given and spoken, made and aired are the same.

`DesktopProofs`, about the route guard, for every set of devices, under
`RouteAssumption` and `NamesAssumption`: `NoFeedbackTheorem`. The invariant says that a running route
was accepted; `LoopGuardSeparates` takes from the guard the three pairs that the
argument needs, and `AcceptedRouteIsDeaf` shows that no input of an accepted
route hears an output: the two virtual devices differ, a loopback is virtual and
so not the microphone, and nothing that is called headphones or BlackHole sounds
in the room. The other two pairs of the guard are not needed for it.

`DesktopProofs`, about the devices, for queues and blocks of any size, under
`AudioAssumption`:

* `ClosedIsSilentTheorem`: once the streams are stopped no callback is half way, so
  what is thrown away afterwards stays away (`DeviceInv`).
* `PlaybackTheorem`: the track, what was played, what is left of the chunk in the
  callback's hands and the queued chunks put together, changes at its end only: a
  chunk moves along it unchanged (`NextChunkTrack`, `WriteFramesTrack`), the
  adapter continues it (`TrackGoesOn`), a close or a change of rate sets the mark
  behind all of it (`TrackBeginsAnew`). What the queue holds is flattened by a
  recursive function; `FlattenAppend` and `FlattenHead` are inductions over the
  chunks, from `NatSetInduction`, which is the library's least element of a
  well-founded order put as a set.

`DesktopProofs`, about one-shot requests, for any number of them and any limit, under
`OneShotAssumption`: `ShotInvariant`. `GateInv` says that the gate counts the handlers
inside it and that an uploaded file belongs to one of them or to a handler that was
cut off, `ServeInv` that an answered request's audio is published or over age; the
thread of a pipeline runs on only below a handler that waits for it.
`GateTheorem`, `AnswerTheorem`.

`DesktopProofs`, about the window, for any number of workers, under
`WindowAssumption`: `WindowInvariant`. Unless the program was led astray
(`window_exit`) only the current worker is not over, all signals on their way are
its own, they tell how far it is, and `gone` is the last of them; a session that
runs has its stop button or was already asked to stop. The signals make the
induction: a button is enabled by a signal that may be handled long after it was
sent. `StoppableTheorem`.

Only model-checked: the liveness properties, `AdmittedHandlersEnd`, `StopReturns`,
`SessionEnds` and the two `StopEnds`, since liveness under fairness and `ENABLED` are
out of reach of the prover, and the disagreements that the violated runs show.

## 6. Not modelled

* `reconnect()` of the bridge controller: only a test calls it. The join timeout
  of 20 s of its loops is taken as enough.
* The segmenter and the normalizers: where a text is cut is a matter of
  punctuation and length; `ModularSession` keeps that deltas are held back until
  a segment, the final one or a poll lets them go.
* Settings, authentication, message parsing and error texts: no state. Limits are
  constants of the modules.
* `audio_doctor.py` measures levels; labels, dialogs, logs and metrics of the
  window and of the sessions decide nothing.
* Tools, smoke and soak tests, mocks and deployment are not part of what runs.
