---------------------------- MODULE DirectionalAudio ----------------------------
(***************************************************************************)
(* The devices of one direction of a meeting bridge                        *)
(* (client meeting/audio_io.py DirectionalAudioIO with the adapters of     *)
(* meeting/audio_format.py).                                               *)
(*                                                                         *)
(* The two device callbacks, the sender loop that reads, the receiver loop *)
(* that enqueues and whoever opens or closes the devices are threads; a    *)
(* step is one access to a queue or a flag.  Samples of translated audio   *)
(* and chunks of captured audio are numbered.  A sample of the model is    *)
(* what the resampler makes of one or more of the program's.               *)
(***************************************************************************)
EXTENDS Naturals, Sequences, SequencesExt

CONSTANTS AudioQueueMax,  \* queue_max_chunks
          Block,          \* frames a device asks for at a time
          MaxCaptured,    \* bound: chunks the input device delivers
          MaxSamples      \* bound: samples the gateway sends

ASSUME AudioAssumption ==
  /\ {AudioQueueMax, Block} \subseteq Nat \ {0}
  /\ {MaxCaptured, MaxSamples} \subseteq Nat

VARIABLES
  device,       \* how far start() or close() has come
  closedFlag,   \* _closed
  capturedNo,   \* chunks the input device has delivered
  copying,      \* chunk the input callback is about to queue
  inq,          \* _input_queue
  samples,      \* samples enqueue_output_pcm was given
  resampled,    \* how many of them the output adapter has let go
  outq,         \* _output_queue, of sequences of samples
  pending,      \* _output_pending
  left,         \* frames the output callback has still to write
  playedNos,    \* samples written to the device
  refused,      \* enqueue_output_pcm has raised
  cut           \* samples the gateway had sent at the last close or change of rate

inputVars  == <<capturedNo, copying, inq>>
outputVars == <<samples, resampled, outq, pending, left, playedNos, refused, cut>>
deviceVars  == <<device, closedFlag, inputVars, outputVars>>

-------------------------------------------------------------------------------

NoCopy == 0

DeviceInit ==
  /\ device = "closed" /\ closedFlag = TRUE
  /\ capturedNo = 0 /\ copying = NoCopy /\ inq = <<>>
  /\ samples = 0 /\ resampled = 0 /\ outq = <<>> /\ pending = <<>> /\ left = 0
  /\ playedNos = <<>> /\ refused = FALSE /\ cut = 0

\* Streams whose callbacks run.
OutputRuns == device \in {"output", "both", "closing"}
InputRuns  == device = "both"

\* start(): the output stream, then the input stream; if that one does not start, both
\* are closed again.
StartOutput ==
  /\ device = "closed"
  /\ closedFlag' = FALSE /\ device' = "output"
  /\ UNCHANGED <<inputVars, outputVars>>

StartInput ==
  /\ device = "output"
  /\ device' \in {"both", "closing"}
  /\ UNCHANGED <<closedFlag, inputVars, outputVars>>

\* close(): from now on the input callback discards.
BeginClose ==
  /\ device \in {"both", "closing"} /\ ~closedFlag
  /\ closedFlag' = TRUE /\ device' = "closing"
  /\ UNCHANGED <<inputVars, outputVars>>

\* Mutation: the streams are stopped after the queues were emptied.
StopStreamsLate ==
  /\ device = "closing" /\ closedFlag
  /\ device' = "stopped"
  /\ UNCHANGED <<closedFlag, inputVars, outputVars>>

\* The devices stop when their callbacks have returned.
StopStreams ==
  /\ device = "closing" /\ closedFlag /\ copying = NoCopy /\ left = 0
  /\ device' = "stopped"
  /\ UNCHANGED <<closedFlag, inputVars, outputVars>>

\* The queues and what the callback had left over are thrown away, the adapters reset.
ThrowAway ==
  /\ inq' = <<>> /\ outq' = <<>> /\ pending' = <<>> /\ resampled' = samples /\ cut' = samples
  /\ UNCHANGED <<closedFlag, capturedNo, copying, samples, left, playedNos, refused>>

DrainQueues == device = "stopped" /\ device' = "closed" /\ ThrowAway

\* A second close(), by the thread that stops the direction while the one that failed
\* is still closing it: it finds no streams and empties the queues at once.  So does the
\* close() of a start() that could not open a stream.
CloseAgain ==
  /\ device \in {"closing", "stopped", "closed"} /\ closedFlag
  /\ ThrowAway /\ UNCHANGED device

-------------------------------------------------------------------------------
(* Captured audio.                                                         *)

\* _input_callback, up to the queue.
InputCallback ==
  /\ InputRuns /\ copying = NoCopy /\ ~closedFlag /\ capturedNo < MaxCaptured
  /\ capturedNo' = capturedNo + 1 /\ copying' = capturedNo'
  /\ UNCHANGED <<device, closedFlag, inq, outputVars>>

\* The chunk is queued; a full queue loses it, which is only counted.
QueueInput ==
  /\ copying # NoCopy /\ copying' = NoCopy
  /\ inq' = IF Len(inq) < AudioQueueMax THEN Append(inq, copying) ELSE inq
  /\ UNCHANGED <<device, closedFlag, capturedNo, outputVars>>

\* read_input_pcm.
ReadInput ==
  /\ inq # <<>> /\ inq' = Tail(inq)
  /\ UNCHANGED <<device, closedFlag, capturedNo, copying, outputVars>>

-------------------------------------------------------------------------------
(* Translated audio.                                                       *)

\* The samples after the first a, up to the b-th.
Samples(a, b) == [i \in 1..(b - a) |-> a + i]

\* enqueue_output_pcm: the adapter lets go of some of the samples it holds; the
\* receiver loop may come with them after close().
Enqueue(n, k) ==
  /\ ~refused /\ samples + n <= MaxSamples
  /\ samples' = samples + n
  /\ resampled' = resampled + k /\ resampled' <= samples'
  /\ \/ k = 0 /\ UNCHANGED <<outq, refused>>
     \/ /\ k > 0 /\ Len(outq) < AudioQueueMax
        /\ outq' = Append(outq, Samples(resampled, resampled + k)) /\ UNCHANGED refused
     \/ /\ k > 0 /\ Len(outq) = AudioQueueMax
        /\ refused' = TRUE /\ UNCHANGED outq
  /\ UNCHANGED <<device, closedFlag, inputVars, pending, left, playedNos, cut>>

\* Samples of another rate: a new adapter, and what the old one held is lost; refused
\* for good once anything was played.
SwitchRate ==
  /\ ~refused
  /\ IF playedNos = <<>>
     THEN resampled' = samples /\ cut' = samples /\ UNCHANGED refused
     ELSE refused' = TRUE /\ UNCHANGED <<resampled, cut>>
  /\ UNCHANGED <<device, closedFlag, inputVars, samples, outq, pending, left, playedNos>>

\* _output_callback: the device asks for a block.
OutputCallback ==
  /\ OutputRuns /\ left = 0
  /\ left' = Block
  /\ UNCHANGED <<device, closedFlag, inputVars, samples, resampled, outq, pending, playedNos,
                 refused, cut>>

\* Mutation: what a block does not need of a chunk is forgotten.
NextChunkDropsRest ==
  /\ left > 0 /\ pending = <<>> /\ outq # <<>>
  /\ pending' = SubSeq(Head(outq), 1, IF Len(Head(outq)) < left THEN Len(Head(outq)) ELSE left) /\ outq' = Tail(outq)
  /\ UNCHANGED <<device, closedFlag, inputVars, samples, resampled, left, playedNos, refused,
                 cut>>

\* The next chunk of the queue.
NextChunk ==
  /\ left > 0 /\ pending = <<>> /\ outq # <<>>
  /\ pending' = Head(outq) /\ outq' = Tail(outq)
  /\ UNCHANGED <<device, closedFlag, inputVars, samples, resampled, left, playedNos, refused,
                 cut>>

\* As much of it as the block needs is written.
WriteFrames ==
  /\ left > 0 /\ pending # <<>>
  /\ LET take == IF Len(pending) < left THEN Len(pending) ELSE left
     IN  /\ playedNos' = playedNos \o SubSeq(pending, 1, take)
         /\ pending' = SubSeq(pending, take + 1, Len(pending))
         /\ left' = left - take
  /\ UNCHANGED <<device, closedFlag, inputVars, samples, resampled, outq, refused, cut>>

\* Nothing to play: the rest of the block is silence.
Underrun ==
  /\ left > 0 /\ pending = <<>> /\ outq = <<>>
  /\ left' = 0
  /\ UNCHANGED <<device, closedFlag, inputVars, samples, resampled, outq, pending, playedNos,
                 refused, cut>>

-------------------------------------------------------------------------------

DeviceNext ==
  \/ StartOutput \/ StartInput \/ BeginClose \/ StopStreams \/ DrainQueues \/ CloseAgain
  \/ InputCallback \/ QueueInput \/ ReadInput
  \/ \E n \in 1..2, k \in 0..2 : Enqueue(n, k)
  \/ SwitchRate \/ OutputCallback \/ NextChunk \/ WriteFrames \/ Underrun

DeviceSpec == DeviceInit /\ [][DeviceNext]_deviceVars

-------------------------------------------------------------------------------
(* Properties.                                                             *)

\* Samples that were let go by the adapter and not thrown away, in the order in which
\* the device gets them.
Track == playedNos \o pending \o FlattenSeq(outq)

\* Translated audio is played in order and without a gap however the blocks the device
\* asks for cut through the chunks: what came since the last close or change of rate
\* follows what was there before it, and nothing of it is lost, repeated or overtaken,
\* but for a chunk that found the queue full.
PlaybackIsContinuous ==
  LET track == Track
  IN  \E n \in 0..Len(track) :
        /\ \A i \in 1..n : track[i] <= cut
        /\ \A i \in (n + 1)..Len(track) : track[i] = cut + (i - n)
        /\ ~refused => cut + (Len(track) - n) = resampled

\* Once closed, nothing that was captured before, nor the rest of a chunk that was
\* playing, is left for the next start.
ClosedIsSilent == device = "closed" => inq = <<>> /\ pending = <<>> /\ copying = NoCopy

===============================================================================
