\* The registry: a ttl of two seconds and a touch interval of one; the event loop is at
\* most two ticks late in punctual behaviours, and four otherwise, when the records of
\* live sessions expire, are recreated by others and released late.
\* The tasks: queues of two, filled by up to four chunks and four events.
\* The devices of one direction: a queue of size 1, which overflows.  The window: two
\* workers.
CONSTANTS
  Bridge = {b1, b2}
  Token = {t1, t2}
  Session = {s1, s2, s3}
  NoToken = NoToken
  NoSession = NoSession
  NoClaim = NoClaim
  MaxActivePerToken = 1
  TTLSeconds = 2
  MaxDelay = 4
  PunctualDelay = 2
  QueueSize = 2
  MaxChunks = 4
  MaxEvents = 4
  AudioQueueMax = 1
  Block = 3
  MaxCaptured = 2
  MaxSamples = 4
  desk = desk
  speakers = speakers
  headset = headset
  twin = twin
  bh2 = bh2
  bh16 = bh16
  NoKey = NoKey
  Device = {desk, speakers, headset, twin, bh2, bh16}
  Key = {desk, speakers, headset, bh2, bh16}
  KeyOf <- KeyDef
  NamedChannels <- NamedChannelsDef
  Inputs <- InputsDef
  Outputs <- OutputsDef
  SaysVirtual = {bh2, bh16}
  SaysBlackHole = {bh2, bh16}
  SaysHeadphones = {headset, twin}
  Loopback = {bh2, bh16}
  OpenAir = {speakers}
  MaxWorkers = 2
SPECIFICATION MCSpec
SYMMETRY Symmetry
CHECK_DEADLOCK FALSE
INVARIANTS
  SeatsKeptWhenPunctual
  NoGhostMember
  AudioInOrder
  AudioBeforeFinish
  CompletedHandledAll
  EndIsDelivered
  PlaybackIsContinuous
  ClosedIsSilent
  NoFeedback
  RunCanBeStopped
PROPERTIES
  SeatLostOnlyByExpiry
  ImplementsMembership
  StopEnds
