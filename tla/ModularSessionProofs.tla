-------------------------- MODULE ModularSessionProofs --------------------------
(***************************************************************************)
(* Theorems about a modular session: the detector that cuts the client's   *)
(* audio into turns (TurnVAD), and the loops, threads and queues of the    *)
(* session that translates them (ModularSession).                          *)
(*                                                                         *)
(* The detector, for every threshold and any number of frames: the frames  *)
(* that were handed on, those of the pre-roll and those of the burst       *)
(* follow each other in this order and in time, the burst ends with the    *)
(* latest frame, and the frame before the burst was no speech or was       *)
(* handed on.                                                              *)
(*                                                                         *)
(* The session, for queues of any size and any number of turns, deltas and *)
(* chunks: every turn that began is with the audio loop, in the queue, with   *)
(* the turn loop or over; the deltas of its translation lie in order along *)
(* the queues from the translator to the synthesizer; the chunks of its    *)
(* audio are sent or queued in order unless an error behind them fails the *)
(* turn; and the providers are where the loops that own them are.          *)
(***************************************************************************)
EXTENDS ModularSession, TurnVAD, SequenceTheorems, TLAPS

-------------------------------------------------------------------------------
(* The detector.                                                           *)

Increasing(s) == \A i, j \in 1..Len(s) : i < j => s[i] < s[j]

\* Every number in s is smaller than every number in t.
Before(s, t) == \A i \in 1..Len(s), j \in 1..Len(t) : s[i] < t[j]

UpTo(s, n) == \A i \in 1..Len(s) : s[i] <= n

-------------------------------------------------------------------------------
(* Sequences of numbers.                                                   *)

\* A sequence that ends where another begins: the two in a row increase.
LEMMA ConcatIncreasing ==
  ASSUME NEW s \in Seq(Nat), NEW t \in Seq(Nat), Increasing(s), Increasing(t), Before(s, t)
  PROVE  Increasing(s \o t)
<1> SUFFICES ASSUME NEW i \in 1..Len(s \o t), NEW j \in 1..Len(s \o t), i < j
             PROVE  (s \o t)[i] < (s \o t)[j]
  BY DEF Increasing
<1>1. Len(s) \in Nat /\ Len(t) \in Nat /\ Len(s \o t) = Len(s) + Len(t)
  BY LenProperties, ConcatProperties
<1>2. \A k \in 1..Len(s \o t) :
        (s \o t)[k] = IF k <= Len(s) THEN s[k] ELSE t[k - Len(s)]
  BY ConcatProperties
<1>3. CASE j <= Len(s)
  BY <1>1, <1>2, <1>3 DEF Increasing
<1>4. CASE i <= Len(s) /\ ~(j <= Len(s))
  <2>1. i \in 1..Len(s) /\ j - Len(s) \in 1..Len(t)
    BY <1>1, <1>4
  <2>2. s[i] < t[j - Len(s)]
    BY <2>1 DEF Before
  <2> QED
    BY <1>2, <1>4, <2>2
<1>5. CASE ~(i <= Len(s))
  <2>1. i - Len(s) \in 1..Len(t) /\ j - Len(s) \in 1..Len(t) /\ i - Len(s) < j - Len(s)
    BY <1>1, <1>5
  <2>2. t[i - Len(s)] < t[j - Len(s)]
    BY <2>1 DEF Increasing
  <2>3. ~(j <= Len(s))
    BY <1>1, <1>5
  <2> QED
    BY <1>2, <1>5, <2>2, <2>3
<1> QED
  BY <1>3, <1>4, <1>5, <1>1

\* What is true of the numbers of two sequences is true of the two in a row.
LEMMA ConcatUpTo ==
  ASSUME NEW s \in Seq(Nat), NEW t \in Seq(Nat), NEW n \in Nat, UpTo(s, n), UpTo(t, n)
  PROVE  UpTo(s \o t, n)
<1> SUFFICES ASSUME NEW i \in 1..Len(s \o t) PROVE (s \o t)[i] <= n
  BY DEF UpTo
<1>1. Len(s) \in Nat /\ Len(t) \in Nat /\ Len(s \o t) = Len(s) + Len(t)
  BY LenProperties, ConcatProperties
<1>2. (s \o t)[i] = IF i <= Len(s) THEN s[i] ELSE t[i - Len(s)]
  BY ConcatProperties
<1>3. CASE i <= Len(s)
  BY <1>1, <1>2, <1>3 DEF UpTo
<1>4. CASE ~(i <= Len(s))
  <2>1. i - Len(s) \in 1..Len(t)
    BY <1>1, <1>4
  <2> QED
    BY <1>2, <1>4, <2>1 DEF UpTo
<1> QED
  BY <1>3, <1>4

LEMMA ConcatBefore ==
  ASSUME NEW s \in Seq(Nat), NEW t \in Seq(Nat), NEW u \in Seq(Nat), Before(s, u), Before(t, u)
  PROVE  Before(s \o t, u)
<1> SUFFICES ASSUME NEW i \in 1..Len(s \o t), NEW j \in 1..Len(u) PROVE (s \o t)[i] < u[j]
  BY DEF Before
<1>1. Len(s) \in Nat /\ Len(t) \in Nat /\ Len(s \o t) = Len(s) + Len(t)
  BY LenProperties, ConcatProperties
<1>2. (s \o t)[i] = IF i <= Len(s) THEN s[i] ELSE t[i - Len(s)]
  BY ConcatProperties
<1>3. CASE i <= Len(s)
  BY <1>1, <1>2, <1>3 DEF Before
<1>4. CASE ~(i <= Len(s))
  <2>1. i - Len(s) \in 1..Len(t)
    BY <1>1, <1>4
  <2> QED
    BY <1>2, <1>4, <2>1 DEF Before
<1> QED
  BY <1>3, <1>4

\* Appending a number that is larger than all before it.
LEMMA AppendIncreasing ==
  ASSUME NEW s \in Seq(Nat), NEW n \in Nat, NEW m \in Nat, m < n, Increasing(s), UpTo(s, m)
  PROVE  /\ Append(s, n) \in Seq(Nat) /\ Len(Append(s, n)) = Len(s) + 1
         /\ Append(s, n)[Len(s) + 1] = n
         /\ \A i \in 1..Len(s) : Append(s, n)[i] = s[i]
         /\ Increasing(Append(s, n)) /\ UpTo(Append(s, n), n)
<1>1. /\ Append(s, n) \in Seq(Nat) /\ Len(Append(s, n)) = Len(s) + 1
      /\ Append(s, n)[Len(s) + 1] = n
      /\ \A i \in 1..Len(s) : Append(s, n)[i] = s[i] /\ s[i] \in Nat
  BY AppendProperties, ElementOfSeq
<1>2. Len(s) \in Nat
  BY LenProperties
<1>3. UpTo(Append(s, n), n)
  BY <1>1, <1>2 DEF UpTo
<1>4. Increasing(Append(s, n))
  <2> SUFFICES ASSUME NEW i \in 1..(Len(s) + 1), NEW j \in 1..(Len(s) + 1), i < j
               PROVE  Append(s, n)[i] < Append(s, n)[j]
    BY <1>1 DEF Increasing
  <2>1. i \in 1..Len(s)
    BY <1>2
  <2>2. CASE j = Len(s) + 1
    BY <1>1, <2>1, <2>2 DEF UpTo
  <2>3. CASE j \in 1..Len(s)
    BY <1>1, <2>1, <2>3 DEF Increasing
  <2> QED
    BY <1>2, <2>2, <2>3
<1> QED
  BY <1>1, <1>3, <1>4

-------------------------------------------------------------------------------
(* The invariant.                                                          *)

\* The frame the burst in progress follows: the latest one when there is no burst.
Border == frames - Len(candidate)

DTypeOK ==
  /\ frames \in Nat
  /\ voiced \subseteq 1..frames
  /\ candidate \in Seq(Nat) /\ preRoll \in Seq(Nat) /\ handed \in Seq(Nat)
  /\ active \in BOOLEAN /\ flushed \in BOOLEAN
  /\ length \in Nat /\ from \in Nat

\* The burst is the latest frames, one after the other, and is not long enough.
BurstIsLatest ==
  /\ Border \in Nat
  /\ \A i \in 1..Len(candidate) : candidate[i] = Border + i
  /\ Len(candidate) < MinSpeech

\* Handed frames, pre-roll and burst follow each other.
InTime ==
  /\ Increasing(handed) /\ UpTo(handed, Border)
  /\ Increasing(preRoll) /\ UpTo(preRoll, Border)
  /\ Before(handed, preRoll)

\* The frame the burst follows was no speech, or it is in a turn.
BorderIsNoLoss == ~flushed /\ Border >= 1 => Border \notin voiced \/ Heard(Border)

TurnIsNoBurst == active => candidate = <<>> /\ preRoll = <<>>

Longest == IF MinSpeech >= MaxTurn THEN MinSpeech + 1 ELSE MaxTurn

TurnLength ==
  /\ Len(preRoll) <= PreRoll
  /\ from <= Len(handed) /\ Len(handed) - from <= PreRoll + Longest
  /\ active => Len(handed) - from <= PreRoll + length /\ length < Longest

DetectorInv ==
  /\ DTypeOK /\ BurstIsLatest /\ InTime /\ BorderIsNoLoss /\ TurnIsNoBurst /\ TurnLength
  /\ SpeechIsHeard

LEMMA InitInv == DetectorInit => DetectorInv
<1> SUFFICES ASSUME DetectorInit PROVE DetectorInv
  OBVIOUS
<1> USE DetectorAssumption
<1>1. /\ frames = 0 /\ voiced = {} /\ candidate = <<>> /\ preRoll = <<>> /\ handed = <<>>
      /\ length = 0 /\ from = 0 /\ ~active /\ ~flushed
  BY DEF DetectorInit
<1>2. /\ candidate \in Seq(Nat) /\ Len(candidate) = 0
      /\ preRoll \in Seq(Nat) /\ Len(preRoll) = 0
      /\ handed \in Seq(Nat) /\ Len(handed) = 0
  BY <1>1, EmptySeq
<1>3. Border = 0
  <2>1. frames = 0 /\ Len(candidate) = 0
    BY <1>1, <1>2
  <2> QED
    BY <2>1 DEF Border
<1>4. DTypeOK
  <2>1. active \in BOOLEAN /\ flushed \in BOOLEAN
    BY Zenon DEF DetectorInit
  <2> QED
    BY <1>1, <1>2, <2>1 DEF DTypeOK
<1>5. BurstIsLatest
  BY <1>2, <1>3 DEF BurstIsLatest
<1>6. InTime
  BY <1>2, <1>3 DEF InTime, Increasing, UpTo, Before
<1>7. BorderIsNoLoss /\ TurnIsNoBurst
  BY <1>1, <1>3 DEF BorderIsNoLoss, TurnIsNoBurst
<1>8. TurnLength
  BY <1>1, <1>2 DEF TurnLength, Longest
<1>9. SpeechIsHeard
  BY <1>1 DEF SpeechIsHeard
<1> QED
  BY <1>4, <1>5, <1>6, <1>7, <1>8, <1>9 DEF DetectorInv

-------------------------------------------------------------------------------
(* Speech, step by step.                                                   *)

\* What was handed stays handed.
Extends == \A f \in Nat : Heard(f) => Heard(f)'

\* Speech is heard after a step that classifies a frame, if the new frame is no speech
\* or is handed, or else ends a burst that is still short.
LEMMA NewFrame ==
  ASSUME DTypeOK, BurstIsLatest, BorderIsNoLoss, SpeechIsHeard, ~flushed,
         NEW n \in Nat, n = frames + 1, frames' = n, voiced' \subseteq voiced \cup {n},
         Extends,
         \/ n \notin voiced'
         \/ Heard(n)'
         \/ Len(candidate) + 1 < MinSpeech
  PROVE  SpeechIsHeard'
<1> USE DetectorAssumption
<1> SUFFICES ASSUME NEW f \in 1..n, f + MinSpeech <= n + 1,
                    \A k \in f..(f + MinSpeech - 1) : k \in voiced'
             PROVE  \E k \in f..(f + MinSpeech - 1) : Heard(k)'
  BY DEF SpeechIsHeard
<1>1. frames \in Nat /\ Len(candidate) \in Nat /\ f \in Nat
  BY LenProperties DEF DTypeOK
<1>2. CASE f + MinSpeech <= frames + 1
  <2>1. f \in 1..frames
    BY <1>1, <1>2
  <2>2. \A k \in f..(f + MinSpeech - 1) : k \in voiced
    BY <1>1, <1>2
  <2>3. PICK k \in f..(f + MinSpeech - 1) : Heard(k)
    BY <1>2, <2>1, <2>2 DEF SpeechIsHeard
  <2>4. k \in Nat
    BY <1>1
  <2> QED
    BY <2>3, <2>4 DEF Extends
<1>3. CASE ~(f + MinSpeech <= frames + 1)
  <2>1. f + MinSpeech = frames + 2 /\ n \in f..(f + MinSpeech - 1)
    BY <1>1, <1>3
  <2>2. n \in voiced'
    BY <2>1
  <2>3. CASE Heard(n)'
    BY <2>1, <2>3
  <2>4. CASE Len(candidate) + 1 < MinSpeech
    <3>1. Border \in f..(f + MinSpeech - 1) /\ Border >= 1 /\ Border < n /\ Border \in Nat
      BY <1>1, <2>1, <2>4 DEF Border, BurstIsLatest
    <3>2. Border \in voiced
      BY <3>1
    <3>3. Heard(Border)
      BY <3>1, <3>2 DEF BorderIsNoLoss
    <3> QED
      BY <3>1, <3>3 DEF Extends
  <2> QED
    BY <2>2, <2>3, <2>4
<1> QED
  BY <1>2, <1>3

\* Frames that are put behind those already handed leave them where they are.
LEMMA ConcatExtends ==
  ASSUME NEW t \in Seq(Nat), handed \in Seq(Nat), handed' = handed \o t
  PROVE  Extends
<1> SUFFICES ASSUME NEW f \in Nat, Heard(f) PROVE Heard(f)'
  BY DEF Extends
<1>1. PICK i \in DOMAIN handed : handed[i] = f
  BY DEF Heard
<1>2. Len(handed) \in Nat /\ Len(t) \in Nat /\ DOMAIN handed = 1..Len(handed)
  BY LenProperties
<1>3. handed' \in Seq(Nat) /\ Len(handed') = Len(handed) + Len(t)
  BY ConcatProperties
<1>4. DOMAIN handed' = 1..Len(handed')
  BY <1>3, LenProperties
<1>5. i \in DOMAIN handed'
  BY <1>2, <1>3, <1>4
<1>6. handed'[i] = handed[i]
  BY <1>1, <1>2, ConcatProperties
<1> QED
  BY <1>1, <1>5, <1>6 DEF Heard

LEMMA AppendExtends ==
  ASSUME NEW n \in Nat, handed \in Seq(Nat), handed' = Append(handed, n)
  PROVE  Extends /\ Heard(n)'
<1>1. /\ handed' \in Seq(Nat) /\ Len(handed') = Len(handed) + 1
      /\ \A i \in 1..Len(handed) : handed'[i] = handed[i]
      /\ handed'[Len(handed) + 1] = n
  BY AppendProperties
<1>2. Len(handed) \in Nat /\ DOMAIN handed = 1..Len(handed) /\ DOMAIN handed' = 1..Len(handed')
  BY <1>1, LenProperties
<1>3. Extends
  BY <1>1, <1>2 DEF Extends, Heard
<1>4. Heard(n)'
  BY <1>1, <1>2 DEF Heard
<1> QED
  BY <1>3, <1>4

-------------------------------------------------------------------------------
(* The steps.                                                              *)

\* The pre-roll after one more frame.
LEMMA LatestInTime ==
  ASSUME NEW q \in Seq(Nat), NEW s \in Seq(Nat), NEW n \in Nat, NEW m \in Nat, m < n,
         Increasing(q), UpTo(q, m), Len(q) <= PreRoll, Before(s, q), UpTo(s, m)
  PROVE  /\ Latest(Append(q, n)) \in Seq(Nat) /\ Len(Latest(Append(q, n))) <= PreRoll
         /\ Increasing(Latest(Append(q, n))) /\ UpTo(Latest(Append(q, n)), n)
         /\ Before(s, Latest(Append(q, n)))
<1> DEFINE a == Append(q, n)
<1> USE DetectorAssumption
<1>1. /\ a \in Seq(Nat) /\ Len(a) = Len(q) + 1 /\ a[Len(q) + 1] = n
      /\ \A i \in 1..Len(q) : a[i] = q[i]
      /\ Increasing(a) /\ UpTo(a, n)
  BY AppendIncreasing
<1> HIDE DEF a
<1>2. Len(q) \in Nat /\ Len(s) \in Nat /\ \A i \in 1..Len(s) : s[i] \in Nat
  BY LenProperties, ElementOfSeq
<1>3. Before(s, a)
  <2> SUFFICES ASSUME NEW i \in 1..Len(s), NEW j \in 1..Len(a) PROVE s[i] < a[j]
    BY DEF Before
  <2>1. CASE j \in 1..Len(q)
    BY <1>1, <2>1 DEF Before
  <2>2. CASE j = Len(q) + 1
    BY <1>1, <1>2, <2>2 DEF UpTo
  <2> QED
    BY <1>1, <1>2, <2>1, <2>2
<1>4. CASE Len(a) > PreRoll
  <2>1. a # <<>>
    BY <1>1, AppendProperties DEF a
  <2>2. /\ Tail(a) \in Seq(Nat) /\ Len(Tail(a)) = Len(a) - 1
        /\ \A i \in 1..Len(Tail(a)) : Tail(a)[i] = a[i + 1]
    BY <1>1, <2>1, HeadTailProperties
  <2>3. \A i \in 1..Len(Tail(a)) : i + 1 \in 1..Len(a)
    BY <1>1, <1>2, <2>2
  <2>4. Increasing(Tail(a))
    <3> SUFFICES ASSUME NEW i \in 1..Len(Tail(a)), NEW j \in 1..Len(Tail(a)), i < j
                 PROVE  Tail(a)[i] < Tail(a)[j]
      BY DEF Increasing
    <3>1. i + 1 < j + 1
      BY <1>1, <1>2, <2>2
    <3>2. a[i + 1] < a[j + 1]
      BY <1>1, <2>3, <3>1 DEF Increasing
    <3> QED
      BY <2>2, <3>2
  <2>5. UpTo(Tail(a), n)
    BY <1>1, <2>2, <2>3 DEF UpTo
  <2>6. Before(s, Tail(a))
    BY <1>3, <2>2, <2>3 DEF Before
  <2>7. Latest(a) = Tail(a) /\ Len(Tail(a)) <= PreRoll
    BY <1>1, <1>2, <1>4, <2>2 DEF Latest
  <2> QED
    BY <2>2, <2>4, <2>5, <2>6, <2>7 DEF a
<1>5. CASE ~(Len(a) > PreRoll)
  <2>1. Latest(a) = a
    BY <1>5 DEF Latest
  <2>2. Len(a) <= PreRoll
    BY <1>1, <1>2, <1>5
  <2> QED
    BY <1>1, <1>3, <2>1, <2>2 DEF a
<1> QED
  BY <1>4, <1>5

LEMMA QuietStep == DetectorInv /\ Quiet => DetectorInv'
<1> SUFFICES ASSUME DetectorInv, Quiet PROVE DetectorInv'
  OBVIOUS
<1> USE DetectorAssumption
<1> USE DEF DetectorInv
<1> DEFINE n == frames + 1
<1>1. /\ frames' = n /\ n \in Nat /\ voiced' = voiced /\ ~flushed /\ ~active
      /\ candidate' = <<>> /\ preRoll' = Latest(Append(preRoll, n))
      /\ UNCHANGED <<active, length, silent, handed, from, flushed>>
  BY DEF Quiet, Classify, DTypeOK
<1>2. /\ Border \in Nat /\ Border < n
      /\ Len(candidate) \in Nat /\ candidate' \in Seq(Nat) /\ Len(candidate') = 0
  BY <1>1, LenProperties, EmptySeq DEF Border, BurstIsLatest, DTypeOK
<1>3. Border' = n
  <2>1. frames' = n /\ Len(candidate') = 0 /\ n \in Nat
    BY <1>1, <1>2
  <2> HIDE DEF n
  <2> QED
    BY <2>1 DEF Border
<1>4. /\ preRoll' \in Seq(Nat) /\ Len(preRoll') <= PreRoll
      /\ Increasing(preRoll') /\ UpTo(preRoll', n) /\ Before(handed, preRoll')
  BY <1>1, <1>2, LatestInTime DEF DTypeOK, InTime, TurnLength
<1>5. UpTo(handed, n)
  BY <1>1, <1>2, ElementOfSeq DEF DTypeOK, InTime, UpTo
<1>6. DTypeOK'
  BY <1>1, <1>2, <1>4 DEF DTypeOK
<1>7. BurstIsLatest'
  BY <1>1, <1>2, <1>3 DEF BurstIsLatest
<1>8. InTime'
  BY <1>1, <1>3, <1>4, <1>5 DEF InTime
<1>9. n \notin voiced'
  BY <1>1 DEF DTypeOK
<1>10. BorderIsNoLoss'
  <2> HIDE DEF n
  <2> QED
    BY <1>3, <1>9 DEF BorderIsNoLoss
<1>11. TurnIsNoBurst'
  BY <1>1 DEF TurnIsNoBurst
<1>12. TurnLength'
  BY <1>1, <1>4 DEF TurnLength, Longest
<1>13. SpeechIsHeard'
  <2>1. Extends
    BY <1>1 DEF Extends, Heard
  <2> HIDE DEF n
  <2>2. n = frames + 1 /\ voiced' \subseteq voiced \cup {n}
    BY <1>1 DEF n
  <2> QED
    BY <1>1, <1>9, <2>1, <2>2, NewFrame
<1> QED
  BY <1>6, <1>7, <1>8, <1>10, <1>11, <1>12, <1>13

LEMMA BurstStep == DetectorInv /\ Burst => DetectorInv'
<1> SUFFICES ASSUME DetectorInv, Burst PROVE DetectorInv'
  OBVIOUS
<1> USE DetectorAssumption
<1> USE DEF DetectorInv
<1> DEFINE n == frames + 1
<1>1. /\ frames' = n /\ n \in Nat /\ voiced' = voiced \cup {n} /\ ~flushed /\ ~active
      /\ candidate' = Append(candidate, n) /\ Len(candidate) + 1 < MinSpeech
      /\ UNCHANGED <<preRoll, active, length, silent, handed, from, flushed>>
  BY LenProperties DEF Burst, Classify, DTypeOK, Enough
<1>2. /\ Len(candidate) \in Nat /\ candidate' \in Seq(Nat) /\ Len(candidate') = Len(candidate) + 1
      /\ candidate'[Len(candidate) + 1] = n
      /\ \A i \in 1..Len(candidate) : candidate'[i] = candidate[i]
  BY <1>1, LenProperties, AppendProperties DEF DTypeOK
<1>3. Border \in Nat /\ Border' = Border /\ n = Border + Len(candidate) + 1
  <2>1. frames \in Nat /\ frames' = frames + 1
    BY <1>1 DEF DTypeOK
  <2>2. Border = frames - Len(candidate) /\ Border' = frames' - Len(candidate')
    BY DEF Border
  <2>3. Border \in Nat
    BY DEF BurstIsLatest
  <2>4. Len(candidate) \in Nat /\ Len(candidate') = Len(candidate) + 1
    BY <1>2
  <2> QED
    BY <2>1, <2>2, <2>3, <2>4
<1>4. DTypeOK'
  BY <1>1, <1>2 DEF DTypeOK
<1>5. BurstIsLatest'
  <2>1. \A i \in 1..Len(candidate') : candidate'[i] = Border + i
    <3> SUFFICES ASSUME NEW i \in 1..Len(candidate') PROVE candidate'[i] = Border + i
      OBVIOUS
    <3>1. CASE i \in 1..Len(candidate)
      BY <1>2, <3>1 DEF BurstIsLatest
    <3>2. CASE i = Len(candidate) + 1
      BY <1>2, <1>3, <3>2
    <3> QED
      BY <1>2, <3>1, <3>2
  <2> QED
    BY <1>1, <1>2, <1>3, <2>1 DEF BurstIsLatest
<1>6. InTime'
  BY <1>1, <1>3 DEF InTime
<1>7. BorderIsNoLoss'
  <2>1. Border # n
    BY <1>2, <1>3
  <2> HIDE DEF n
  <2> QED
    BY <1>1, <1>3, <2>1 DEF BorderIsNoLoss, Heard
<1>8. TurnIsNoBurst' /\ TurnLength'
  BY <1>1 DEF TurnIsNoBurst, TurnLength, Longest
<1>9. SpeechIsHeard'
  <2>1. Extends
    BY <1>1 DEF Extends, Heard
  <2> HIDE DEF n
  <2>2. n = frames + 1 /\ voiced' \subseteq voiced \cup {n}
    BY <1>1 DEF n
  <2> QED
    BY <1>1, <2>1, <2>2, NewFrame
<1> QED
  BY <1>4, <1>5, <1>6, <1>7, <1>8, <1>9

LEMMA FlushStep == DetectorInv /\ Flush => DetectorInv'
<1> SUFFICES ASSUME DetectorInv, Flush PROVE DetectorInv'
  OBVIOUS
<1> USE DetectorAssumption
<1> USE DEF DetectorInv
<1>1. /\ flushed' = TRUE /\ active' = FALSE /\ length' = 0 /\ candidate' = <<>>
      /\ preRoll' = IF active THEN <<>> ELSE preRoll
      /\ UNCHANGED <<frames, voiced, handed, from>>
  BY DEF Flush
<1>2. preRoll' = preRoll
  BY <1>1 DEF TurnIsNoBurst
<1>3. /\ candidate' \in Seq(Nat) /\ Len(candidate') = 0 /\ Len(candidate) \in Nat
      /\ frames \in Nat
  BY <1>1, LenProperties, EmptySeq DEF DTypeOK
<1>4. Border' = frames /\ Border <= frames /\ Border \in Nat
  BY <1>1, <1>3 DEF Border, BurstIsLatest
<1>5. DTypeOK'
  BY <1>1, <1>2, <1>3 DEF DTypeOK
<1>6. BurstIsLatest'
  BY <1>3, <1>4 DEF BurstIsLatest
<1>7. UpTo(handed, frames) /\ UpTo(preRoll, frames)
  BY <1>3, <1>4, ElementOfSeq DEF InTime, UpTo, DTypeOK
<1>8. InTime'
  BY <1>1, <1>2, <1>4, <1>7 DEF InTime
<1>9. BorderIsNoLoss' /\ TurnIsNoBurst'
  BY <1>1 DEF BorderIsNoLoss, TurnIsNoBurst
<1>10. TurnLength'
  BY <1>1, <1>2 DEF TurnLength, Longest
<1>11. SpeechIsHeard'
  BY <1>1 DEF SpeechIsHeard, Heard
<1> QED
  BY <1>5, <1>6, <1>8, <1>9, <1>10, <1>11

LEMMA TurnFrameStep ==
  ASSUME DetectorInv, NEW speech \in BOOLEAN, TurnFrame(speech) PROVE DetectorInv'
<1> USE DetectorAssumption
<1> USE DEF DetectorInv
<1>0. PICK n \in Nat : n = frames + 1
  BY DEF DTypeOK
<1> DEFINE quiet == IF speech THEN 0 ELSE silent + 1
           ends == Ends(quiet, length + 1)
<1>1. /\ frames' = n /\ n \in Nat /\ voiced' \subseteq voiced \cup {n} /\ ~flushed /\ active
      /\ handed' = Append(handed, n) /\ from' = from /\ flushed' = flushed
  BY <1>0 DEF TurnFrame, Classify, DTypeOK
<1>2. candidate = <<>> /\ preRoll = <<>>
  BY <1>1 DEF TurnIsNoBurst
<1>3. /\ active' = ~ends /\ length' = IF ends THEN 0 ELSE length + 1
      /\ candidate' = <<>> /\ preRoll' = <<>>
  BY <1>2 DEF TurnFrame
<1>4. length \in Nat /\ length' \in Nat /\ (active' => length' = length + 1 /\ length + 1 < MaxTurn)
  <2>1. length \in Nat
    BY DEF DTypeOK
  <2>2. CASE ends
    BY <1>3, <2>1, <2>2
  <2>3. CASE ~ends
    BY <1>3, <2>1, <2>3 DEF Ends
  <2> QED
    BY <2>1, <2>2, <2>3
<1>5. active' \in BOOLEAN
  BY <1>3, Zenon DEF Ends
<1>6. /\ Len(candidate) = 0 /\ Len(preRoll) = 0
      /\ candidate' \in Seq(Nat) /\ Len(candidate') = 0
      /\ preRoll' \in Seq(Nat) /\ Len(preRoll') = 0
  BY <1>2, <1>3, EmptySeq
<1>7. Border = frames /\ Border' = n /\ frames \in Nat /\ frames < n
  <2>1. frames \in Nat /\ Len(candidate) = 0 /\ frames' = n /\ n = frames + 1 /\ Len(candidate') = 0
    BY <1>0, <1>1, <1>6 DEF DTypeOK
  <2>2. Border = frames - Len(candidate) /\ Border' = frames' - Len(candidate')
    BY DEF Border
  <2> QED
    BY <2>1, <2>2
<1>8. /\ handed' \in Seq(Nat) /\ Len(handed') = Len(handed) + 1 /\ Len(handed) \in Nat
      /\ Increasing(handed') /\ UpTo(handed', n)
  <2>1. handed \in Seq(Nat) /\ Increasing(handed) /\ UpTo(handed, frames)
    BY <1>7 DEF InTime, DTypeOK
  <2> QED
    BY <1>1, <1>7, <2>1, LenProperties, AppendIncreasing
<1>9. Extends /\ Heard(n)'
  <2>1. handed \in Seq(Nat) /\ handed' = Append(handed, n)
    BY <1>1 DEF DTypeOK
  <2> QED
    BY <2>1, AppendExtends
<1>10. DTypeOK'
  <2>1. flushed' \in BOOLEAN
    BY <1>1 DEF DTypeOK
  <2>2. frames' \in Nat /\ from' \in Nat
    BY <1>1 DEF DTypeOK
  <2>3. voiced' \subseteq 1..frames'
    BY <1>0, <1>1 DEF DTypeOK
  <2> QED
    BY <1>4, <1>5, <1>6, <1>8, <2>1, <2>2, <2>3 DEF DTypeOK
<1>11. BurstIsLatest'
  BY <1>1, <1>6, <1>7 DEF BurstIsLatest
<1>12. InTime'
  BY <1>6, <1>7, <1>8 DEF InTime, Increasing, UpTo, Before
<1>13. BorderIsNoLoss'
  <2>1. Border' = n /\ Heard(n)'
    BY <1>7, <1>9
  <2>2. Heard(Border)'
    BY <2>1
  <2> QED
    BY <2>2 DEF BorderIsNoLoss
<1>14. TurnIsNoBurst'
  BY <1>3 DEF TurnIsNoBurst
<1>15. TurnLength'
  <2>1. Len(handed) - from <= PreRoll + length /\ length < Longest /\ from \in Nat
    BY <1>1 DEF TurnLength, DTypeOK
  <2>2. from' <= Len(handed') /\ Len(preRoll') <= PreRoll
    BY <1>1, <1>6, <1>8 DEF TurnLength, DTypeOK
  <2>3. Len(handed') - from' <= PreRoll + Longest
    BY <1>1, <1>4, <1>8, <2>1 DEF Longest
  <2>4. active' => Len(handed') - from' <= PreRoll + length' /\ length' < Longest
    BY <1>1, <1>4, <1>8, <2>1 DEF Longest
  <2> QED
    BY <2>2, <2>3, <2>4 DEF TurnLength, Longest
<1>16. SpeechIsHeard'
  BY <1>0, <1>1, <1>9, NewFrame
<1> QED
  BY <1>10, <1>11, <1>12, <1>13, <1>14, <1>15, <1>16

LEMMA TurnBeginsStep == DetectorInv /\ TurnBegins => DetectorInv'
<1> SUFFICES ASSUME DetectorInv, TurnBegins PROVE DetectorInv'
  OBVIOUS
<1> USE DetectorAssumption
<1> USE DEF DetectorInv
<1>0. PICK n \in Nat : n = frames + 1
  BY DEF DTypeOK
<1> DEFINE burst == Append(candidate, n)
           opening == preRoll \o burst
<1>1. /\ frames' = n /\ n \in Nat /\ frames \in Nat /\ voiced' = voiced \cup {n} /\ ~flushed
      /\ Enough(Len(candidate) + 1)
      /\ handed' = handed \o preRoll \o burst /\ from' = Len(handed)
      /\ length' = Len(candidate) + 1 /\ candidate' = <<>> /\ preRoll' = <<>>
      /\ flushed' = flushed
  BY <1>0 DEF TurnBegins, Classify, DTypeOK
<1>2. active' = TRUE
  BY DEF TurnBegins
<1>3. /\ candidate \in Seq(Nat) /\ preRoll \in Seq(Nat) /\ handed \in Seq(Nat)
      /\ Len(candidate) \in Nat /\ Len(preRoll) \in Nat /\ Len(handed) \in Nat
      /\ candidate' \in Seq(Nat) /\ Len(candidate') = 0
      /\ preRoll' \in Seq(Nat) /\ Len(preRoll') = 0
  BY <1>1, LenProperties, EmptySeq DEF DTypeOK
<1>4. Border \in Nat /\ n = Border + Len(candidate) + 1 /\ Border' = n
  <2>1. Border = frames - Len(candidate) /\ Border' = frames' - Len(candidate')
    BY DEF Border
  <2>2. Border \in Nat
    BY DEF BurstIsLatest
  <2>3. /\ frames \in Nat /\ frames' = n /\ n = frames + 1
        /\ Len(candidate) \in Nat /\ Len(candidate') = 0
    BY <1>0, <1>1, <1>3
  <2> QED
    BY <2>1, <2>2, <2>3
<1>5. /\ burst \in Seq(Nat) /\ Len(burst) = Len(candidate) + 1
      /\ \A i \in 1..Len(burst) : burst[i] = Border + i
  <2>1. /\ burst \in Seq(Nat) /\ Len(burst) = Len(candidate) + 1
        /\ burst[Len(candidate) + 1] = n
        /\ \A i \in 1..Len(candidate) : burst[i] = candidate[i]
    BY <1>1, <1>3, AppendProperties
  <2> HIDE DEF burst
  <2>2. ASSUME NEW i \in 1..Len(burst) PROVE burst[i] = Border + i
    <3>1. CASE i \in 1..Len(candidate)
      BY <2>1, <3>1 DEF BurstIsLatest
    <3>2. CASE i = Len(candidate) + 1
      BY <1>4, <2>1, <3>2
    <3> QED
      BY <1>3, <2>1, <3>1, <3>2
  <2> QED
    BY <2>1, <2>2
<1> HIDE DEF burst
<1>6. Increasing(burst) /\ UpTo(burst, n) /\ \A i \in 1..Len(burst) : Border < burst[i]
  <2>1. Len(burst) = Len(candidate) + 1 /\ \A i \in 1..Len(burst) : i \in Nat /\ i >= 1
    BY <1>3, <1>5
  <2>2. Increasing(burst)
    BY <1>4, <1>5 DEF Increasing
  <2>3. UpTo(burst, n)
    BY <1>3, <1>4, <1>5 DEF UpTo
  <2> QED
    BY <1>4, <1>5, <2>1, <2>2, <2>3
<1>7. Before(preRoll, burst) /\ Before(handed, burst)
  <2>1. /\ \A i \in 1..Len(preRoll) : preRoll[i] \in Nat /\ preRoll[i] <= Border
        /\ \A i \in 1..Len(handed) : handed[i] \in Nat /\ handed[i] <= Border
    BY <1>3, ElementOfSeq DEF InTime, UpTo
  <2>2. \A i \in 1..Len(burst) : burst[i] \in Nat
    BY <1>5, ElementOfSeq
  <2> QED
    BY <1>4, <1>6, <2>1, <2>2 DEF Before
<1>8. /\ handed \o preRoll \in Seq(Nat) /\ Increasing(handed \o preRoll)
      /\ UpTo(handed \o preRoll, n) /\ Before(handed \o preRoll, burst)
  <2>1. UpTo(handed, n) /\ UpTo(preRoll, n)
    BY <1>3, <1>4, ElementOfSeq DEF InTime, UpTo
  <2>2. Increasing(handed) /\ Increasing(preRoll) /\ Before(handed, preRoll)
    BY DEF InTime
  <2>3. handed \o preRoll \in Seq(Nat) /\ Increasing(handed \o preRoll)
    BY <1>3, <2>2, ConcatProperties, ConcatIncreasing
  <2>4. UpTo(handed \o preRoll, n)
    BY <1>3, <2>1, ConcatUpTo
  <2>5. Before(handed \o preRoll, burst)
    BY <1>3, <1>5, <1>7, ConcatBefore
  <2> QED
    BY <2>3, <2>4, <2>5
<1>9. /\ handed' \in Seq(Nat) /\ Increasing(handed') /\ UpTo(handed', n)
      /\ Len(handed') = Len(handed) + Len(preRoll) + Len(candidate) + 1
      /\ handed'[Len(handed')] = n
  <2>1. /\ handed' \in Seq(Nat) /\ Increasing(handed') /\ UpTo(handed', n)
    <3> QED
      BY <1>1, <1>5, <1>6, <1>8, ConcatProperties, ConcatIncreasing, ConcatUpTo
  <2>2. Len(handed \o preRoll) = Len(handed) + Len(preRoll)
    BY <1>3, ConcatProperties
  <2>3. Len(handed') = Len(handed \o preRoll) + Len(burst)
    BY <1>1, <1>5, <1>8, ConcatProperties
  <2>4. \A i \in 1..(Len(handed \o preRoll) + Len(burst)) :
          handed'[i] = IF i <= Len(handed \o preRoll) THEN (handed \o preRoll)[i]
                       ELSE burst[i - Len(handed \o preRoll)]
    BY <1>1, <1>5, <1>8, ConcatProperties
  <2>5. handed'[Len(handed')] = burst[Len(burst)]
    <3> DEFINE a == Len(handed \o preRoll)
               b == Len(burst)
    <3>1. a \in Nat /\ b \in Nat /\ b >= 1 /\ Len(handed') = a + b
      BY <1>3, <1>5, <2>2, <2>3
    <3>2. a + b \in 1..(a + b) /\ ~(a + b <= a) /\ (a + b) - a = b
      BY <3>1
    <3>3. handed'[a + b] = burst[(a + b) - a]
      BY <2>4, <3>2
    <3> HIDE DEF a, b
    <3> QED
      BY <3>1, <3>2, <3>3 DEF b
  <2>6. burst[Len(burst)] = n
    BY <1>3, <1>4, <1>5
  <2> QED
    BY <1>5, <2>1, <2>2, <2>3, <2>5, <2>6
<1>10. Extends
  <2>1. opening \in Seq(Nat)
    BY <1>3, <1>5, ConcatProperties
  <2>2. handed' = handed \o opening
    <3>1. handed \in Seq(Nat) /\ preRoll \in Seq(Nat) /\ burst \in Seq(Nat)
      BY <1>3, <1>5
    <3>2. (handed \o preRoll) \o burst = handed \o opening
      BY ONLY <3>1, ConcatAssociative
    <3> QED
      BY <1>1, <3>2
  <2> HIDE DEF opening
  <2> QED
    BY <1>3, <2>1, <2>2, ConcatExtends
<1>11. Heard(n)'
  <2>1. DOMAIN handed' = 1..Len(handed') /\ Len(handed') \in 1..Len(handed')
    BY <1>3, <1>9, LenProperties
  <2> QED
    BY <1>9, <2>1 DEF Heard
<1>12. DTypeOK'
  <2>1. active' \in BOOLEAN /\ flushed' \in BOOLEAN
    BY <1>1, <1>2 DEF DTypeOK
  <2>2. frames' \in Nat /\ length' \in Nat /\ from' \in Nat
    BY <1>1, <1>3
  <2>3. voiced' \subseteq 1..frames'
    BY <1>0, <1>1 DEF DTypeOK
  <2> QED
    BY <1>3, <1>9, <2>1, <2>2, <2>3 DEF DTypeOK
<1>13. BurstIsLatest'
  BY <1>1, <1>3, <1>4 DEF BurstIsLatest
<1>14. InTime'
  BY <1>3, <1>4, <1>9 DEF InTime, Increasing, UpTo, Before
<1>15. BorderIsNoLoss'
  <2>1. Border' = n /\ Heard(n)'
    BY <1>4, <1>11
  <2>2. Heard(Border)'
    BY <2>1
  <2> QED
    BY <2>2 DEF BorderIsNoLoss
<1>16. TurnIsNoBurst'
  BY <1>1 DEF TurnIsNoBurst
<1>17. TurnLength'
  <2>1. length' = MinSpeech
    BY <1>1, <1>3 DEF Enough, BurstIsLatest
  <2>2. Len(handed') - from' = Len(preRoll) + length'
    BY <1>1, <1>3, <1>9
  <2>3. Len(preRoll) <= PreRoll
    BY DEF TurnLength
  <2>4. from' \in Nat /\ Len(handed') \in Nat /\ from' <= Len(handed') /\ Len(preRoll') = 0
    BY <1>1, <1>3, <1>9
  <2>5. Longest' = Longest /\ Longest \in Nat /\ MinSpeech < Longest
    BY DEF Longest
  <2> QED
    BY <1>3, <2>1, <2>2, <2>3, <2>4, <2>5 DEF TurnLength
<1>18. SpeechIsHeard'
  BY <1>0, <1>1, <1>10, <1>11, NewFrame
<1> QED
  BY <1>12, <1>13, <1>14, <1>15, <1>16, <1>17, <1>18

LEMMA StutterStep == DetectorInv /\ UNCHANGED detectorVars => DetectorInv'
BY DEF DetectorInv, detectorVars, DTypeOK, BurstIsLatest, InTime, BorderIsNoLoss, TurnIsNoBurst,
       TurnLength, SpeechIsHeard, Border, Heard, Longest

-------------------------------------------------------------------------------
(* The theorems.                                                           *)

\* The invariant holds in every state of the detector, whatever its thresholds.
THEOREM DetectorInvariant == DetectorSpec => []DetectorInv
<1>1. DetectorInit => DetectorInv
  BY InitInv
<1>2. DetectorInv /\ [DetectorNext]_detectorVars => DetectorInv'
  BY QuietStep, BurstStep, TurnBeginsStep, TurnFrameStep, FlushStep, StutterStep
     DEF DetectorNext
<1> QED
  BY <1>1, <1>2, PTL DEF DetectorSpec

\* No frame is given to a recognizer twice or out of order.
THEOREM FramesOnceTheorem == DetectorSpec => []FramesOnceInOrder
<1>1. DetectorInv => FramesOnceInOrder
  <2>1. ASSUME handed \in Seq(Nat) PROVE DOMAIN handed = 1..Len(handed)
    BY <2>1, LenProperties
  <2> QED
    BY <2>1 DEF DetectorInv, DTypeOK, InTime, Increasing, FramesOnceInOrder
<1> QED
  BY <1>1, DetectorInvariant, PTL

\* Of any MinSpeech consecutive frames of speech at least one is in a turn.
THEOREM SpeechTheorem == DetectorSpec => []SpeechIsHeard
<1>1. DetectorInv => SpeechIsHeard
  BY DEF DetectorInv
<1> QED
  BY <1>1, DetectorInvariant, PTL

\* A turn is no longer than max_turn_ms and the pre-roll, or than the speech that began
\* it and one frame when that is more.
THEOREM TurnBoundTheorem == DetectorSpec => []TurnIsBounded
<1>1. DetectorInv => TurnIsBounded
  BY DEF DetectorInv, TurnLength, Longest, TurnIsBounded
<1> QED
  BY <1>1, DetectorInvariant, PTL

-------------------------------------------------------------------------------
(* The session.                                                            *)

(* The types of what lies in the queues and on the way to the client.      *)
DeltaItem == [kind : {"delta", "final", "error"}, n : Nat]
AudioItem == [kind : {"audio", "completed", "error"}, n : Nat]

TurnsTypes ==
  /\ begun \in 0..MaxTurns
  /\ outcome \in [1..MaxTurns -> {"none", "heard", "final", "empty", "completed"}]
  /\ turns \in Seq(0..MaxTurns)
  /\ \A i \in 1..Len(turns) : turns[i] <= begun
  /\ inTurn => begun > 0

TextTypes ==
  /\ spoken \in Seq(Nat) /\ held \in Seq(Nat) /\ segments \in Seq(Seq(Nat)) /\ given \in Nat
  /\ tq \in Seq(DeltaItem)

AudioTypes ==
  /\ aired \in Seq(Nat) /\ made \in Nat
  /\ ttsq \in Seq(AudioItem)

(* What any loop may be at, the awaits of the turn loop while it has a turn, *)
(* and those of run before the end of the turns is in their queue and of   *)
(* run while it releases what was in use.                                  *)
Loops == {"get", "done", "failed", "cancelled"}
WorkedOn == {"translating", "ending", "texting", "completing", "listening"}
BeforeTheEnd == {"receiver", "put_input", "audio", "put_turn"}
Releases == {"release_asr", "releasing_asr", "release_tts", "release_task", "closed"}
NoFailure == errors = {} /\ ~struck

(* run: its await, what it has told the client, and the errors that were   *)
(* raised by then. No loop of the group is left when it has ended.         *)
RunInv ==
  /\ main \in InGroup \cup Releases
  /\ main \notin InGroup => Ended(turn) /\ Ended(audio)
  /\ main \in {"put_turn", "turns"} => audio = "done"
  /\ told # "nothing" => main \notin InGroup
  /\ errors \subseteq {"protocol", "internal", "disconnect"}
  /\ connected => "disconnect" \notin errors
  /\ main \notin InGroup /\ connected /\ ~struck =>
       told = (IF errors = {} THEN "completed" ELSE "error")

(* The audio loop: what it has left of the detector's events at each await.*)
AudioInv ==
  /\ audio \in Loops \cup {"start", "starting", "audio", "stop", "finishing", "awaiting"}
  /\ audio = "get" => todo = <<>> /\ ~draining
  /\ audio = "start" => todo = <<"start">> /\ ~draining /\ ~inTurn /\ begun < MaxTurns
  /\ audio = "starting" => todo = <<"start">> /\ ~draining /\ inTurn
  /\ audio = "audio" =>
       todo \in {<<"start">>, <<"audio">>, <<"audio", "stop">>} /\ ~draining /\ inTurn
  /\ audio \in {"stop", "finishing", "awaiting"} => todo = <<"stop">> /\ inTurn
  /\ audio = "done" => ~inTurn

(* The recognizer is never at work without a turn that owns it.            *)
RecognizerInv ==
  /\ recognizer = "running" => ~finished
  /\ recognizer \in {"starting", "running"} /\ ~finished =>
       inTurn /\ main \in InGroup \cup {"release_asr"}
  /\ main \in InGroup /\ recognizer = "starting" => ~finished
  /\ audio = "starting" => recognizer \in {"starting", "running", "dead", "failed"}
  /\ audio = "get" /\ inTurn => recognizer \in {"running", "dead"}
  /\ audio \in {"audio", "stop"} => recognizer \in {"running", "dead"}
  /\ audio = "finishing" => recognizer \in {"stopping", "stopped", "failed"}
  /\ audio = "awaiting" => recognizer \in {"stopped", "dead"}

(* The synthesizer at each await of the turn loop.                         *)
SynthInv ==
  /\ turn \in Loops \cup WorkedOn \cup {"abandoning"}
  /\ turn \in {"get", "done"} => synth \in {"none", "completed"}
  /\ turn \in {"translating", "ending", "texting"} => synth \in {"idle", "open"}
  /\ turn = "completing" => synth \in {"completing", "completed", "failed"}
  /\ turn = "listening" => synth = "completed"

(* Where each turn is that began: with the audio loop, in the queue, with  *)
(* the turn loop, or over. The end of the turns is last in their queue.    *)
OverOrEmpty == {"empty", "completed"}

TurnKnown(t) ==
  \/ outcome[t] \in OverOrEmpty
  \/ t = begun /\ inTurn
  \/ \E i \in 1..Len(turns) : turns[i] = t
  \/ t = current /\ turn \in WorkedOn

TurnsInv ==
  /\ \A i \in 1..Len(turns) : turns[i] = EndOfTurns => i = Len(turns) /\ main \notin BeforeTheEnd
  /\ turn = "done" => turns = <<>> /\ main \notin BeforeTheEnd
  /\ turn \in WorkedOn => current \in 1..begun
  /\ main \in InGroup /\ NoFailure => \A t \in 1..begun : TurnKnown(t)
  /\ told = "completed" => \A t \in 1..begun : outcome[t] \in OverOrEmpty

(* The translator: the final translation, or an error, is the last thing in*)
(* its queue.                                                              *)
TranslatorInv ==
  /\ producer \in {"running", "ended"}
  /\ turn = "translating" /\ producer = "running" =>
       \A i \in 1..Len(tq) : tq[i].kind = "delta"
  /\ turn = "translating" /\ producer # "running" =>
       /\ tq # <<>> /\ tq[Len(tq)].kind \in {"final", "error"}
       /\ \A i \in 1..(Len(tq) - 1) : tq[i].kind = "delta"
  /\ turn \in {"get", "done", "ending", "texting", "completing", "listening"} =>
       producer = "ended"

(* The deltas of a translation lie in order along their way: spoken, in the*)
(* segments of the text queue, held by the segmenter, in the translator's  *)
(* queue. Upper(i) is the last delta up to the i-th segment.               *)
Upper(i) == IF i = 0 THEN Len(spoken) ELSE segments[i][Len(segments[i])]

Follows(s, n) == \A j \in 1..Len(s) : s[j] = n + j

SegmentsInOrder ==
  /\ Follows(spoken, 0)
  /\ \A i \in 1..Len(segments) :
       segments[i] # EndOfText => Follows(segments[i], Upper(i - 1))

DeltasInOrder ==
  /\ Follows(held, Upper(Len(segments)))
  /\ \A i \in 1..Len(tq) :
       tq[i].kind = "delta" => tq[i].n = Upper(Len(segments)) + Len(held) + i
  /\ given = Upper(Len(segments)) + Len(held)
             + (IF producer = "running" THEN Len(tq) ELSE Len(tq) - 1)

NoEndYet == \A i \in 1..Len(segments) : segments[i] # EndOfText

TextInv ==
  /\ turn \in WorkedOn => text \in {"running", "returned", "failed"}
  /\ turn \in WorkedOn /\ text # "failed" => SegmentsInOrder
  /\ turn = "translating" /\ text # "failed" => text = "running" /\ NoEndYet /\ DeltasInOrder
  /\ turn = "ending" /\ text # "failed" =>
       text = "running" /\ NoEndYet /\ given = Upper(Len(segments))
  /\ turn = "texting" /\ text = "running" =>
       /\ segments # <<>> /\ segments[Len(segments)] = EndOfText
       /\ \A i \in 1..(Len(segments) - 1) : segments[i] # EndOfText
       /\ given = Upper(Len(segments) - 1)
  /\ turn = "texting" /\ text = "returned" => given = Len(spoken)
  /\ turn \in {"completing", "listening"} => text = "returned" /\ given = Len(spoken)
  /\ turn = "get" =>
       text # "running" /\ given = Len(spoken) /\ Follows(spoken, 0)

(* The audio of a turn: an event that was lost left an error in the queue, *)
(* which ends the turn; otherwise sent and queued are all that was made.   *)
AudioLost == \E i \in 1..Len(ttsq) : ttsq[i].kind = "error"

AudioInOrder ==
  /\ ~ttsOver
  /\ Follows(aired, 0)
  /\ \A i \in 1..Len(ttsq) : ttsq[i].kind = "audio" => ttsq[i].n = Len(aired) + i
  /\ \A i \in 1..Len(ttsq) : ttsq[i].kind = "audio" \/ (i = Len(ttsq) /\ synth = "completed")
  /\ synth = "completed" => ttsq # <<>> /\ ttsq[Len(ttsq)].kind = "completed"
  /\ made = Len(aired) + (IF synth = "completed" THEN Len(ttsq) - 1 ELSE Len(ttsq))

CompletedIsLast ==
  \A i \in 1..Len(ttsq) : ttsq[i].kind = "completed" => i = Len(ttsq) /\ synth = "completed"

VoiceInv ==
  /\ turn \in WorkedOn => voice \in {"running", "returned", "failed"}
  /\ turn \in WorkedOn /\ voice = "running" =>
       /\ AudioLost \/ AudioInOrder
       /\ CompletedIsLast
  /\ turn = "get" \/ (turn \in WorkedOn /\ voice = "returned") =>
       /\ voice # "running" /\ synth \in {"none", "completed"}
       /\ made = Len(aired) /\ Follows(aired, 0)

(* The variables that each part of the invariant is about.                 *)
runInvVars == <<main, errors, struck, told, connected, turn, audio>>
audioInvVars == <<audio, todo, draining, inTurn, begun>>
recognizerVars == <<main, audio, inTurn, recognizer, finished>>
synthVars == <<turn, synth>>
turnsVars == <<main, told, errors, struck, audio, inTurn, begun, outcome, turns, turn, current>>
translatorVars == <<turn, producer, tq>>
turnsTypeVars == <<begun, outcome, turns, inTurn>>
textTypeVars == <<spoken, held, segments, given, tq>>
textInvVars == <<turn, text, spoken, held, segments, given, tq, producer>>
audioTypeVars == <<aired, made, ttsq>>
voiceVars == <<turn, synth, voice, ttsq, ttsOver, made, aired>>

(* The lists of the detector's events the audio loop may hold.             *)
LEMMA EventsLeft ==
  /\ <<>> # <<"start">> /\ <<>> # <<"audio">> /\ <<>> # <<"stop">> /\ <<>> # <<"audio", "stop">>
  /\ Head(<<"start">>) = "start" /\ Tail(<<"start">>) = <<>>
  /\ Head(<<"audio">>) = "audio" /\ Tail(<<"audio">>) = <<>>
  /\ Head(<<"stop">>) = "stop" /\ Tail(<<"stop">>) = <<>>
  /\ Head(<<"audio", "stop">>) = "audio" /\ Tail(<<"audio", "stop">>) = <<"stop">>
OBVIOUS

LEMMA RunStep ==
  ASSUME RunInv, [Next]_vars
  PROVE  RunInv'
<1> USE DEF RunInv, Releases, InGroup, Ended, GroupRuns, Cancelling, clientVars,
  inputVars, runVars, audioVars, asrVars, turnVars, transVars, textVars, ttsVars
<1>1. CASE UNCHANGED runInvVars
  BY <1>1 DEF runInvVars
<1>2. CASE Disconnect
  BY <1>2 DEF Disconnect
<1>3. CASE ReceiveAudio
  BY <1>3 DEF ReceiveAudio, Raises
<1>4. CASE ReceiveLast
  BY <1>4 DEF ReceiveLast, Raises
<1>5. CASE TakeChunk
  BY <1>5 DEF TakeChunk
<1>6. CASE SpeechStart
  BY <1>6 DEF SpeechStart
<1>7. CASE SpeechStarted
  BY <1>7 DEF SpeechStarted
<1>8. CASE SendASRAudio
  BY <1>8 DEF SendASRAudio
<1>9. CASE SpeechEnd
  BY <1>9 DEF SpeechEnd
<1>10. CASE SpeechFinished
  BY <1>10 DEF SpeechFinished
<1>11. CASE TurnStable
  BY <1>11 DEF TurnStable
<1>12. CASE FailAudio
  BY <1>12 DEF FailAudio, Raises, AudioFailure, SendMayFail
<1>13. CASE TakeTurn
  BY <1>13 DEF TakeTurn, Raises
<1>14. CASE TakeTranslation
  BY <1>14 DEF TakeTranslation, QueueText
<1>15. CASE EndText
  BY <1>15 DEF EndText
<1>16. CASE CompleteText
  BY <1>16 DEF CompleteText
<1>17. CASE SpeechCompleted
  BY <1>17 DEF SpeechCompleted
<1>18. CASE CompleteTurn
  BY <1>18 DEF CompleteTurn
<1>19. CASE FailTurn
  BY <1>19 DEF FailTurn, Raises, ForgetTurn
<1>20. CASE Run
  BY <1>20 DEF Run
<1>21. CASE Complete
  BY <1>21 DEF Complete
<1>22. CASE Deadline
  BY <1>22 DEF Deadline
<1>23. CASE CancelLoops
  BY <1>23 DEF CancelLoops, ForgetTurn
<1>24. CASE AbandonTranslation
  BY <1>24 DEF AbandonTranslation
<1>25. CASE Report
  BY <1>25 DEF Report
<1>26. CASE ReleaseRecognizer
  BY <1>26 DEF ReleaseRecognizer
<1>27. CASE ReleaseSynthesizer
  BY <1>27 DEF ReleaseSynthesizer
<1>28. CASE ReleaseTask
  BY <1>28 DEF ReleaseTask
<1>29. CASE ForwardASREvent \/ RecognizerStarts \/ RecognizerStops \/ RecognizerEvent \/
            RecognizerError \/ TakeDelta \/ PollText \/ SendText \/ ForwardAudio \/
            Produce \/ Synthesize \/ Synthesized \/ UNCHANGED vars
  <2>1. UNCHANGED runInvVars
    BY <1>29 DEF ForwardASREvent, RecognizerStarts, RecognizerStops, RecognizerEvent,
      RecognizerError, TakeDelta, PollText, SendText, ForwardAudio, Produce, Synthesize,
      Synthesized, vars, runInvVars
  <2>2. QED
    BY <2>1, <1>1
<1>30. QED
  BY <1>2, <1>3, <1>4, <1>5, <1>6, <1>7, <1>8, <1>9, <1>10, <1>11, <1>12, <1>13, <1>14,
    <1>15, <1>16, <1>17, <1>18, <1>19, <1>20, <1>21, <1>22, <1>23, <1>24, <1>25, <1>26, <1>27,
    <1>28, <1>29 DEF Next, ClientNext, Progress, AudioNext, TurnNext, RunNext, EventNext

LEMMA AudioStep ==
  ASSUME AudioInv, [Next]_vars
  PROVE  AudioInv'
<1> USE DEF AudioInv, Loops, Ended, GroupRuns, Cancelling, clientVars, inputVars,
  runVars, audioVars, asrVars, turnVars, transVars, textVars, ttsVars
<1>1. CASE UNCHANGED audioInvVars
  BY <1>1 DEF audioInvVars
<1>2. CASE TakeChunk
  <2>1. audio' = Then(todo', draining') /\ UNCHANGED <<inTurn, begun>> /\ ~draining
    BY <1>2 DEF TakeChunk
  <2>2. \/ draining' /\ todo' = IF inTurn THEN <<"stop">> ELSE <<>>
        \/ ~draining' /\ todo' \in Detected(inTurn)
    BY <1>2, <2>1 DEF TakeChunk
  <2>3. CASE draining'
    BY <2>1, <2>2, <2>3, EventsLeft DEF Then
  <2>4. CASE ~draining'
    <3>1. todo' = <<>> \/ (inTurn /\ todo' \in {<<"audio">>, <<"audio", "stop">>})
          \/ (~inTurn /\ todo' = <<"start">> /\ begun < MaxTurns)
      BY <2>2, <2>4 DEF Detected
    <3>2. QED
      BY <2>1, <2>4, <3>1, EventsLeft DEF Then
  <2>5. QED
    BY <2>3, <2>4
<1>3. CASE SpeechStart
  BY <1>3 DEF SpeechStart, Then
<1>4. CASE SpeechStarted
  BY <1>4 DEF SpeechStarted, Then
<1>5. CASE SendASRAudio
  <2>1. ~draining /\ inTurn /\ todo' = Tail(todo) /\ UNCHANGED <<draining, inTurn, begun>>
    BY <1>5 DEF SendASRAudio
  <2>2. audio' = IF todo' = <<>> THEN "get" ELSE Head(todo')
    BY <1>5, <2>1 DEF SendASRAudio, Then
  <2>3. todo' \in {<<>>, <<"stop">>}
    BY <1>5, <2>1, EventsLeft DEF SendASRAudio
  <2>4. QED
    BY <2>1, <2>2, <2>3, EventsLeft
<1>6. CASE SpeechEnd
  BY <1>6 DEF SpeechEnd, Then
<1>7. CASE SpeechFinished
  BY <1>7 DEF SpeechFinished, Then
<1>8. CASE TurnStable
  BY <1>8 DEF TurnStable, Then
<1>9. CASE FailAudio
  BY <1>9 DEF FailAudio, Raises, Then
<1>10. CASE CancelLoops
  BY <1>10 DEF CancelLoops, ForgetTurn
<1>11. CASE Disconnect \/ ReceiveAudio \/ ReceiveLast \/ ForwardASREvent \/
            RecognizerStarts \/ RecognizerStops \/ RecognizerEvent \/ RecognizerError \/
            TakeTurn \/ TakeDelta \/ PollText \/ TakeTranslation \/ EndText \/
            CompleteText \/ SpeechCompleted \/ CompleteTurn \/ FailTurn \/ SendText \/
            ForwardAudio \/ Produce \/ Synthesize \/ Synthesized \/ Run \/ Complete \/
            Deadline \/ AbandonTranslation \/ Report \/ ReleaseRecognizer \/
            ReleaseSynthesizer \/ ReleaseTask \/ UNCHANGED vars
  <2>1. UNCHANGED audioInvVars
    BY <1>11 DEF Disconnect, ReceiveAudio, ReceiveLast, ForwardASREvent,
      RecognizerStarts, RecognizerStops, RecognizerEvent, RecognizerError, TakeTurn, TakeDelta,
      PollText, TakeTranslation, EndText, CompleteText, SpeechCompleted, CompleteTurn,
      FailTurn, SendText, ForwardAudio, Produce, Synthesize, Synthesized, Run, Complete,
      Deadline, AbandonTranslation, Report, ReleaseRecognizer, ReleaseSynthesizer, ReleaseTask,
      vars, audioInvVars
  <2>2. QED
    BY <2>1, <1>1
<1>12. QED
  BY <1>2, <1>3, <1>4, <1>5, <1>6, <1>7, <1>8, <1>9, <1>10, <1>11 DEF Next, ClientNext,
    Progress, AudioNext, TurnNext, RunNext, EventNext

LEMMA RecognizerStep ==
  ASSUME RunInv, AudioInv, RecognizerInv, [Next]_vars
  PROVE  RecognizerInv'
<1> USE DEF RunInv, AudioInv, RecognizerInv, Loops, Ended, InGroup, Releases, GroupRuns,
  Cancelling, clientVars, inputVars, runVars, audioVars, asrVars, turnVars, transVars,
  textVars, ttsVars
<1>1. CASE UNCHANGED recognizerVars
  BY <1>1 DEF recognizerVars
<1>2. CASE TakeChunk
  BY <1>2 DEF TakeChunk, Then, Detected
<1>3. CASE SpeechStart
  BY <1>3 DEF SpeechStart, Then
<1>4. CASE SpeechStarted
  BY <1>4 DEF SpeechStarted, Then
<1>5. CASE SendASRAudio
  BY <1>5 DEF SendASRAudio, Then
<1>6. CASE SpeechEnd
  BY <1>6 DEF SpeechEnd, Then
<1>7. CASE SpeechFinished
  BY <1>7 DEF SpeechFinished, Then
<1>8. CASE TurnStable
  BY <1>8 DEF TurnStable, Then
<1>9. CASE FailAudio
  BY <1>9 DEF FailAudio, Raises, Then
<1>10. CASE RecognizerStarts
  BY <1>10 DEF RecognizerStarts
<1>11. CASE RecognizerStops
  BY <1>11 DEF RecognizerStops
<1>12. CASE RecognizerError
  BY <1>12 DEF RecognizerError
<1>13. CASE Run
  BY <1>13 DEF Run
<1>14. CASE Complete
  BY <1>14 DEF Complete
<1>15. CASE Deadline
  BY <1>15 DEF Deadline
<1>16. CASE CancelLoops
  BY <1>16 DEF CancelLoops, ForgetTurn
<1>17. CASE AbandonTranslation
  BY <1>17 DEF AbandonTranslation
<1>18. CASE Report
  BY <1>18 DEF Report
<1>19. CASE ReleaseRecognizer
  BY <1>19 DEF ReleaseRecognizer
<1>20. CASE ReleaseSynthesizer
  BY <1>20 DEF ReleaseSynthesizer
<1>21. CASE ReleaseTask
  BY <1>21 DEF ReleaseTask
<1>22. CASE Disconnect \/ ReceiveAudio \/ ReceiveLast \/ ForwardASREvent \/
            RecognizerEvent \/ TakeTurn \/ TakeDelta \/ PollText \/ TakeTranslation \/
            EndText \/ CompleteText \/ SpeechCompleted \/ CompleteTurn \/ FailTurn \/
            SendText \/ ForwardAudio \/ Produce \/ Synthesize \/ Synthesized \/ UNCHANGED vars
  <2>1. UNCHANGED recognizerVars
    BY <1>22 DEF Disconnect, ReceiveAudio, ReceiveLast, ForwardASREvent, RecognizerEvent,
      TakeTurn, TakeDelta, PollText, TakeTranslation, EndText, CompleteText, SpeechCompleted,
      CompleteTurn, FailTurn, SendText, ForwardAudio, Produce, Synthesize, Synthesized, vars,
      recognizerVars
  <2>2. QED
    BY <2>1, <1>1
<1>23. QED
  BY <1>2, <1>3, <1>4, <1>5, <1>6, <1>7, <1>8, <1>9, <1>10, <1>11, <1>12, <1>13, <1>14,
    <1>15, <1>16, <1>17, <1>18, <1>19, <1>20, <1>21, <1>22 DEF Next, ClientNext, Progress,
    AudioNext, TurnNext, RunNext, EventNext

LEMMA SynthStep ==
  ASSUME RunInv, SynthInv, [Next]_vars
  PROVE  SynthInv'
<1> USE DEF RunInv, SynthInv, Loops, WorkedOn, Ended, InGroup, Releases, GroupRuns,
  Cancelling, clientVars, inputVars, runVars, audioVars, asrVars, turnVars, transVars,
  textVars, ttsVars
<1>1. CASE UNCHANGED synthVars
  BY <1>1 DEF synthVars
<1>2. CASE TakeTurn
  BY <1>2 DEF TakeTurn, Raises
<1>3. CASE TakeTranslation
  BY <1>3 DEF TakeTranslation, QueueText
<1>4. CASE EndText
  BY <1>4 DEF EndText
<1>5. CASE CompleteText
  BY <1>5 DEF CompleteText
<1>6. CASE SpeechCompleted
  BY <1>6 DEF SpeechCompleted
<1>7. CASE CompleteTurn
  BY <1>7 DEF CompleteTurn
<1>8. CASE FailTurn
  BY <1>8 DEF FailTurn, Raises, ForgetTurn
<1>9. CASE SendText
  BY <1>9 DEF SendText
<1>10. CASE Synthesized
  BY <1>10 DEF Synthesized
<1>11. CASE CancelLoops
  BY <1>11 DEF CancelLoops, ForgetTurn
<1>12. CASE AbandonTranslation
  BY <1>12 DEF AbandonTranslation
<1>13. CASE ReleaseSynthesizer
  BY <1>13 DEF ReleaseSynthesizer
<1>14. CASE Disconnect \/ ReceiveAudio \/ ReceiveLast \/ TakeChunk \/ SpeechStart \/
            SpeechStarted \/ SendASRAudio \/ SpeechEnd \/ SpeechFinished \/ TurnStable \/
            FailAudio \/ ForwardASREvent \/ RecognizerStarts \/ RecognizerStops \/
            RecognizerEvent \/ RecognizerError \/ TakeDelta \/ PollText \/ ForwardAudio \/
            Produce \/ Synthesize \/ Run \/ Complete \/ Deadline \/ Report \/
            ReleaseRecognizer \/ ReleaseTask \/ UNCHANGED vars
  <2>1. UNCHANGED synthVars
    BY <1>14 DEF Disconnect, ReceiveAudio, ReceiveLast, TakeChunk, SpeechStart,
      SpeechStarted, SendASRAudio, SpeechEnd, SpeechFinished, TurnStable, FailAudio,
      ForwardASREvent, RecognizerStarts, RecognizerStops, RecognizerEvent, RecognizerError,
      TakeDelta, PollText, ForwardAudio, Produce, Synthesize, Run, Complete, Deadline, Report,
      ReleaseRecognizer, ReleaseTask, vars, synthVars
  <2>2. QED
    BY <2>1, <1>1
<1>15. QED
  BY <1>2, <1>3, <1>4, <1>5, <1>6, <1>7, <1>8, <1>9, <1>10, <1>11, <1>12, <1>13,
    <1>14 DEF Next, ClientNext, Progress, AudioNext, TurnNext, RunNext, EventNext

(* What a queue holds when something was taken from it, or put in it.      *)
LEMMA Taken ==
  ASSUME NEW S, NEW q \in Seq(S), q # <<>>
  PROVE  /\ Len(q) \in Nat /\ Len(q) > 0 /\ Head(q) = q[1] /\ q[1] \in S /\ Head(q) \in S
         /\ Tail(q) \in Seq(S) /\ Len(Tail(q)) = Len(q) - 1
         /\ \A i \in 1..Len(Tail(q)) : Tail(q)[i] = q[i + 1]
OBVIOUS

LEMMA WasPut ==
  ASSUME NEW S, NEW q \in Seq(S), NEW e \in S
  PROVE  /\ Len(q) \in Nat
         /\ Append(q, e) \in Seq(S) /\ Len(Append(q, e)) = Len(q) + 1
         /\ \A i \in 1..Len(q) : Append(q, e)[i] = q[i]
         /\ Append(q, e)[Len(q) + 1] = e
OBVIOUS

LEMMA Nothing ==
  ASSUME NEW S
  PROVE  <<>> \in Seq(S) /\ Len(<<>>) = 0 /\ 1..0 = {}
OBVIOUS

LEMMA TurnsTypesStep ==
  ASSUME ModularAssumption, AudioInv, TurnsTypes, [Next]_vars
  PROVE  TurnsTypes'
<1> USE DEF ModularAssumption, AudioInv, TurnsTypes, GroupRuns, Cancelling, clientVars,
  inputVars, runVars, audioVars, asrVars, turnVars, transVars, textVars, ttsVars
<1>1. CASE UNCHANGED turnsTypeVars
  BY <1>1 DEF turnsTypeVars
<1>2. CASE SpeechStart
  BY <1>2 DEF SpeechStart
<1>3. CASE TurnStable
  <2>1. /\ begun \in 1..MaxTurns /\ UNCHANGED begun
        /\ UNCHANGED turns \/ turns' = Append(turns, begun)
    BY <1>3 DEF TurnStable
  <2>2. outcome' \in [1..MaxTurns -> {"none", "heard", "final", "empty", "completed"}]
    BY <1>3, <2>1 DEF TurnStable
  <2>3. ~inTurn'
    BY <1>3 DEF TurnStable
  <2>4. CASE turns' = Append(turns, begun)
    <3>1. begun \in 0..MaxTurns
      BY <2>1
    <3>2. QED
      BY <2>1, <2>2, <2>3, <2>4, <3>1, WasPut
  <2>5. QED
    BY <2>1, <2>2, <2>3, <2>4
<1>4. CASE FailAudio
  BY <1>4 DEF FailAudio, Raises
<1>5. CASE TakeTurn
  <2>1. turns # <<>> /\ turns' = Tail(turns) /\ UNCHANGED <<begun, outcome, inTurn>>
    BY <1>5 DEF TakeTurn
  <2>2. QED
    BY <2>1, Taken
<1>6. CASE CompleteTurn
  BY <1>6 DEF CompleteTurn
<1>7. CASE Run
  <2>1. UNCHANGED <<begun, outcome, inTurn>> /\ (UNCHANGED turns \/ turns' = Append(turns, 0))
    BY <1>7 DEF Run, EndOfTurns
  <2>2. 0 \in 0..MaxTurns
    OBVIOUS
  <2>3. CASE turns' = Append(turns, 0)
    BY <2>1, <2>2, <2>3, WasPut
  <2>4. QED
    BY <2>1, <2>3
<1>8. CASE CancelLoops
  <2>1. turns' = <<>> /\ UNCHANGED <<begun, outcome, inTurn>>
    BY <1>8 DEF CancelLoops
  <2>2. QED
    BY <2>1, Nothing
<1>9. CASE Disconnect \/ ReceiveAudio \/ ReceiveLast \/ TakeChunk \/ SpeechStarted \/
           SendASRAudio \/ SpeechEnd \/ SpeechFinished \/ ForwardASREvent \/
           RecognizerStarts \/ RecognizerStops \/ RecognizerEvent \/ RecognizerError \/
           TakeDelta \/ PollText \/ TakeTranslation \/ EndText \/ CompleteText \/
           SpeechCompleted \/ FailTurn \/ SendText \/ ForwardAudio \/ Produce \/
           Synthesize \/ Synthesized \/ Complete \/ Deadline \/ AbandonTranslation \/
           Report \/ ReleaseRecognizer \/ ReleaseSynthesizer \/ ReleaseTask \/ UNCHANGED vars
  <2>1. UNCHANGED turnsTypeVars
    BY <1>9 DEF Disconnect, ReceiveAudio, ReceiveLast, TakeChunk, SpeechStarted,
      SendASRAudio, SpeechEnd, SpeechFinished, ForwardASREvent, RecognizerStarts,
      RecognizerStops, RecognizerEvent, RecognizerError, TakeDelta, PollText, TakeTranslation,
      EndText, CompleteText, SpeechCompleted, FailTurn, SendText, ForwardAudio, Produce,
      Synthesize, Synthesized, Complete, Deadline, AbandonTranslation, Report,
      ReleaseRecognizer, ReleaseSynthesizer, ReleaseTask, vars, turnsTypeVars
  <2>2. QED
    BY <2>1, <1>1
<1>10. QED
  BY <1>2, <1>3, <1>4, <1>5, <1>6, <1>7, <1>8, <1>9 DEF Next, ClientNext, Progress,
    AudioNext, TurnNext, RunNext, EventNext

LEMMA TurnsStep ==
  ASSUME ModularAssumption, RunInv, AudioInv, SynthInv, TurnsTypes, TurnsInv, [Next]_vars
  PROVE  TurnsInv'
<1> USE DEF RunInv, AudioInv, SynthInv, TurnsInv, OverOrEmpty, BeforeTheEnd, EndOfTurns,
  Loops, WorkedOn, NoFailure, Ended, InGroup, Releases, GroupRuns, Cancelling, clientVars,
  inputVars, runVars, audioVars, asrVars, turnVars, transVars, textVars, ttsVars
<1>1. CASE UNCHANGED turnsVars
  BY <1>1 DEF turnsVars, TurnKnown
<1>2. CASE ReceiveAudio
  BY <1>2 DEF ReceiveAudio, Raises, TurnKnown, TurnsTypes
<1>3. CASE ReceiveLast
  BY <1>3 DEF ReceiveLast, Raises, TurnKnown, TurnsTypes
<1>4. CASE TakeChunk
  BY <1>4 DEF TakeChunk, TurnKnown, TurnsTypes
<1>5. CASE SpeechStart
  BY <1>5 DEF SpeechStart, TurnKnown, TurnsTypes
<1>6. CASE SpeechStarted
  BY <1>6 DEF SpeechStarted, TurnKnown, TurnsTypes
<1>7. CASE SendASRAudio
  BY <1>7 DEF SendASRAudio, TurnKnown, TurnsTypes
<1>8. CASE SpeechEnd
  BY <1>8 DEF SpeechEnd, TurnKnown, TurnsTypes
<1>9. CASE SpeechFinished
  BY <1>9 DEF SpeechFinished, TurnKnown, TurnsTypes
<1>10. CASE TurnStable
  <2>1. /\ begun \in 1..MaxTurns /\ main \in InGroup /\ main \in BeforeTheEnd
        /\ UNCHANGED <<begun, main, told, errors, struck, turn, current>>
        /\ told # "completed"
    BY <1>10 DEF TurnStable, TurnsTypes
  <2>2. /\ Len(turns) \in Nat
        /\ \A i \in 1..Len(turns) : turns[i] # EndOfTurns
        /\ turn # "done"
    BY <2>1 DEF TurnsTypes
  <2>3. /\ \A i \in 1..Len(turns) : i \in 1..Len(turns') /\ turns'[i] = turns[i]
        /\ \A i \in 1..Len(turns') : turns'[i] # EndOfTurns
        /\ outcome'[begun] = "empty" \/ \E i \in 1..Len(turns') : turns'[i] = begun
    <3>1. CASE words
      <4>1. turns' = Append(turns, begun) /\ begun \in 0..MaxTurns
        BY <1>10, <2>1, <3>1 DEF TurnStable
      <4>2. /\ Len(turns') = Len(turns) + 1
            /\ \A i \in 1..Len(turns) : turns'[i] = turns[i]
            /\ turns'[Len(turns) + 1] = begun
        BY <4>1, WasPut DEF TurnsTypes
      <4>3. Len(turns) + 1 \in 1..Len(turns')
        BY <4>2, <2>2
      <4>4. QED
        BY <4>2, <4>3, <2>1, <2>2 DEF EndOfTurns
    <3>2. CASE ~words
      BY <1>10, <2>1, <2>2, <3>2 DEF TurnStable, TurnsTypes
    <3>3. QED
      BY <3>1, <3>2
  <2>4. \A t \in 1..begun : t # begun => outcome'[t] = outcome[t]
    BY <1>10, <2>1 DEF TurnStable, TurnsTypes
  <2>5. \A t \in 1..begun : TurnKnown(t) => TurnKnown(t)'
    BY <2>1, <2>3, <2>4 DEF TurnKnown
  <2>6. QED
    BY <2>1, <2>2, <2>3, <2>5
<1>11. CASE FailAudio
  BY <1>11 DEF FailAudio, Raises, TurnKnown, TurnsTypes
<1>12. CASE TakeTurn
  <2>1. /\ turns # <<>> /\ turns' = Tail(turns) /\ turn = "get" /\ main \in InGroup
        /\ UNCHANGED <<main, told, struck, audio, inTurn, begun, outcome>>
        /\ told # "completed"
    BY <1>12 DEF TakeTurn
  <2>2. /\ Len(turns) \in Nat /\ Len(turns) > 0 /\ Len(turns') = Len(turns) - 1
        /\ Head(turns) = turns[1] /\ \A i \in 1..Len(turns') : turns'[i] = turns[i + 1]
    BY <2>1, Taken DEF TurnsTypes
  <2>3. \A i \in 1..Len(turns') : turns'[i] = EndOfTurns => i = Len(turns') /\ main' \notin BeforeTheEnd
    <3> SUFFICES ASSUME NEW i \in 1..Len(turns'), turns'[i] = EndOfTurns
                 PROVE  i = Len(turns') /\ main' \notin BeforeTheEnd
      OBVIOUS
    <3>1. i + 1 \in 1..Len(turns) /\ turns[i + 1] = EndOfTurns
      BY <2>2
    <3>2. i + 1 = Len(turns) /\ main \notin BeforeTheEnd
      BY <3>1
    <3>3. Len(turns') = Len(turns) - 1 /\ main' = main
      BY <2>1, <2>2
    <3>4. QED
      BY <3>2, <3>3
  <2>4. CASE Head(turns) = EndOfTurns
    <3>1. Len(turns) = 1 /\ main \notin BeforeTheEnd
      <4>1. 1 \in 1..Len(turns) /\ turns[1] = EndOfTurns
        BY <2>2, <2>4
      <4>2. QED
        BY <4>1
    <3>2. turn' = "done" /\ UNCHANGED <<errors, current>>
      BY <1>12, <2>4 DEF TakeTurn
    <3>3. turns' = <<>>
      <4>1. turns' \in Seq(0..MaxTurns) /\ Len(turns') = 0
        BY <2>1, <2>2, <3>1, Taken DEF TurnsTypes
      <4>2. QED
        BY <4>1
    <3>4. \A t \in 1..begun : TurnKnown(t) => TurnKnown(t)'
      BY <2>1, <2>2, <2>4, <3>1, <3>2 DEF TurnKnown, EndOfTurns
    <3>5. QED
      BY <2>1, <3>1, <3>2, <3>3, <3>4, <2>3
  <2>5. CASE Head(turns) # EndOfTurns
    <3>1. current' = turns[1] /\ turns[1] \in 1..begun /\ turn' \in {"translating", "failed"}
      <4>1. 1 \in 1..Len(turns) /\ turns[1] # 0 /\ turns[1] \in 0..MaxTurns /\ turns[1] <= begun
        <5>1. 1 \in 1..Len(turns) /\ turns[1] # 0
          BY <2>2, <2>5
        <5>2. turns[1] \in 0..MaxTurns
          BY <2>1, Taken DEF TurnsTypes
        <5>3. QED
          BY <5>1, <5>2 DEF TurnsTypes
      <4>2. current' = Head(turns) /\ turn' \in {"translating", "failed"}
        BY <1>12, <2>5 DEF TakeTurn
      <4>3. QED
        BY <4>1, <4>2, <2>2 DEF TurnsTypes
    <3>2. turn' = "failed" => errors' # {}
      BY <1>12, <2>5 DEF TakeTurn, Raises
    <3>3. turn' = "translating" => \A t \in 1..begun : TurnKnown(t) => TurnKnown(t)'
      <4> SUFFICES ASSUME turn' = "translating", NEW t \in 1..begun, TurnKnown(t)
                   PROVE  TurnKnown(t)'
        OBVIOUS
      <4>1. CASE \E i \in 1..Len(turns) : turns[i] = t
        <5>1. PICK i \in 1..Len(turns) : turns[i] = t
          BY <4>1
        <5>2. CASE i = 1
          BY <3>1, <5>1, <5>2 DEF TurnKnown
        <5>3. CASE i # 1
          <6>1. i - 1 \in 1..Len(turns') /\ turns'[i - 1] = t
            BY <2>2, <5>1, <5>3
          <6>2. QED
            BY <6>1 DEF TurnKnown
        <5>4. QED
          BY <5>2, <5>3
      <4>2. CASE outcome[t] \in OverOrEmpty \/ (t = begun /\ inTurn)
        BY <2>1, <4>2 DEF TurnKnown
      <4>3. QED
        BY <2>1, <4>1, <4>2 DEF TurnKnown
    <3>4. errors' = {} => turn' = "translating" /\ errors = {}
      BY <1>12, <2>5, <3>1, <3>2 DEF TakeTurn, Raises
    <3>5. QED
      BY <2>1, <3>1, <3>2, <3>3, <3>4, <2>3
  <2>6. QED
    BY <2>4, <2>5
<1>13. CASE TakeTranslation
  BY <1>13 DEF TakeTranslation, QueueText, TurnKnown, TurnsTypes
<1>14. CASE EndText
  BY <1>14 DEF EndText, TurnKnown, TurnsTypes
<1>15. CASE CompleteText
  BY <1>15 DEF CompleteText, TurnKnown, TurnsTypes
<1>16. CASE SpeechCompleted
  BY <1>16 DEF SpeechCompleted, TurnKnown, TurnsTypes
<1>17. CASE CompleteTurn
  BY <1>17 DEF CompleteTurn, TurnKnown, TurnsTypes
<1>18. CASE FailTurn
  BY <1>18 DEF FailTurn, Raises, ForgetTurn, TurnKnown, TurnsTypes
<1>19. CASE Run
  <2>1. /\ UNCHANGED <<told, errors, struck, audio, inTurn, begun, outcome, turn, current>>
        /\ main \in InGroup /\ main' \in InGroup /\ told # "completed"
    BY <1>19 DEF Run
  <2>2. CASE UNCHANGED turns
    <3>1. main \notin BeforeTheEnd => main' \notin BeforeTheEnd
      BY <1>19 DEF Run
    <3>2. \A t \in 1..begun : TurnKnown(t) => TurnKnown(t)'
      BY <2>1, <2>2 DEF TurnKnown
    <3>3. QED
      BY <2>1, <2>2, <3>1, <3>2
  <2>3. CASE main = "put_turn" /\ turns' = Append(turns, EndOfTurns) /\ main' = "turns"
    <3>1. turn # "done" /\ \A i \in 1..Len(turns) : turns[i] # EndOfTurns
      BY <2>3
    <3>2. EndOfTurns \in 0..MaxTurns
      OBVIOUS
    <3>3. /\ Len(turns') = Len(turns) + 1 /\ Len(turns) \in Nat
          /\ \A i \in 1..Len(turns) : turns'[i] = turns[i]
      BY <2>3, <3>2, WasPut DEF TurnsTypes
    <3>4. \A t \in 1..begun : TurnKnown(t) => TurnKnown(t)'
      BY <2>1, <3>3 DEF TurnKnown
    <3>5. QED
      BY <2>1, <2>3, <3>1, <3>3, <3>4
  <2>4. QED
    BY <1>19, <2>2, <2>3 DEF Run
<1>20. CASE Complete
  BY <1>20 DEF Complete, TurnKnown, TurnsTypes
<1>21. CASE Deadline
  BY <1>21 DEF Deadline, TurnKnown, TurnsTypes
<1>22. CASE CancelLoops
  <2>1. turns' = <<>> /\ ~(NoFailure') /\ told # "completed"
    BY <1>22 DEF CancelLoops
  <2>2. Len(turns') = 0
    BY <2>1
  <2>3. turn' = "done" => turn = "done"
    BY <1>22 DEF CancelLoops
  <2>4. turn' \notin WorkedOn /\ UNCHANGED <<told, main>>
    BY <1>22 DEF CancelLoops
  <2>5. QED
    BY <2>1, <2>2, <2>3, <2>4
<1>23. CASE AbandonTranslation
  BY <1>23 DEF AbandonTranslation, TurnKnown, TurnsTypes
<1>24. CASE Report
  BY <1>24 DEF Report, TurnKnown, TurnsTypes
<1>25. CASE ReleaseRecognizer
  BY <1>25 DEF ReleaseRecognizer, TurnKnown, TurnsTypes
<1>26. CASE ReleaseSynthesizer
  BY <1>26 DEF ReleaseSynthesizer, TurnKnown, TurnsTypes
<1>27. CASE ReleaseTask
  BY <1>27 DEF ReleaseTask, TurnKnown, TurnsTypes
<1>28. CASE Disconnect \/ ForwardASREvent \/ RecognizerStarts \/ RecognizerStops \/
            RecognizerEvent \/ RecognizerError \/ TakeDelta \/ PollText \/ SendText \/
            ForwardAudio \/ Produce \/ Synthesize \/ Synthesized \/ UNCHANGED vars
  <2>1. UNCHANGED turnsVars
    BY <1>28 DEF Disconnect, ForwardASREvent, RecognizerStarts, RecognizerStops,
      RecognizerEvent, RecognizerError, TakeDelta, PollText, SendText, ForwardAudio, Produce,
      Synthesize, Synthesized, vars, turnsVars
  <2>2. QED
    BY <2>1, <1>1
<1>29. QED
  BY <1>2, <1>3, <1>4, <1>5, <1>6, <1>7, <1>8, <1>9, <1>10, <1>11, <1>12, <1>13, <1>14,
    <1>15, <1>16, <1>17, <1>18, <1>19, <1>20, <1>21, <1>22, <1>23, <1>24, <1>25, <1>26, <1>27,
    <1>28 DEF Next, ClientNext, Progress, AudioNext, TurnNext, RunNext, EventNext

(* The three things that happen to the text of a turn.                     *)
LEMMA Offered ==
  ASSUME NEW S, NEW q \in Seq(S), NEW over, NEW e \in S, Mark("error") \in S,
         ModularAssumption
  PROVE  Offer(q, over, e) \in Seq(S)
<1>1. CASE Len(q) < EventMax
  BY <1>1, WasPut DEF Offer
<1>2. CASE ~(Len(q) < EventMax) /\ ~over
  <2>1. q # <<>>
    BY <1>2 DEF ModularAssumption
  <2>2. Tail(q) \in Seq(S)
    BY <2>1, Taken
  <2>3. QED
    BY <1>2, <2>2, WasPut DEF Offer
<1>3. QED
  BY <1>1, <1>2 DEF Offer

LEMMA TextTypesStep ==
  ASSUME ModularAssumption, TextTypes, [Next]_vars
  PROVE  TextTypes'
<1> USE DEF TextTypes, GroupRuns, Cancelling, clientVars, inputVars, runVars, audioVars,
  asrVars, turnVars, transVars, textVars, ttsVars
<1>1. CASE UNCHANGED textTypeVars
  BY <1>1 DEF textTypeVars
<1>2. CASE TakeTurn
  <2>1. CASE Head(turns) = EndOfTurns
    BY <1>2, <2>1 DEF TakeTurn
  <2>2. CASE Head(turns) # EndOfTurns
    <3>1. spoken' = <<>> /\ held' = <<>> /\ segments' = <<>> /\ tq' = <<>> /\ given' = 0
      BY <1>2, <2>2 DEF TakeTurn
    <3>2. QED
      BY <3>1, Nothing
  <2>3. QED
    BY <2>1, <2>2
<1>3. CASE TakeDelta
  <2>1. tq # <<>> /\ tq' = Tail(tq) /\ UNCHANGED <<spoken, given>>
    BY <1>3 DEF TakeDelta
  <2>2. Head(tq) \in DeltaItem /\ tq' \in Seq(DeltaItem)
    BY <2>1, Taken
  <2>3. Append(held, Head(tq).n) \in Seq(Nat)
    BY <2>2, WasPut DEF DeltaItem
  <2> DEFINE fed == Append(held, Head(tq).n)
  <2>5. \/ held' = fed /\ UNCHANGED segments
        \/ held' = <<>> /\ segments' = Append(segments, fed)
    BY <1>3 DEF TakeDelta, QueueText
  <2>6. fed \in Seq(Nat)
    BY <2>3
  <2>7. Append(segments, fed) \in Seq(Seq(Nat))
    BY <2>6, WasPut
  <2>8. <<>> \in Seq(Nat)
    OBVIOUS
  <2> HIDE DEF fed
  <2>9. QED
    BY <2>1, <2>2, <2>5, <2>6, <2>7, <2>8
<1>4. CASE PollText
  <2>1. held' = <<>> /\ segments' = Append(segments, held) /\ UNCHANGED <<spoken, given, tq>>
    BY <1>4 DEF PollText, QueueText
  <2>2. QED
    BY <2>1, WasPut, Nothing
<1>5. CASE TakeTranslation
  <2>1. /\ tq # <<>> /\ tq' = Tail(tq) /\ held' = <<>> /\ UNCHANGED <<spoken, given>>
        /\ UNCHANGED segments \/ segments' = Append(segments, held)
    BY <1>5 DEF TakeTranslation, QueueText
  <2>2. tq' \in Seq(DeltaItem)
    BY <2>1, Taken
  <2>3. <<>> \in Seq(Nat) /\ Append(segments, held) \in Seq(Seq(Nat))
    BY WasPut
  <2>4. QED
    BY <2>1, <2>2, <2>3
<1>6. CASE EndText
  <2>1. segments' = Append(segments, <<>>) /\ UNCHANGED <<spoken, given, tq, held>>
    BY <1>6 DEF EndText, EndOfText
  <2>2. QED
    BY <2>1, WasPut, Nothing
<1>7. CASE FailTurn
  <2>1. spoken' = <<>> /\ held' = <<>> /\ segments' = <<>> /\ tq' = <<>> /\ given' = 0
    BY <1>7 DEF FailTurn, Raises, ForgetTurn
  <2>2. QED
    BY <2>1, Nothing
<1>8. CASE SendText
  <2>1. /\ segments # <<>> /\ segments' = Tail(segments) /\ UNCHANGED <<given, tq, held>>
        /\ UNCHANGED spoken \/ spoken' = spoken \o Head(segments)
    BY <1>8 DEF SendText
  <2>2. Head(segments) \in Seq(Nat) /\ segments' \in Seq(Seq(Nat))
    BY <2>1, Taken
  <2>3. spoken \o Head(segments) \in Seq(Nat)
    BY <2>2
  <2>4. QED
    BY <2>1, <2>2, <2>3
<1>9. CASE Produce
  <2>1. /\ UNCHANGED <<spoken, held, segments>> /\ given' \in Nat
        /\ \E e \in DeltaItem : tq' = Append(tq, e)
    <3>1. /\ Item("delta", given + 1) \in DeltaItem
          /\ Mark("final") \in DeltaItem /\ Mark("error") \in DeltaItem
      BY DEF Item, Mark, DeltaItem
    <3>2. CASE given' = given + 1 /\ tq' = Append(tq, Item("delta", given'))
      BY <1>9, <3>1, <3>2 DEF Produce
    <3>3. CASE UNCHANGED given /\ tq' = Append(tq, Mark("final"))
      BY <1>9, <3>1, <3>3 DEF Produce
    <3>4. CASE UNCHANGED given /\ tq' = Append(tq, Mark("error"))
      BY <1>9, <3>1, <3>4 DEF Produce
    <3>5. QED
      BY <1>9, <3>2, <3>3, <3>4 DEF Produce
  <2>2. QED
    BY <2>1, WasPut
<1>10. CASE CancelLoops
  <2>1. spoken' = <<>> /\ held' = <<>> /\ segments' = <<>> /\ tq' = <<>> /\ given' = 0
    BY <1>10 DEF CancelLoops, ForgetTurn
  <2>2. QED
    BY <2>1, Nothing
<1>11. CASE Disconnect \/ ReceiveAudio \/ ReceiveLast \/ TakeChunk \/ SpeechStart \/
            SpeechStarted \/ SendASRAudio \/ SpeechEnd \/ SpeechFinished \/ TurnStable \/
            FailAudio \/ ForwardASREvent \/ RecognizerStarts \/ RecognizerStops \/
            RecognizerEvent \/ RecognizerError \/ CompleteText \/ SpeechCompleted \/
            CompleteTurn \/ ForwardAudio \/ Synthesize \/ Synthesized \/ Run \/ Complete \/
            Deadline \/ AbandonTranslation \/ Report \/ ReleaseRecognizer \/
            ReleaseSynthesizer \/ ReleaseTask \/ UNCHANGED vars
  <2>1. UNCHANGED textTypeVars
    BY <1>11 DEF Disconnect, ReceiveAudio, ReceiveLast, TakeChunk, SpeechStart,
      SpeechStarted, SendASRAudio, SpeechEnd, SpeechFinished, TurnStable, FailAudio,
      ForwardASREvent, RecognizerStarts, RecognizerStops, RecognizerEvent, RecognizerError,
      CompleteText, SpeechCompleted, CompleteTurn, ForwardAudio, Synthesize, Synthesized, Run,
      Complete, Deadline, AbandonTranslation, Report, ReleaseRecognizer, ReleaseSynthesizer,
      ReleaseTask, vars, textTypeVars
  <2>2. QED
    BY <2>1, <1>1
<1>12. QED
  BY <1>2, <1>3, <1>4, <1>5, <1>6, <1>7, <1>8, <1>9, <1>10, <1>11 DEF Next, ClientNext,
    Progress, AudioNext, TurnNext, RunNext, EventNext

LEMMA AudioTypesStep ==
  ASSUME ModularAssumption, AudioTypes, [Next]_vars
  PROVE  AudioTypes'
<1> USE DEF AudioTypes, GroupRuns, Cancelling, clientVars, inputVars, runVars, audioVars,
  asrVars, turnVars, transVars, textVars, ttsVars
<1>1. CASE UNCHANGED audioTypeVars
  BY <1>1 DEF audioTypeVars
<1>2. CASE TakeTurn
  <2>1. CASE Head(turns) = EndOfTurns
    BY <1>2, <2>1 DEF TakeTurn
  <2>2. CASE Head(turns) # EndOfTurns
    <3>1. aired' = <<>> /\ ttsq' = <<>> /\ made' = 0
      BY <1>2, <2>2 DEF TakeTurn
    <3>2. QED
      BY <3>1, Nothing
  <2>3. QED
    BY <2>1, <2>2
<1>3. CASE FailTurn
  <2>1. aired' = <<>> /\ ttsq' = <<>> /\ made' = 0
    BY <1>3 DEF FailTurn, Raises, ForgetTurn
  <2>2. QED
    BY <2>1, Nothing
<1>4. CASE ForwardAudio
  <2>1. /\ ttsq # <<>> /\ ttsq' = Tail(ttsq) /\ UNCHANGED made
        /\ UNCHANGED aired \/ aired' = Append(aired, Head(ttsq).n)
    BY <1>4 DEF ForwardAudio
  <2>2. Head(ttsq) \in AudioItem /\ ttsq' \in Seq(AudioItem)
    BY <2>1, Taken
  <2>3. Append(aired, Head(ttsq).n) \in Seq(Nat)
    BY <2>2, WasPut DEF AudioItem
  <2>4. QED
    BY <2>1, <2>2, <2>3
<1>5. CASE Synthesize
  <2>1. /\ UNCHANGED aired /\ made' = made + 1
        /\ \E e \in {Item("audio", made'), Mark("error")} : ttsq' = Offer(ttsq, ttsOver, e)
    BY <1>5 DEF Synthesize
  <2>2. \A e \in {Item("audio", made'), Mark("error")} : Offer(ttsq, ttsOver, e) \in Seq(AudioItem)
    <3> TAKE e \in {Item("audio", made'), Mark("error")}
    <3>1. e \in AudioItem /\ Mark("error") \in AudioItem
      BY <2>1 DEF Item, Mark, AudioItem
    <3>2. QED
      BY <3>1, Offered
  <2>3. QED
    BY <2>1, <2>2
<1>6. CASE Synthesized
  <2>1. /\ UNCHANGED <<aired, made>>
        /\ UNCHANGED ttsq \/ ttsq' = Offer(ttsq, ttsOver, Mark("completed"))
    BY <1>6 DEF Synthesized
  <2>2. Mark("completed") \in AudioItem /\ Mark("error") \in AudioItem
    BY DEF Item, Mark, AudioItem
  <2>3. Offer(ttsq, ttsOver, Mark("completed")) \in Seq(AudioItem)
    BY <2>2, Offered
  <2>4. QED
    BY <2>1, <2>3
<1>7. CASE CancelLoops
  <2>1. aired' = <<>> /\ ttsq' = <<>> /\ made' = 0
    BY <1>7 DEF CancelLoops, ForgetTurn
  <2>2. QED
    BY <2>1, Nothing
<1>8. CASE Disconnect \/ ReceiveAudio \/ ReceiveLast \/ TakeChunk \/ SpeechStart \/
           SpeechStarted \/ SendASRAudio \/ SpeechEnd \/ SpeechFinished \/ TurnStable \/
           FailAudio \/ ForwardASREvent \/ RecognizerStarts \/ RecognizerStops \/
           RecognizerEvent \/ RecognizerError \/ TakeDelta \/ PollText \/ TakeTranslation \/
           EndText \/ CompleteText \/ SpeechCompleted \/ CompleteTurn \/ SendText \/
           Produce \/ Run \/ Complete \/ Deadline \/ AbandonTranslation \/ Report \/
           ReleaseRecognizer \/ ReleaseSynthesizer \/ ReleaseTask \/ UNCHANGED vars
  <2>1. UNCHANGED audioTypeVars
    BY <1>8 DEF Disconnect, ReceiveAudio, ReceiveLast, TakeChunk, SpeechStart,
      SpeechStarted, SendASRAudio, SpeechEnd, SpeechFinished, TurnStable, FailAudio,
      ForwardASREvent, RecognizerStarts, RecognizerStops, RecognizerEvent, RecognizerError,
      TakeDelta, PollText, TakeTranslation, EndText, CompleteText, SpeechCompleted,
      CompleteTurn, SendText, Produce, Run, Complete, Deadline, AbandonTranslation, Report,
      ReleaseRecognizer, ReleaseSynthesizer, ReleaseTask, vars, audioTypeVars
  <2>2. QED
    BY <2>1, <1>1
<1>9. QED
  BY <1>2, <1>3, <1>4, <1>5, <1>6, <1>7, <1>8 DEF Next, ClientNext, Progress, AudioNext,
    TurnNext, RunNext, EventNext

LEMMA TranslatorStep ==
  ASSUME TextTypes, TranslatorInv, [Next]_vars
  PROVE  TranslatorInv'
<1> USE DEF TranslatorInv, Ended, GroupRuns, Cancelling, clientVars, inputVars, runVars,
  audioVars, asrVars, turnVars, transVars, textVars, ttsVars
<1>1. CASE UNCHANGED translatorVars
  BY <1>1 DEF translatorVars
<1>2. CASE TakeTurn
  <2>1. CASE Head(turns) = EndOfTurns
    BY <1>2, <2>1 DEF TakeTurn
  <2>2. CASE Head(turns) # EndOfTurns
    <3>1. /\ tq' = <<>>
          /\ turn' = "failed" \/ (turn' = "translating" /\ producer' = "running")
          /\ producer' \in {"running", "ended"}
      BY <1>2, <2>2 DEF TakeTurn
    <3>2. Len(tq') = 0
      BY <3>1
    <3>3. QED
      BY <3>1, <3>2
  <2>3. QED
    BY <2>1, <2>2
<1>3. CASE TakeDelta
  <2>1. /\ tq # <<>> /\ tq' = Tail(tq) /\ UNCHANGED <<turn, producer>> /\ Head(tq).kind = "delta"
        /\ turn = "translating"
    BY <1>3 DEF TakeDelta
  <2>2. /\ Len(tq) \in Nat /\ Len(tq) > 0 /\ Head(tq) = tq[1] /\ Len(tq') = Len(tq) - 1
        /\ \A i \in 1..Len(tq') : tq'[i] = tq[i + 1]
    BY <2>1, Taken DEF TextTypes
  <2>3. CASE producer = "running"
    BY <2>1, <2>2, <2>3
  <2>4. CASE producer # "running"
    <3>1. Len(tq) # 1
      BY <2>1, <2>2, <2>4
    <3>2. Len(tq') > 0 /\ tq'[Len(tq')] = tq[Len(tq)]
      BY <2>2, <3>1
    <3>3. \A i \in 1..(Len(tq') - 1) : tq'[i].kind = "delta"
      BY <2>1, <2>2, <2>4
    <3>4. tq' # <<>>
      BY <3>2
    <3>5. tq[Len(tq)].kind \in {"final", "error"}
      BY <2>1, <2>4
    <3>6. QED
      BY <2>1, <2>4, <3>2, <3>3, <3>4, <3>5
  <2>5. QED
    BY <2>3, <2>4
<1>4. CASE TakeTranslation
  <2>1. tq # <<>> /\ turn' = "ending" /\ turn = "translating" /\ Head(tq).kind = "final" /\ UNCHANGED producer
    BY <1>4 DEF TakeTranslation
  <2>2. 1 \in 1..Len(tq) /\ Head(tq) = tq[1]
    BY <2>1, Taken DEF TextTypes
  <2>3. producer = "ended"
    BY <2>1, <2>2
  <2>4. turn' = "ending" /\ producer' = "ended"
    BY <2>1, <2>3
  <2>5. QED
    BY <2>4
<1>5. CASE EndText
  BY <1>5 DEF EndText
<1>6. CASE CompleteText
  BY <1>6 DEF CompleteText
<1>7. CASE SpeechCompleted
  BY <1>7 DEF SpeechCompleted
<1>8. CASE CompleteTurn
  BY <1>8 DEF CompleteTurn
<1>9. CASE FailTurn
  BY <1>9 DEF FailTurn, Raises, ForgetTurn
<1>10. CASE Produce
  <2>1. UNCHANGED turn /\ producer = "running" /\ producer' \in {"running", "ended"}
    BY <1>10 DEF Produce
  <2>2. PICK e \in DeltaItem :
          /\ tq' = Append(tq, e)
          /\ producer' = "running" => e.kind = "delta"
          /\ producer' # "running" => e.kind \in {"final", "error"}
    BY <1>10 DEF Produce, Item, Mark, TextTypes, DeltaItem
  <2>3. /\ Len(tq) \in Nat /\ Len(tq') = Len(tq) + 1 /\ tq'[Len(tq) + 1] = e
        /\ \A i \in 1..Len(tq) : tq'[i] = tq[i]
    BY <2>2, WasPut DEF TextTypes
  <2>4. CASE turn = "translating"
    <3>1. \A i \in 1..Len(tq) : tq[i].kind = "delta"
      BY <2>1, <2>4
    <3>2. QED
      BY <2>1, <2>2, <2>3, <2>4, <3>1
  <2>5. QED
    BY <2>1, <2>4
<1>11. CASE CancelLoops
  BY <1>11 DEF CancelLoops, ForgetTurn
<1>12. CASE AbandonTranslation
  BY <1>12 DEF AbandonTranslation
<1>13. CASE Disconnect \/ ReceiveAudio \/ ReceiveLast \/ TakeChunk \/ SpeechStart \/
            SpeechStarted \/ SendASRAudio \/ SpeechEnd \/ SpeechFinished \/ TurnStable \/
            FailAudio \/ ForwardASREvent \/ RecognizerStarts \/ RecognizerStops \/
            RecognizerEvent \/ RecognizerError \/ PollText \/ SendText \/ ForwardAudio \/
            Synthesize \/ Synthesized \/ Run \/ Complete \/ Deadline \/ Report \/
            ReleaseRecognizer \/ ReleaseSynthesizer \/ ReleaseTask \/ UNCHANGED vars
  <2>1. UNCHANGED translatorVars
    BY <1>13 DEF Disconnect, ReceiveAudio, ReceiveLast, TakeChunk, SpeechStart,
      SpeechStarted, SendASRAudio, SpeechEnd, SpeechFinished, TurnStable, FailAudio,
      ForwardASREvent, RecognizerStarts, RecognizerStops, RecognizerEvent, RecognizerError,
      PollText, SendText, ForwardAudio, Synthesize, Synthesized, Run, Complete, Deadline,
      Report, ReleaseRecognizer, ReleaseSynthesizer, ReleaseTask, vars, translatorVars
  <2>2. QED
    BY <2>1, <1>1
<1>14. QED
  BY <1>2, <1>3, <1>4, <1>5, <1>6, <1>7, <1>8, <1>9, <1>10, <1>11, <1>12, <1>13 DEF Next,
    ClientNext, Progress, AudioNext, TurnNext, RunNext, EventNext

-------------------------------------------------------------------------------
(* The deltas of a turn.                                                   *)

(* A segment that was put in the text queue ends it.                       *)
LEMMA UpperPut ==
  ASSUME TextTypes, NEW s \in Seq(Nat), segments' = Append(segments, s), UNCHANGED spoken
  PROVE  /\ Len(segments) \in Nat /\ Len(segments') = Len(segments) + 1
         /\ segments'[Len(segments')] = s
         /\ \A i \in 1..Len(segments) : segments'[i] = segments[i]
         /\ \A i \in 0..Len(segments) : Upper(i)' = Upper(i)
         /\ Upper(Len(segments))' = s[Len(s)]
<1>1. /\ Len(segments) \in Nat /\ Len(segments') = Len(segments) + 1
      /\ segments'[Len(segments) + 1] = s
      /\ \A i \in 1..Len(segments) : segments'[i] = segments[i]
  BY WasPut DEF TextTypes
<1>2. \A i \in 0..Len(segments) : Upper(i)' = Upper(i)
  BY <1>1 DEF Upper
<1>3. QED
  BY <1>1, <1>2 DEF Upper

(* What follows n ends that much further on.                               *)
LEMMA FollowsEnd ==
  ASSUME NEW s \in Seq(Nat), s # <<>>, NEW n \in Nat, Follows(s, n)
  PROVE  s[Len(s)] = n + Len(s)
<1>1. Len(s) \in 1..Len(s)
  OBVIOUS
<1>2. QED
  BY <1>1 DEF Follows

LEMMA UpperIsNat ==
  ASSUME TextTypes, SegmentsInOrder, NEW n \in 0..Len(segments),
         \A i \in 1..n : segments[i] # EndOfText
  PROVE  Upper(n) \in Nat
<1>1. CASE n = 0
  BY <1>1 DEF Upper, TextTypes
<1>2. CASE n # 0
  <2>1. segments[n] \in Seq(Nat) /\ segments[n] # <<>>
    BY <1>2 DEF TextTypes, EndOfText
  <2>2. Len(segments[n]) \in 1..Len(segments[n])
    BY <2>1
  <2>3. QED
    BY <1>2, <2>1, <2>2 DEF Upper
<1>3. QED
  BY <1>1, <1>2

(* The segmenter gives a segment of what it held.                          *)
LEMMA SegmentGiven ==
  ASSUME TextTypes, SegmentsInOrder, NoEndYet, NEW s \in Seq(Nat), s # <<>>,
         Follows(s, Upper(Len(segments))), segments' = Append(segments, s), UNCHANGED spoken
  PROVE  /\ SegmentsInOrder' /\ NoEndYet'
         /\ Upper(Len(segments))' = Upper(Len(segments)) + Len(s)
<1>1. /\ Len(segments) \in Nat /\ Len(segments') = Len(segments) + 1
      /\ segments'[Len(segments')] = s
      /\ \A i \in 1..Len(segments) : segments'[i] = segments[i]
      /\ \A i \in 0..Len(segments) : Upper(i)' = Upper(i)
      /\ Upper(Len(segments))' = s[Len(s)]
  BY UpperPut
<1>2. Upper(Len(segments)) \in Nat
  <2>1. Len(segments) \in 0..Len(segments)
    BY <1>1
  <2>2. QED
    BY <2>1, UpperIsNat DEF NoEndYet
<1>3. s[Len(s)] = Upper(Len(segments)) + Len(s)
  BY <1>2, FollowsEnd
<1>4. NoEndYet'
  <2> SUFFICES ASSUME NEW i \in 1..Len(segments')
               PROVE  segments'[i] # <<>>
    BY DEF NoEndYet, EndOfText
  <2>1. CASE i \in 1..Len(segments)
    BY <1>1, <2>1 DEF NoEndYet, EndOfText
  <2>2. CASE i = Len(segments')
    BY <1>1, <2>2
  <2>3. QED
    BY <1>1, <2>1, <2>2
<1>5. SegmentsInOrder'
  <2> SUFFICES ASSUME NEW i \in 1..Len(segments')
               PROVE  Follows(segments'[i], Upper(i - 1)')
    BY DEF SegmentsInOrder, Follows
  <2>1. CASE i \in 1..Len(segments)
    <3>1. Follows(segments[i], Upper(i - 1))
      BY <2>1 DEF SegmentsInOrder, NoEndYet
    <3>2. Upper(i - 1)' = Upper(i - 1)
      BY <1>1, <2>1
    <3>3. QED
      BY <1>1, <2>1, <3>1, <3>2 DEF Follows
  <2>2. CASE i = Len(segments')
    <3>1. i - 1 = Len(segments) /\ Upper(i - 1)' = Upper(Len(segments))
      BY <1>1, <2>2
    <3>2. QED
      BY <1>1, <2>2, <3>1 DEF Follows
  <2>3. QED
    BY <1>1, <2>1, <2>2
<1>6. QED
  BY <1>1, <1>3, <1>4, <1>5

(* The first segment is spoken: every other one is a place further up.     *)
LEMMA SegmentSpoken ==
  ASSUME TextTypes, SegmentsInOrder, segments # <<>>, Head(segments) # EndOfText,
         segments' = Tail(segments), spoken' = spoken \o Head(segments)
  PROVE  /\ SegmentsInOrder'
         /\ \A i \in 0..Len(segments') : Upper(i)' = Upper(i + 1)
<1>1. /\ Len(segments) \in Nat /\ Len(segments) > 0 /\ Len(segments') = Len(segments) - 1
      /\ Head(segments) = segments[1] /\ segments[1] \in Seq(Nat)
      /\ \A i \in 1..Len(segments') : segments'[i] = segments[i + 1]
  BY Taken DEF TextTypes
<1>2. 1 \in 1..Len(segments) /\ segments[1] # <<>> /\ segments[1] # EndOfText
  BY <1>1 DEF EndOfText
<1>3. Follows(segments[1], Len(spoken))
  <2>1. Follows(segments[1], Upper(1 - 1))
    BY <1>2 DEF SegmentsInOrder
  <2>2. QED
    BY <2>1 DEF Upper
<1>4. /\ Len(spoken) \in Nat /\ Len(segments[1]) \in Nat
      /\ Len(spoken') = Len(spoken) + Len(segments[1])
      /\ \A j \in 1..Len(spoken) : spoken'[j] = spoken[j]
      /\ \A j \in 1..Len(segments[1]) : spoken'[Len(spoken) + j] = segments[1][j]
  BY <1>1 DEF TextTypes
<1>5. segments[1][Len(segments[1])] = Len(spoken) + Len(segments[1])
  BY <1>1, <1>2, <1>3, <1>4, FollowsEnd
<1>6. Follows(spoken, 0)'
  <2> SUFFICES ASSUME NEW j \in 1..Len(spoken')
               PROVE  spoken'[j] = j
    BY DEF Follows
  <2>1. CASE j <= Len(spoken)
    BY <1>4, <2>1 DEF SegmentsInOrder, Follows
  <2>2. CASE ~(j <= Len(spoken))
    <3>1. j - Len(spoken) \in 1..Len(segments[1]) /\ j = Len(spoken) + (j - Len(spoken))
      BY <1>4, <2>2
    <3>2. spoken'[j] = segments[1][j - Len(spoken)]
      BY <1>4, <3>1
    <3>3. QED
      BY <1>3, <3>1, <3>2 DEF Follows
  <2>3. QED
    BY <2>1, <2>2
<1>7. ASSUME NEW i \in 0..Len(segments')
      PROVE  Upper(i)' = Upper(i + 1)
  <2>1. CASE i = 0
    BY <1>4, <1>5, <2>1 DEF Upper
  <2>2. CASE i # 0
    <3>1. i \in 1..Len(segments') /\ i + 1 # 0
      BY <1>1, <2>2
    <3>2. QED
      BY <1>1, <2>2, <3>1 DEF Upper
  <2>3. QED
    BY <2>1, <2>2
<1>8. ASSUME NEW i \in 1..Len(segments'), segments'[i] # EndOfText
      PROVE  Follows(segments'[i], Upper(i - 1)')
  <2>1. i + 1 \in 1..Len(segments) /\ segments'[i] = segments[i + 1]
    BY <1>1
  <2>2. Follows(segments[i + 1], Upper((i + 1) - 1))
    BY <1>8, <2>1 DEF SegmentsInOrder
  <2>3. i - 1 \in 0..Len(segments') /\ (i + 1) - 1 = (i - 1) + 1
    BY <1>1
  <2>4. Upper(i - 1)' = Upper((i + 1) - 1)
    BY <1>7, <2>3
  <2>5. QED
    BY <2>1, <2>2, <2>4
<1>9. QED
  BY <1>6, <1>7, <1>8 DEF SegmentsInOrder, Follows

LEMMA TranslationTaken ==
  ASSUME TextTypes, tq # <<>>, tq' = Tail(tq)
  PROVE  /\ Len(tq) \in Nat /\ Len(tq) > 0 /\ Len(tq') = Len(tq) - 1
         /\ Head(tq) = tq[1] /\ tq[1] \in DeltaItem
         /\ \A i \in 1..Len(tq') : i + 1 \in 1..Len(tq) /\ tq'[i] = tq[i + 1]
<1>1. /\ Len(tq) \in Nat /\ Len(tq) > 0 /\ Len(tq') = Len(tq) - 1
      /\ Head(tq) = tq[1] /\ tq[1] \in DeltaItem
      /\ \A i \in 1..Len(tq') : tq'[i] = tq[i + 1]
  BY Taken DEF TextTypes
<1>2. QED
  BY <1>1

LEMMA TakeDeltaText ==
  ASSUME TextTypes, TranslatorInv, TextInv, TakeDelta
  PROVE  TextInv'
<1> USE DEF transVars, textVars, turnVars
<1>1. /\ turn = "translating" /\ tq # <<>> /\ tq' = Tail(tq) /\ Head(tq).kind = "delta"
      /\ UNCHANGED <<turn, producer, given, text, spoken>>
  BY DEF TakeDelta
<1>2. CASE text = "failed"
  BY <1>1, <1>2 DEF TextInv, WorkedOn
<1>3. CASE text # "failed"
  <2> DEFINE U == Upper(Len(segments))
             fed == Append(held, Head(tq).n)
  <2>1. text = "running" /\ SegmentsInOrder /\ NoEndYet /\ DeltasInOrder
    BY <1>1, <1>3 DEF TextInv, WorkedOn
  <2>2. U \in Nat
    <3>1. Len(segments) \in 0..Len(segments)
      BY DEF TextTypes
    <3>2. QED
      BY <2>1, <3>1, UpperIsNat DEF NoEndYet
  <2>3. /\ Len(tq) \in Nat /\ Len(tq) > 0 /\ Len(tq') = Len(tq) - 1
        /\ Head(tq) = tq[1] /\ tq[1].n \in Nat
        /\ \A i \in 1..Len(tq') : i + 1 \in 1..Len(tq) /\ tq'[i] = tq[i + 1]
    BY <1>1, TranslationTaken DEF DeltaItem
  <2>4. tq[1].n = U + Len(held) + 1
    <3>1. 1 \in 1..Len(tq) /\ tq[1].kind = "delta"
      BY <1>1, <2>3
    <3>2. QED
      BY <2>1, <3>1 DEF DeltasInOrder
  <2>5. /\ Len(held) \in Nat /\ fed \in Seq(Nat) /\ Len(fed) = Len(held) + 1
        /\ \A i \in 1..Len(held) : fed[i] = held[i]
        /\ fed[Len(held) + 1] = Head(tq).n
    <3>1. Head(tq).n \in Nat
      BY <2>3
    <3>2. QED
      BY <3>1, WasPut DEF TextTypes
  <2>6. \/ held' = fed /\ UNCHANGED segments
        \/ held' = <<>> /\ segments' = Append(segments, fed)
    BY DEF TakeDelta, QueueText, textVars
  <2>7. Follows(fed, U)
    <3> SUFFICES ASSUME NEW i \in 1..Len(fed)
                 PROVE  fed[i] = U + i
      BY DEF Follows
    <3>1. CASE i \in 1..Len(held)
      <4>1. held[i] = U + i
        BY <2>1, <3>1 DEF DeltasInOrder, Follows
      <4>2. QED
        BY <4>1, <3>1, <2>5
    <3>2. CASE i = Len(held) + 1
      <4>1. fed[i] = U + Len(held) + 1
        BY <2>3, <2>4, <2>5, <3>2
      <4>2. QED
        BY <4>1, <3>2, <2>2, <2>5
    <3>3. QED
      BY <2>5, <3>1, <3>2
  <2>8. \A i \in 1..Len(tq') : tq'[i].kind = "delta" => tq'[i].n = U + Len(fed) + i
    <3> SUFFICES ASSUME NEW i \in 1..Len(tq'), tq'[i].kind = "delta"
                 PROVE  tq'[i].n = U + Len(fed) + i
      OBVIOUS
    <3>1. i + 1 \in 1..Len(tq) /\ tq'[i] = tq[i + 1]
      BY <2>3
    <3>2. tq[i + 1].n = U + Len(held) + (i + 1)
      BY <2>1, <3>1 DEF DeltasInOrder
    <3>3. QED
      BY <3>1, <3>2, <2>2, <2>3, <2>5
  <2>9. given = U + Len(fed) + (IF producer = "running" THEN Len(tq') ELSE Len(tq') - 1)
    BY <2>1, <2>2, <2>3, <2>5 DEF DeltasInOrder
  <2> HIDE DEF fed, U
  <2>10. CASE held' = fed /\ UNCHANGED segments
    <3>1. Upper(Len(segments))' = U /\ SegmentsInOrder' /\ NoEndYet'
      BY <1>1, <2>1, <2>10 DEF U, Upper, SegmentsInOrder, NoEndYet, Follows
    <3>2. DeltasInOrder'
      BY <1>1, <2>7, <2>8, <2>9, <2>10, <3>1 DEF DeltasInOrder, Follows
    <3>3. QED
      BY <1>1, <2>1, <3>1, <3>2 DEF TextInv, WorkedOn
  <2>11. CASE held' = <<>> /\ segments' = Append(segments, fed)
    <3>1. fed # <<>>
      BY <2>5
    <3>2. SegmentsInOrder' /\ NoEndYet' /\ Upper(Len(segments))' = U + Len(fed)
      BY <1>1, <2>1, <2>5, <2>7, <2>11, <3>1, SegmentGiven DEF U
    <3>3. Len(held') = 0
      BY <2>11
    <3>4. DeltasInOrder'
      BY <1>1, <2>2, <2>3, <2>5, <2>8, <2>9, <3>2, <3>3 DEF DeltasInOrder, Follows
    <3>5. QED
      BY <1>1, <2>1, <3>2, <3>4 DEF TextInv, WorkedOn
  <2>12. QED
    BY <2>6, <2>10, <2>11
<1>4. QED
  BY <1>2, <1>3

LEMMA UpperLast ==
  ASSUME TextTypes, SegmentsInOrder, NoEndYet
  PROVE  Upper(Len(segments)) \in Nat
<1>1. Len(segments) \in 0..Len(segments)
  BY DEF TextTypes
<1>2. QED
  BY <1>1, UpperIsNat DEF NoEndYet

LEMMA PollTextText ==
  ASSUME TextTypes, TranslatorInv, TextInv, PollText
  PROVE  TextInv'
<1> USE DEF transVars, textVars, turnVars
<1>1. /\ turn = "translating" /\ tq = <<>> /\ held # <<>> /\ held' = <<>>
      /\ text # "failed" /\ segments' = Append(segments, held)
      /\ UNCHANGED <<turn, producer, given, tq, text, spoken>>
  BY DEF PollText, QueueText
<1>2. text = "running" /\ SegmentsInOrder /\ NoEndYet /\ DeltasInOrder
  BY <1>1 DEF TextInv, WorkedOn
<1>3. Upper(Len(segments)) \in Nat /\ held \in Seq(Nat) /\ Len(held) \in Nat /\ Len(tq) = 0
  BY <1>1, <1>2, UpperLast DEF TextTypes
<1>4. SegmentsInOrder' /\ NoEndYet' /\ Upper(Len(segments))' = Upper(Len(segments)) + Len(held)
  BY <1>1, <1>2, <1>3, SegmentGiven DEF DeltasInOrder
<1>5. Len(held') = 0 /\ Len(tq') = 0
  BY <1>1
<1>6. DeltasInOrder'
  BY <1>1, <1>2, <1>3, <1>4, <1>5 DEF DeltasInOrder, Follows
<1>7. QED
  BY <1>1, <1>2, <1>4, <1>6 DEF TextInv, WorkedOn

LEMMA TakeTranslationText ==
  ASSUME TextTypes, TranslatorInv, TextInv, TakeTranslation
  PROVE  TextInv'
<1> USE DEF transVars, textVars
<1>1. /\ turn = "translating" /\ turn' = "ending" /\ tq # <<>> /\ Head(tq).kind = "final"
      /\ UNCHANGED <<producer, given, text, spoken>>
  BY DEF TakeTranslation
<1>2. CASE text = "failed"
  BY <1>1, <1>2 DEF TextInv, WorkedOn
<1>3. CASE text # "failed"
  <2>1. text = "running" /\ SegmentsInOrder /\ NoEndYet /\ DeltasInOrder
    BY <1>1, <1>3 DEF TextInv, WorkedOn
  <2>2. /\ Upper(Len(segments)) \in Nat /\ held \in Seq(Nat) /\ Len(held) \in Nat
    BY <2>1, UpperLast DEF TextTypes
  <2>3. Len(tq) \in Nat /\ Len(tq) > 0 /\ Head(tq) = tq[1]
    BY <1>1, Taken DEF TextTypes
  <2>4. tq[1].kind = "final"
    BY <1>1, <2>3
  <2>5. producer # "running" /\ Len(tq) = 1
    <3>1. 1 \in 1..Len(tq)
      BY <2>3
    <3>2. producer # "running"
      BY <1>1, <2>4, <3>1 DEF TranslatorInv
    <3>3. \A i \in 1..(Len(tq) - 1) : tq[i].kind = "delta"
      BY <1>1, <3>2 DEF TranslatorInv
    <3>4. PICK n \in Nat : n = Len(tq) /\ n > 0
      BY <2>3
    <3>5. n > 1 => 1 \in 1..(Len(tq) - 1)
      BY <3>4
    <3>6. n = 1
      BY <2>4, <3>3, <3>4, <3>5
    <3>7. QED
      BY <3>2, <3>4, <3>6
  <2>6. given = Upper(Len(segments)) + Len(held)
    BY <2>1, <2>2, <2>5 DEF DeltasInOrder
  <2>7. CASE held = <<>> /\ UNCHANGED segments
    <3>1. Len(held) = 0 /\ given = Upper(Len(segments))
      BY <2>2, <2>6, <2>7
    <3>2. Upper(Len(segments))' = Upper(Len(segments)) /\ SegmentsInOrder' /\ NoEndYet'
      BY <1>1, <2>1, <2>7 DEF Upper, SegmentsInOrder, NoEndYet, Follows
    <3>3. QED
      BY <1>1, <2>1, <3>1, <3>2 DEF TextInv, WorkedOn
  <2>8. CASE held # <<>> /\ segments' = Append(segments, held)
    <3>1. /\ SegmentsInOrder' /\ NoEndYet'
          /\ Upper(Len(segments))' = Upper(Len(segments)) + Len(held)
      BY <1>1, <2>1, <2>2, <2>8, SegmentGiven DEF DeltasInOrder
    <3>2. QED
      BY <1>1, <2>1, <2>6, <3>1 DEF TextInv, WorkedOn
  <2>9. QED
    BY <2>7, <2>8 DEF TakeTranslation, QueueText
<1>4. QED
  BY <1>2, <1>3

LEMMA EndTextText ==
  ASSUME TextTypes, TextInv, EndText
  PROVE  TextInv'
<1> USE DEF transVars, textVars
<1>1. /\ turn = "ending" /\ turn' = "texting" /\ segments' = Append(segments, EndOfText)
      /\ UNCHANGED <<given, text, spoken>>
  BY DEF EndText
<1>2. CASE text = "failed"
  BY <1>1, <1>2 DEF TextInv, WorkedOn
<1>3. CASE text # "failed"
  <2>1. text = "running" /\ SegmentsInOrder /\ NoEndYet /\ given = Upper(Len(segments))
    BY <1>1, <1>3 DEF TextInv, WorkedOn
  <2>2. /\ Len(segments) \in Nat /\ Len(segments') = Len(segments) + 1
        /\ segments'[Len(segments')] = EndOfText
        /\ \A i \in 1..Len(segments) : segments'[i] = segments[i]
        /\ \A i \in 0..Len(segments) : Upper(i)' = Upper(i)
    <3>1. EndOfText \in Seq(Nat)
      BY DEF EndOfText
    <3>2. QED
      BY <1>1, <3>1, UpperPut
  <2>3. segments' # <<>>
    BY <2>2
  <2>4. given' = Upper(Len(segments) - 1)'
    <3>1. PICK m \in 0..Len(segments) : m = Len(segments)
      BY <2>2
    <3>2. m = Len(segments') - 1 /\ Upper(m)' = given'
      BY <1>1, <2>1, <2>2, <3>1
    <3>3. QED
      BY <3>2 DEF Upper
  <2>5. SegmentsInOrder'
    <3> SUFFICES ASSUME NEW i \in 1..Len(segments'), segments'[i] # EndOfText
                 PROVE  Follows(segments'[i], Upper(i - 1)')
      BY <1>1, <2>1 DEF SegmentsInOrder, Follows
    <3>1. i \in 1..Len(segments) /\ i - 1 \in 0..Len(segments) /\ segments'[i] = segments[i]
      BY <2>2
    <3>2. Follows(segments[i], Upper(i - 1)) /\ Upper(i - 1)' = Upper(i - 1)
      BY <2>1, <2>2, <3>1 DEF SegmentsInOrder
    <3>3. QED
      BY <3>1, <3>2
  <2>6. \A i \in 1..(Len(segments') - 1) : segments'[i] # EndOfText
    BY <2>1, <2>2 DEF NoEndYet
  <2>7. QED
    BY <1>1, <2>1, <2>2, <2>3, <2>4, <2>5, <2>6 DEF TextInv, WorkedOn
<1>4. QED
  BY <1>2, <1>3

LEMMA SendTextText ==
  ASSUME TextTypes, TextInv, SendText
  PROVE  TextInv'
<1> USE DEF transVars, turnVars
<1>1. /\ text = "running" /\ segments # <<>> /\ segments' = Tail(segments)
      /\ UNCHANGED <<turn, producer, given, tq, held>>
      /\ text' \in {"running", "returned", "failed"}
  BY DEF SendText
<1>2. CASE turn \notin WorkedOn
  BY <1>1, <1>2 DEF TextInv, WorkedOn
<1>3. CASE text' = "failed"
  BY <1>1, <1>3 DEF TextInv, WorkedOn
<1>4. CASE turn \in WorkedOn /\ text' # "failed"
  <2>1. SegmentsInOrder /\ turn \in {"translating", "ending", "texting"}
    BY <1>1, <1>4 DEF TextInv, WorkedOn
  <2>2. /\ Len(segments) \in Nat /\ Len(segments) > 0 /\ Len(segments') = Len(segments) - 1
        /\ Head(segments) = segments[1]
        /\ \A i \in 1..Len(segments') : segments'[i] = segments[i + 1]
    BY <1>1, Taken DEF TextTypes
  <2>3. CASE Head(segments) = EndOfText
    <3>1. text' = "returned" /\ UNCHANGED spoken
      BY <2>3, <1>4 DEF SendText
    <3>2. turn = "texting"
      BY <1>1, <2>1, <2>2, <2>3 DEF TextInv, NoEndYet, WorkedOn
    <3>3. Len(segments) = 1
      BY <1>1, <2>2, <2>3, <3>2 DEF TextInv
    <3>4. given = Len(spoken)
      BY <1>1, <3>2, <3>3 DEF TextInv, Upper
    <3>5. SegmentsInOrder'
      BY <2>1, <2>2, <3>1, <3>3 DEF SegmentsInOrder, Follows
    <3>6. QED
      BY <1>1, <3>1, <3>2, <3>4, <3>5 DEF TextInv, WorkedOn
  <2>4. CASE Head(segments) # EndOfText
    <3>1. text' = "running" /\ spoken' = spoken \o Head(segments)
      BY <1>1, <1>4, <2>4 DEF SendText
    <3>2. SegmentsInOrder' /\ \A i \in 0..Len(segments') : Upper(i)' = Upper(i + 1)
      BY <1>1, <2>1, <2>4, <3>1, SegmentSpoken
    <3>3. Upper(Len(segments))' = Upper(Len(segments))
      <4>1. PICK m \in 0..Len(segments') : m = Len(segments')
        BY <2>2
      <4>2. Upper(m)' = Upper(m + 1) /\ m + 1 = Len(segments)
        BY <2>2, <3>2, <4>1
      <4>3. Upper(Len(segments))' = Upper(m)'
        BY <4>1 DEF Upper
      <4>4. QED
        BY <4>2, <4>3
    <3>4. CASE turn \in {"translating", "ending"}
      <4>1. NoEndYet
        BY <1>1, <3>4 DEF TextInv, WorkedOn
      <4>2. NoEndYet'
        <5> SUFFICES ASSUME NEW i \in 1..Len(segments')
                     PROVE  segments'[i] # EndOfText
          BY DEF NoEndYet
        <5>1. i + 1 \in 1..Len(segments) /\ segments'[i] = segments[i + 1]
          BY <2>2
        <5>2. QED
          BY <4>1, <5>1 DEF NoEndYet
      <4>3. turn = "translating" => DeltasInOrder'
        BY <1>1, <3>3 DEF TextInv, DeltasInOrder, Follows
      <4>4. turn = "ending" => given' = Upper(Len(segments))'
        BY <1>1, <3>3 DEF TextInv
      <4>5. QED
        BY <1>1, <3>1, <3>2, <3>4, <4>2, <4>3, <4>4 DEF TextInv, WorkedOn
    <3>5. CASE turn = "texting"
      <4>1. /\ segments[Len(segments)] = EndOfText
            /\ \A i \in 1..(Len(segments) - 1) : segments[i] # EndOfText
            /\ given = Upper(Len(segments) - 1)
        BY <1>1, <3>5 DEF TextInv
      <4>2. Len(segments) > 1
        BY <2>2, <2>4, <4>1
      <4>3. Len(segments') > 0 /\ Len(segments') \in 1..Len(segments')
        BY <2>2, <4>2
      <4>4. segments' # <<>>
        BY <4>3
      <4>5. segments'[Len(segments')] = EndOfText
        BY <2>2, <4>1, <4>3
      <4>6. given' = Upper(Len(segments) - 1)'
        <5>0. Len(segments') - 1 \in 0..Len(segments')
          BY <2>2, <4>3
        <5>1. PICK m \in 0..Len(segments') : m = Len(segments') - 1
          BY <5>0
        <5>2. Upper(m)' = Upper(m + 1) /\ m + 1 = Len(segments) - 1
          BY <2>2, <3>2, <5>1
        <5>3. Upper(Len(segments) - 1)' = Upper(m)'
          BY <5>1 DEF Upper
        <5>4. QED
          BY <1>1, <4>1, <5>2, <5>3
      <4>7. \A i \in 1..(Len(segments') - 1) : segments'[i] # EndOfText
        <5> TAKE i \in 1..(Len(segments') - 1)
        <5>1. i \in 1..Len(segments') /\ i + 1 \in 1..(Len(segments) - 1)
          BY <2>2
        <5>2. QED
          BY <2>2, <4>1, <5>1
      <4>8. QED
        BY <1>1, <3>1, <3>2, <3>5, <4>4, <4>5, <4>6, <4>7 DEF TextInv, WorkedOn
    <3>6. QED
      BY <2>1, <3>4, <3>5
  <2>5. QED
    BY <2>3, <2>4
<1>5. QED
  BY <1>2, <1>3, <1>4

LEMMA ProduceText ==
  ASSUME TextTypes, TranslatorInv, TextInv, Produce
  PROVE  TextInv'
<1> USE DEF transVars, textVars, turnVars
<1>1. producer = "running" /\ UNCHANGED <<turn, text, spoken, segments, held>>
  BY DEF Produce
<1>2. turn \notin {"ending", "texting", "completing", "listening", "get"}
  BY <1>1 DEF TranslatorInv
<1>3. CASE turn = "translating" /\ text # "failed"
  <2>1. text = "running" /\ SegmentsInOrder /\ NoEndYet /\ DeltasInOrder
    BY <1>3 DEF TextInv, WorkedOn
  <2>2. Upper(Len(segments)) \in Nat /\ Len(held) \in Nat /\ Len(tq) \in Nat /\ given \in Nat
    BY <2>1, UpperLast DEF TextTypes
  <2>3. Upper(Len(segments))' = Upper(Len(segments)) /\ SegmentsInOrder' /\ NoEndYet'
    BY <1>1, <2>1 DEF Upper, SegmentsInOrder, NoEndYet, Follows
  <2>4. PICK e \in DeltaItem :
          /\ tq' = Append(tq, e)
          /\ \/ producer' = "running" /\ given' = given + 1 /\ e.kind = "delta" /\ e.n = given'
             \/ producer' = "ended" /\ given' = given /\ e.kind # "delta"
    BY <1>1, <2>2 DEF Produce, Item, Mark, DeltaItem
  <2>5. /\ Len(tq') = Len(tq) + 1 /\ tq'[Len(tq) + 1] = e
        /\ \A i \in 1..Len(tq) : tq'[i] = tq[i]
    BY <2>4, WasPut DEF TextTypes
  <2>6. given = Upper(Len(segments)) + Len(held) + Len(tq)
    BY <1>1, <2>1 DEF DeltasInOrder
  <2>7. given' = Upper(Len(segments)) + Len(held)
                 + (IF producer' = "running" THEN Len(tq') ELSE Len(tq') - 1)
    BY <2>2, <2>4, <2>5, <2>6
  <2>8. ASSUME NEW i \in 1..Len(tq'), tq'[i].kind = "delta"
        PROVE  tq'[i].n = Upper(Len(segments)) + Len(held) + i
    <3>1. CASE i \in 1..Len(tq)
      BY <2>1, <2>5, <2>8, <3>1 DEF DeltasInOrder
    <3>2. CASE i = Len(tq) + 1
      BY <2>2, <2>4, <2>5, <2>6, <2>8, <3>2
    <3>3. QED
      BY <2>2, <2>5, <3>1, <3>2
  <2>9. DeltasInOrder'
    BY <1>1, <2>1, <2>3, <2>7, <2>8 DEF DeltasInOrder, Follows
  <2>10. QED
    BY <1>1, <1>3, <2>1, <2>3, <2>9 DEF TextInv, WorkedOn
<1>4. CASE ~(turn = "translating" /\ text # "failed")
  BY <1>1, <1>2, <1>4 DEF TextInv, WorkedOn
<1>5. QED
  BY <1>3, <1>4

LEMMA TextStep ==
  ASSUME TextTypes, TranslatorInv, TextInv, [Next]_vars
  PROVE  TextInv'
<1> USE DEF GroupRuns, Cancelling, clientVars, inputVars, runVars, audioVars, asrVars,
  turnVars, transVars, textVars, ttsVars
<1>1. CASE UNCHANGED textInvVars
  BY <1>1 DEF textInvVars, TextInv, SegmentsInOrder, DeltasInOrder, NoEndYet, Follows,
    Upper
<1>2. CASE TakeTurn
  <2>1. CASE Head(turns) = EndOfTurns
    BY <1>2, <2>1 DEF TakeTurn, TextInv, WorkedOn
  <2>2. CASE Head(turns) # EndOfTurns
    <3>1. /\ spoken' = <<>> /\ held' = <<>> /\ segments' = <<>> /\ tq' = <<>> /\ given' = 0
          /\ \/ turn' = "translating" /\ producer' = "running" /\ text' = "running"
             \/ turn' = "failed"
      BY <1>2, <2>2 DEF TakeTurn
    <3>2. Len(spoken') = 0 /\ Len(held') = 0 /\ Len(segments') = 0 /\ Len(tq') = 0
      BY <3>1
    <3>3. SegmentsInOrder' /\ NoEndYet'
      BY <3>2 DEF SegmentsInOrder, NoEndYet, Follows
    <3>4. turn' = "translating" => DeltasInOrder'
      BY <3>1, <3>2 DEF DeltasInOrder, Follows, Upper
    <3>5. QED
      BY <3>1, <3>3, <3>4 DEF TextInv, WorkedOn
  <2>3. QED
    BY <2>1, <2>2
<1>3. CASE TakeDelta
  BY TakeDeltaText, <1>3
<1>4. CASE PollText
  BY PollTextText, <1>4
<1>5. CASE TakeTranslation
  BY TakeTranslationText, <1>5
<1>6. CASE EndText
  BY EndTextText, <1>6
<1>7. CASE CompleteText
  <2>1. UNCHANGED <<text, spoken, segments, given>>
    BY <1>7 DEF CompleteText
  <2>2. SegmentsInOrder => SegmentsInOrder'
    BY <2>1 DEF SegmentsInOrder, Follows, Upper
  <2>3. QED
    BY <1>7, <2>1, <2>2 DEF CompleteText, TextInv, WorkedOn, SegmentsInOrder, Follows
<1>8. CASE SpeechCompleted
  <2>1. UNCHANGED <<text, spoken, segments, given>>
    BY <1>8 DEF SpeechCompleted
  <2>2. SegmentsInOrder => SegmentsInOrder'
    BY <2>1 DEF SegmentsInOrder, Follows, Upper
  <2>3. QED
    BY <1>8, <2>1, <2>2 DEF SpeechCompleted, TextInv, WorkedOn, SegmentsInOrder, Follows
<1>9. CASE CompleteTurn
  <2>1. UNCHANGED <<text, spoken, segments, given>>
    BY <1>9 DEF CompleteTurn
  <2>2. SegmentsInOrder => SegmentsInOrder'
    BY <2>1 DEF SegmentsInOrder, Follows, Upper
  <2>3. QED
    BY <1>9, <2>1, <2>2 DEF CompleteTurn, TextInv, WorkedOn, SegmentsInOrder, Follows
<1>10. CASE FailTurn
  BY <1>10 DEF FailTurn, Raises, ForgetTurn, TextInv, WorkedOn, Ended
<1>11. CASE SendText
  BY SendTextText, <1>11
<1>12. CASE Produce
  BY ProduceText, <1>12
<1>13. CASE CancelLoops
  BY <1>13 DEF CancelLoops, ForgetTurn, TextInv, WorkedOn, Ended
<1>14. CASE AbandonTranslation
  BY <1>14 DEF AbandonTranslation, TextInv, WorkedOn, Ended
<1>15. CASE Disconnect \/ ReceiveAudio \/ ReceiveLast \/ TakeChunk \/ SpeechStart \/
            SpeechStarted \/ SendASRAudio \/ SpeechEnd \/ SpeechFinished \/ TurnStable \/
            FailAudio \/ ForwardASREvent \/ RecognizerStarts \/ RecognizerStops \/
            RecognizerEvent \/ RecognizerError \/ ForwardAudio \/ Synthesize \/
            Synthesized \/ Run \/ Complete \/ Deadline \/ Report \/ ReleaseRecognizer \/
            ReleaseSynthesizer \/ ReleaseTask \/ UNCHANGED vars
  <2>1. UNCHANGED textInvVars
    BY <1>15 DEF Disconnect, ReceiveAudio, ReceiveLast, TakeChunk, SpeechStart,
      SpeechStarted, SendASRAudio, SpeechEnd, SpeechFinished, TurnStable, FailAudio,
      ForwardASREvent, RecognizerStarts, RecognizerStops, RecognizerEvent, RecognizerError,
      ForwardAudio, Synthesize, Synthesized, Run, Complete, Deadline, Report,
      ReleaseRecognizer, ReleaseSynthesizer, ReleaseTask, vars, textInvVars
  <2>2. QED
    BY <2>1, <1>1
<1>16. QED
  BY <1>2, <1>3, <1>4, <1>5, <1>6, <1>7, <1>8, <1>9, <1>10, <1>11, <1>12, <1>13, <1>14,
    <1>15 DEF Next, ClientNext, Progress, AudioNext, TurnNext, RunNext, EventNext

-------------------------------------------------------------------------------
(* The audio of a turn.                                                    *)

(* An event that the provider offers is put, is lost behind the error that *)
(* stands for it, or takes the place of the oldest as that error.          *)
LEMMA WhatIsOffered ==
  ASSUME AudioTypes, NEW e \in AudioItem, ttsq' = Offer(ttsq, ttsOver, e),
         ttsOver' = (ttsOver \/ Len(ttsq) = EventMax), ModularAssumption
  PROVE  \/ ttsq' = Append(ttsq, e) /\ (~ttsOver => ~ttsOver')
         \/ ttsOver /\ ttsq' = ttsq
         \/ ttsq # <<>> /\ ttsq' = Append(Tail(ttsq), Mark("error"))
<1>1. CASE Len(ttsq) < EventMax
  <2>1. ttsq' = Append(ttsq, e)
    BY <1>1 DEF Offer
  <2>2. Len(ttsq) # EventMax
    BY <1>1 DEF AudioTypes, ModularAssumption
  <2>3. QED
    BY <2>1, <2>2
<1>2. CASE ~(Len(ttsq) < EventMax) /\ ttsOver
  BY <1>2 DEF Offer
<1>3. CASE ~(Len(ttsq) < EventMax) /\ ~ttsOver
  <2>1. Len(ttsq) > 0
    BY <1>3 DEF AudioTypes, ModularAssumption
  <2>2. ttsq # <<>>
    BY <2>1
  <2>3. QED
    BY <1>3, <2>2 DEF Offer
<1>4. QED
  BY <1>1, <1>2, <1>3

(* The audio is lost, or still in order, when one more event was offered.  *)
LEMMA VoiceOffered ==
  ASSUME AudioTypes, ModularAssumption, AudioLost \/ AudioInOrder, CompletedIsLast,
         synth # "completed", UNCHANGED aired,
         NEW e \in AudioItem, ttsq' = Offer(ttsq, ttsOver, e),
         ttsOver' = (ttsOver \/ Len(ttsq) = EventMax),
         \/ e.kind = "error" /\ synth' # "completed"
         \/ e.kind = "audio" /\ e.n = made + 1 /\ made' = made + 1 /\ synth' # "completed"
         \/ e.kind = "completed" /\ made' = made /\ synth' = "completed"
  PROVE  (AudioLost \/ AudioInOrder)' /\ CompletedIsLast'
<1>1. /\ Len(ttsq) \in Nat
      /\ \A i \in 1..Len(ttsq) : ttsq[i].kind # "completed"
  BY DEF AudioTypes, CompletedIsLast
<1>2. CASE ttsq' = Append(ttsq, e) /\ (~ttsOver => ~ttsOver')
  <2>1. /\ Len(ttsq') = Len(ttsq) + 1 /\ ttsq'[Len(ttsq) + 1] = e
        /\ \A i \in 1..Len(ttsq) : i \in 1..Len(ttsq') /\ ttsq'[i] = ttsq[i]
    <3>1. /\ Len(ttsq') = Len(ttsq) + 1 /\ ttsq'[Len(ttsq) + 1] = e
          /\ \A i \in 1..Len(ttsq) : ttsq'[i] = ttsq[i]
      BY <1>2, WasPut DEF AudioTypes
    <3>2. QED
      BY <1>1, <3>1
  <2>2. Len(ttsq') \in 1..Len(ttsq') /\ ttsq'[Len(ttsq')] = e /\ ttsq' # <<>>
    BY <1>1, <2>1
  <2>3. \A i \in 1..Len(ttsq') : i \in 1..Len(ttsq) \/ i = Len(ttsq')
    BY <1>1, <2>1
  <2>4. CompletedIsLast'
    BY <1>1, <2>1, <2>2, <2>3 DEF CompletedIsLast
  <2>5. CASE AudioLost
    BY <2>1, <2>5, <2>4 DEF AudioLost
  <2>6. CASE e.kind = "error"
    BY <2>2, <2>6, <2>4 DEF AudioLost
  <2>7. CASE AudioInOrder /\ e.kind # "error"
    <3>1. /\ ~ttsOver' /\ Follows(aired, 0)' /\ made = Len(aired) + Len(ttsq)
          /\ made \in Nat /\ Len(aired) \in Nat
      BY <1>2, <2>7 DEF AudioInOrder, Follows, AudioTypes
    <3>2. made' = Len(aired') + (IF synth' = "completed" THEN Len(ttsq') - 1 ELSE Len(ttsq'))
      BY <1>1, <2>1, <2>7, <3>1
    <3>3. \A i \in 1..Len(ttsq') : ttsq'[i].kind = "audio" => ttsq'[i].n = Len(aired') + i
      <4> SUFFICES ASSUME NEW i \in 1..Len(ttsq'), ttsq'[i].kind = "audio"
                   PROVE  ttsq'[i].n = Len(aired) + i
        OBVIOUS
      <4>1. CASE i \in 1..Len(ttsq)
        BY <2>1, <2>7, <4>1 DEF AudioInOrder
      <4>2. CASE i = Len(ttsq')
        BY <1>1, <2>1, <2>2, <3>1, <4>2
      <4>3. QED
        BY <2>3, <4>1, <4>2
    <3>4. \A i \in 1..Len(ttsq') :
            ttsq'[i].kind = "audio" \/ (i = Len(ttsq') /\ synth' = "completed")
      <4> TAKE i \in 1..Len(ttsq')
      <4>1. CASE i \in 1..Len(ttsq)
        BY <2>1, <2>7, <4>1 DEF AudioInOrder
      <4>2. CASE i = Len(ttsq')
        BY <2>2, <2>7, <4>2
      <4>3. QED
        BY <2>3, <4>1, <4>2
    <3>5. synth' = "completed" => ttsq'[Len(ttsq')].kind = "completed"
      BY <2>2, <2>7
    <3>6. AudioInOrder'
      BY <3>1, <3>2, <3>3, <3>4, <3>5, <2>2 DEF AudioInOrder
    <3>7. QED
      BY <3>6, <2>4
  <2>8. QED
    BY <2>5, <2>6, <2>7
<1>3. CASE ttsOver /\ ttsq' = ttsq
  BY <1>1, <1>3 DEF AudioInOrder, AudioLost, CompletedIsLast
<1>4. CASE ttsq # <<>> /\ ttsq' = Append(Tail(ttsq), Mark("error"))
  <2>1. Tail(ttsq) \in Seq(AudioItem) /\ Mark("error") \in AudioItem
    BY <1>4, Taken DEF AudioTypes, Mark, Item, AudioItem
  <2>2. /\ Len(Tail(ttsq)) = Len(ttsq) - 1
        /\ \A i \in 1..Len(Tail(ttsq)) : Tail(ttsq)[i] = ttsq[i + 1]
    BY <1>4, Taken DEF AudioTypes
  <2>3. /\ Len(ttsq') = Len(ttsq) /\ ttsq'[Len(ttsq)] = Mark("error")
        /\ \A i \in 1..(Len(ttsq) - 1) : ttsq'[i] = ttsq[i + 1]
    <3>1. /\ Len(ttsq') = Len(Tail(ttsq)) + 1 /\ ttsq'[Len(Tail(ttsq)) + 1] = Mark("error")
          /\ \A i \in 1..Len(Tail(ttsq)) : ttsq'[i] = Tail(ttsq)[i]
      BY <1>4, <2>1, WasPut
    <3>2. QED
      BY <1>1, <2>2, <3>1
  <2>4. Len(ttsq) \in 1..Len(ttsq')
    <3>1. Len(ttsq) # 0
      BY <1>4 DEF AudioTypes
    <3>2. QED
      BY <1>1, <2>3, <3>1
  <2>5. AudioLost'
    BY <2>3, <2>4 DEF AudioLost, Mark, Item
  <2>6. CompletedIsLast'
    <3> SUFFICES ASSUME NEW i \in 1..Len(ttsq')
                 PROVE  ttsq'[i].kind # "completed"
      BY DEF CompletedIsLast
    <3>1. CASE i = Len(ttsq)
      BY <2>3, <3>1 DEF Mark, Item
    <3>2. CASE i # Len(ttsq)
      <4>1. i \in 1..(Len(ttsq) - 1) /\ i + 1 \in 1..Len(ttsq)
        BY <1>1, <2>3, <3>2
      <4>2. QED
        BY <1>1, <2>3, <4>1
    <3>3. QED
      BY <3>1, <3>2
  <2>7. QED
    BY <2>5, <2>6
<1>5. QED
  BY <1>2, <1>3, <1>4, WhatIsOffered

(* The audio task takes an event: what it sends is the next chunk.         *)
LEMMA ForwardAudioVoice ==
  ASSUME AudioTypes, SynthInv, VoiceInv, ForwardAudio
  PROVE  VoiceInv'
<1>1. /\ voice = "running" /\ ttsq # <<>> /\ ttsq' = Tail(ttsq)
      /\ UNCHANGED <<turn, synth, ttsOver, made>>
      /\ voice' \in {"running", "returned", "failed"}
  BY DEF ForwardAudio, turnVars
<1>2. CASE turn \notin WorkedOn \/ voice' = "failed"
  BY <1>1, <1>2 DEF VoiceInv, WorkedOn
<1>3. CASE turn \in WorkedOn /\ voice' # "failed"
  <2>1. (AudioLost \/ AudioInOrder) /\ CompletedIsLast
    BY <1>1, <1>3 DEF VoiceInv
  <2>2. /\ Len(ttsq) \in Nat /\ Len(ttsq) > 0 /\ Len(ttsq') = Len(ttsq) - 1
        /\ Head(ttsq) = ttsq[1] /\ ttsq[1] \in AudioItem
        /\ \A i \in 1..Len(ttsq') : i + 1 \in 1..Len(ttsq) /\ ttsq'[i] = ttsq[i + 1]
    <3>1. /\ Len(ttsq) \in Nat /\ Len(ttsq) > 0 /\ Len(ttsq') = Len(ttsq) - 1
          /\ Head(ttsq) = ttsq[1] /\ ttsq[1] \in AudioItem
          /\ \A i \in 1..Len(ttsq') : ttsq'[i] = ttsq[i + 1]
      BY <1>1, Taken DEF AudioTypes
    <3>2. QED
      BY <3>1
  <2>3. 1 \in 1..Len(ttsq)
    BY <2>2
  <2>4. CASE Head(ttsq).kind = "audio"
    <3>1. aired' = Append(aired, ttsq[1].n) /\ voice' = "running"
      BY <1>1, <1>3, <2>2, <2>4 DEF ForwardAudio
    <3>2. CompletedIsLast'
      <4> SUFFICES ASSUME NEW i \in 1..Len(ttsq'), ttsq'[i].kind = "completed"
                   PROVE  i = Len(ttsq') /\ synth' = "completed"
        BY DEF CompletedIsLast
      <4>1. i + 1 \in 1..Len(ttsq) /\ ttsq'[i] = ttsq[i + 1]
        BY <2>2
      <4>2. i + 1 = Len(ttsq) /\ synth = "completed"
        BY <2>1, <4>1 DEF CompletedIsLast
      <4>3. i + 1 = Len(ttsq) => i = Len(ttsq')
        BY <2>2
      <4>4. QED
        BY <1>1, <4>2, <4>3
    <3>3. CASE AudioLost
      <4>1. PICK i \in 1..Len(ttsq) : ttsq[i].kind = "error"
        BY <3>3 DEF AudioLost
      <4>2. i # 1
        BY <2>2, <2>4, <4>1
      <4>3. i - 1 \in 1..Len(ttsq') /\ (i - 1) + 1 = i
        BY <2>2, <4>1, <4>2
      <4>4. ttsq'[i - 1] = ttsq[i]
        BY <2>2, <4>3
      <4>5. AudioLost'
        BY <4>1, <4>3, <4>4 DEF AudioLost
      <4>6. QED
        BY <1>1, <1>3, <3>1, <3>2, <4>5 DEF VoiceInv, WorkedOn
    <3>4. CASE AudioInOrder
      <4>1. ttsq[1].n = Len(aired) + 1 /\ Len(aired) \in Nat /\ made \in Nat /\ ttsq[1].n \in Nat
        BY <2>2, <2>3, <2>4, <3>4 DEF AudioInOrder, AudioTypes, AudioItem
      <4>2. /\ Len(aired') = Len(aired) + 1 /\ aired'[Len(aired) + 1] = ttsq[1].n
            /\ \A i \in 1..Len(aired) : aired'[i] = aired[i]
        BY <3>1, <4>1, WasPut DEF AudioTypes
      <4>3. Follows(aired', 0)
        <5> SUFFICES ASSUME NEW i \in 1..Len(aired')
                     PROVE  aired'[i] = i
          BY DEF Follows
        <5>1. CASE i \in 1..Len(aired)
          BY <3>4, <4>2, <5>1 DEF AudioInOrder, Follows
        <5>2. CASE i = Len(aired) + 1
          BY <4>1, <4>2, <5>2
        <5>3. QED
          BY <4>1, <4>2, <5>1, <5>2
      <4>4. \A i \in 1..Len(ttsq') : ttsq'[i].kind = "audio" => ttsq'[i].n = Len(aired') + i
        <5> SUFFICES ASSUME NEW i \in 1..Len(ttsq'), ttsq'[i].kind = "audio"
                     PROVE  ttsq'[i].n = Len(aired') + i
          OBVIOUS
        <5>1. i + 1 \in 1..Len(ttsq) /\ ttsq'[i] = ttsq[i + 1]
          BY <2>2
        <5>2. ttsq[i + 1].n = Len(aired) + (i + 1)
          BY <3>4, <5>1 DEF AudioInOrder
        <5>3. QED
          BY <4>1, <4>2, <5>1, <5>2
      <4>5. \A i \in 1..Len(ttsq') :
              ttsq'[i].kind = "audio" \/ (i = Len(ttsq') /\ synth' = "completed")
        <5> TAKE i \in 1..Len(ttsq')
        <5>1. i + 1 \in 1..Len(ttsq) /\ ttsq'[i] = ttsq[i + 1]
          BY <2>2
        <5>2. ttsq[i + 1].kind = "audio" \/ (i + 1 = Len(ttsq) /\ synth = "completed")
          BY <3>4, <5>1 DEF AudioInOrder
        <5>3. i + 1 = Len(ttsq) => i = Len(ttsq')
          BY <2>2
        <5>4. QED
          BY <1>1, <5>1, <5>2, <5>3
      <4>6. synth' = "completed" => ttsq' # <<>> /\ ttsq'[Len(ttsq')].kind = "completed"
        <5> SUFFICES ASSUME synth = "completed"
                     PROVE  ttsq' # <<>> /\ ttsq'[Len(ttsq')].kind = "completed"
          BY <1>1
        <5>1. ttsq[Len(ttsq)].kind = "completed"
          BY <3>4 DEF AudioInOrder
        <5>2. Len(ttsq) # 1
          BY <2>2, <2>4, <5>1
        <5>3. Len(ttsq') \in 1..Len(ttsq') /\ Len(ttsq') + 1 = Len(ttsq)
          BY <2>2, <5>2
        <5>4. ttsq'[Len(ttsq')] = ttsq[Len(ttsq)]
          BY <2>2, <5>3
        <5>5. ttsq' # <<>>
          BY <5>3
        <5>6. QED
          BY <5>1, <5>4, <5>5
      <4>7. made' = Len(aired') + (IF synth' = "completed" THEN Len(ttsq') - 1 ELSE Len(ttsq'))
        <5>1. CASE synth = "completed"
          <6>1. made = Len(aired) + (Len(ttsq) - 1)
            BY <3>4, <5>1 DEF AudioInOrder
          <6>2. QED
            BY <1>1, <2>2, <4>1, <4>2, <5>1, <6>1
        <5>2. CASE synth # "completed"
          <6>1. made = Len(aired) + Len(ttsq)
            BY <3>4, <5>2 DEF AudioInOrder
          <6>2. QED
            BY <1>1, <2>2, <4>1, <4>2, <5>2, <6>1
        <5>3. QED
          BY <5>1, <5>2
      <4>8. AudioInOrder'
        BY <1>1, <3>4, <4>3, <4>4, <4>5, <4>6, <4>7 DEF AudioInOrder, Follows
      <4>9. QED
        BY <1>1, <1>3, <3>1, <3>2, <4>8 DEF VoiceInv, WorkedOn
    <3>5. QED
      BY <2>1, <3>3, <3>4
  <2>5. CASE Head(ttsq).kind # "audio"
    <3>1. Head(ttsq).kind = "completed" /\ voice' = "returned" /\ aired' = aired
      BY <1>1, <1>3, <2>5 DEF ForwardAudio
    <3>2. Len(ttsq) = 1 /\ synth = "completed"
      BY <2>1, <2>2, <2>3, <3>1 DEF CompletedIsLast
    <3>3. ~AudioLost
      BY <2>2, <3>1, <3>2 DEF AudioLost
    <3>4. made = Len(aired) /\ Follows(aired, 0)
      BY <2>1, <3>2, <3>3 DEF AudioInOrder, AudioTypes
    <3>5. QED
      BY <1>1, <1>3, <3>1, <3>2, <3>4 DEF VoiceInv, WorkedOn
  <2>6. QED
    BY <2>4, <2>5
<1>4. QED
  BY <1>2, <1>3

LEMMA SynthesizeVoice ==
  ASSUME AudioTypes, ModularAssumption, SynthInv, VoiceInv, Synthesize
  PROVE  VoiceInv'
<1>1. /\ voice = "running" /\ synth \in {"open", "completing"} /\ made' = made + 1
      /\ ttsOver' = (ttsOver \/ Len(ttsq) = EventMax)
      /\ UNCHANGED <<turn, synth, voice, aired>>
  BY DEF Synthesize, turnVars
<1>2. PICK e \in {Item("audio", made'), Mark("error")} : ttsq' = Offer(ttsq, ttsOver, e)
  BY DEF Synthesize
<1>3. /\ e \in AudioItem
      /\ e.kind = "error" \/ (e.kind = "audio" /\ e.n = made + 1)
  BY <1>1 DEF Item, Mark, AudioItem, AudioTypes
<1>4. CASE turn \in WorkedOn
  <2>1. (AudioLost \/ AudioInOrder) /\ CompletedIsLast
    BY <1>1, <1>4 DEF VoiceInv
  <2>2. (AudioLost \/ AudioInOrder)' /\ CompletedIsLast'
    BY <1>1, <1>2, <1>3, <2>1, VoiceOffered
  <2>3. QED
    BY <1>1, <1>4, <2>2 DEF VoiceInv, WorkedOn
<1>5. CASE turn \notin WorkedOn
  BY <1>1, <1>5 DEF VoiceInv, WorkedOn
<1>6. QED
  BY <1>4, <1>5

LEMMA SynthesizedVoice ==
  ASSUME AudioTypes, ModularAssumption, SynthInv, VoiceInv, Synthesized
  PROVE  VoiceInv'
<1>1. synth = "completing" /\ UNCHANGED <<turn, voice, aired, made>>
  BY DEF Synthesized, turnVars
<1>2. CASE turn \in WorkedOn /\ voice = "running"
  <2>1. (AudioLost \/ AudioInOrder) /\ CompletedIsLast
    BY <1>2 DEF VoiceInv
  <2>2. CASE synth' = "failed" /\ UNCHANGED <<ttsq, ttsOver>>
    <3>1. (AudioLost \/ AudioInOrder)' /\ CompletedIsLast'
      BY <1>1, <2>1, <2>2 DEF AudioLost, AudioInOrder, CompletedIsLast, Follows
    <3>2. QED
      BY <1>1, <1>2, <3>1 DEF VoiceInv, WorkedOn
  <2>3. CASE /\ synth' = "completed" /\ ttsq' = Offer(ttsq, ttsOver, Mark("completed"))
             /\ ttsOver' = (ttsOver \/ Len(ttsq) = EventMax)
    <3>1. Mark("completed") \in AudioItem /\ Mark("completed").kind = "completed"
      BY DEF Item, Mark, AudioItem
    <3>2. (AudioLost \/ AudioInOrder)' /\ CompletedIsLast'
      BY <1>1, <2>1, <2>3, <3>1, VoiceOffered
    <3>3. QED
      BY <1>1, <1>2, <3>2 DEF VoiceInv, WorkedOn
  <2>4. QED
    BY <2>2, <2>3 DEF Synthesized
<1>3. CASE ~(turn \in WorkedOn /\ voice = "running")
  <2>1. turn # "get"
    BY <1>1 DEF SynthInv
  <2>2. QED
    BY <1>1, <1>3, <2>1 DEF VoiceInv, WorkedOn
<1>4. QED
  BY <1>2, <1>3

LEMMA SynthMoves ==
  ASSUME synth # "completed", synth' # "completed", UNCHANGED <<ttsq, ttsOver, made,
         aired>>
  PROVE  /\ AudioLost => AudioLost'
         /\ AudioInOrder => AudioInOrder'
         /\ CompletedIsLast => CompletedIsLast'
BY DEF AudioLost, AudioInOrder, CompletedIsLast, Follows

LEMMA VoiceStep ==
  ASSUME AudioTypes, ModularAssumption, RunInv, SynthInv, VoiceInv, [Next]_vars
  PROVE  VoiceInv'
<1> USE DEF GroupRuns, Cancelling, clientVars, inputVars, runVars, audioVars, asrVars,
  turnVars, transVars, textVars, ttsVars
<1>1. CASE UNCHANGED voiceVars
  BY <1>1 DEF voiceVars, VoiceInv, AudioLost, AudioInOrder, CompletedIsLast, Follows
<1>2. CASE TakeTurn
  <2>1. CASE Head(turns) = EndOfTurns
    BY <1>2, <2>1 DEF TakeTurn, VoiceInv, WorkedOn
  <2>2. CASE Head(turns) # EndOfTurns
    <3>1. /\ ttsq' = <<>> /\ aired' = <<>> /\ made' = 0 /\ ~ttsOver' /\ synth' = "idle"
          /\ turn' = "failed" \/ (turn' = "translating" /\ voice' = "running")
      BY <1>2, <2>2 DEF TakeTurn
    <3>2. Len(ttsq') = 0 /\ Len(aired') = 0
      BY <3>1
    <3>3. AudioInOrder' /\ CompletedIsLast'
      BY <3>1, <3>2 DEF AudioInOrder, CompletedIsLast, Follows
    <3>4. QED
      BY <3>1, <3>3 DEF VoiceInv, WorkedOn
  <2>3. QED
    BY <2>1, <2>2
<1>3. CASE TakeTranslation
  <2>1. UNCHANGED <<synth, voice, ttsq, ttsOver, made, aired>>
    BY <1>3 DEF TakeTranslation
  <2>2. /\ AudioLost => AudioLost'
        /\ AudioInOrder => AudioInOrder'
        /\ CompletedIsLast => CompletedIsLast'
    BY <2>1 DEF AudioLost, AudioInOrder, CompletedIsLast, Follows
  <2>3. QED
    BY <1>3, <2>1, <2>2 DEF TakeTranslation, VoiceInv, WorkedOn, Follows
<1>4. CASE EndText
  <2>1. UNCHANGED <<synth, voice, ttsq, ttsOver, made, aired>>
    BY <1>4 DEF EndText
  <2>2. /\ AudioLost => AudioLost'
        /\ AudioInOrder => AudioInOrder'
        /\ CompletedIsLast => CompletedIsLast'
    BY <2>1 DEF AudioLost, AudioInOrder, CompletedIsLast, Follows
  <2>3. QED
    BY <1>4, <2>1, <2>2 DEF EndText, VoiceInv, WorkedOn, Follows
<1>5. CASE CompleteText
  <2>1. /\ turn = "texting" /\ turn' = "completing" /\ synth' = "completing"
        /\ UNCHANGED <<voice, ttsq, ttsOver, made, aired>>
    BY <1>5 DEF CompleteText
  <2>2. synth \in {"idle", "open"}
    BY <2>1 DEF SynthInv
  <2>3. QED
    BY <2>1, <2>2, SynthMoves DEF VoiceInv, WorkedOn
<1>6. CASE SpeechCompleted
  <2>1. UNCHANGED <<synth, voice, ttsq, ttsOver, made, aired>>
    BY <1>6 DEF SpeechCompleted
  <2>2. /\ AudioLost => AudioLost'
        /\ AudioInOrder => AudioInOrder'
        /\ CompletedIsLast => CompletedIsLast'
    BY <2>1 DEF AudioLost, AudioInOrder, CompletedIsLast, Follows
  <2>3. QED
    BY <1>6, <2>1, <2>2 DEF SpeechCompleted, VoiceInv, WorkedOn, Follows
<1>7. CASE CompleteTurn
  <2>1. UNCHANGED <<synth, voice, ttsq, ttsOver, made, aired>>
    BY <1>7 DEF CompleteTurn
  <2>2. /\ AudioLost => AudioLost'
        /\ AudioInOrder => AudioInOrder'
        /\ CompletedIsLast => CompletedIsLast'
    BY <2>1 DEF AudioLost, AudioInOrder, CompletedIsLast, Follows
  <2>3. QED
    BY <1>7, <2>1, <2>2 DEF CompleteTurn, VoiceInv, WorkedOn, Follows
<1>8. CASE FailTurn
  BY <1>8 DEF FailTurn, Raises, ForgetTurn, VoiceInv, WorkedOn, Ended
<1>9. CASE SendText
  <2>1. /\ UNCHANGED <<turn, voice, ttsq, ttsOver, made, aired>>
        /\ UNCHANGED synth \/ (synth \in {"idle", "open"} /\ synth' = "open")
    BY <1>9 DEF SendText
  <2>2. CASE UNCHANGED synth
    BY <1>1, <2>1, <2>2 DEF voiceVars
  <2>3. CASE synth \in {"idle", "open"} /\ synth' = "open"
    BY <2>1, <2>3, SynthMoves DEF VoiceInv, WorkedOn
  <2>4. QED
    BY <2>1, <2>2, <2>3
<1>10. CASE ForwardAudio
  BY ForwardAudioVoice, <1>10
<1>11. CASE Synthesize
  BY SynthesizeVoice, <1>11
<1>12. CASE Synthesized
  BY SynthesizedVoice, <1>12
<1>13. CASE CancelLoops
  BY <1>13 DEF CancelLoops, ForgetTurn, VoiceInv, WorkedOn, Ended
<1>14. CASE AbandonTranslation
  BY <1>14 DEF AbandonTranslation, VoiceInv, WorkedOn, Ended
<1>15. CASE ReleaseSynthesizer
  BY <1>15 DEF ReleaseSynthesizer, RunInv, Releases, InGroup, VoiceInv, WorkedOn, Ended
<1>16. CASE Disconnect \/ ReceiveAudio \/ ReceiveLast \/ TakeChunk \/ SpeechStart \/
            SpeechStarted \/ SendASRAudio \/ SpeechEnd \/ SpeechFinished \/ TurnStable \/
            FailAudio \/ ForwardASREvent \/ RecognizerStarts \/ RecognizerStops \/
            RecognizerEvent \/ RecognizerError \/ TakeDelta \/ PollText \/ Produce \/ Run \/
            Complete \/ Deadline \/ Report \/ ReleaseRecognizer \/ ReleaseTask \/ UNCHANGED vars
  <2>1. UNCHANGED voiceVars
    BY <1>16 DEF Disconnect, ReceiveAudio, ReceiveLast, TakeChunk, SpeechStart,
      SpeechStarted, SendASRAudio, SpeechEnd, SpeechFinished, TurnStable, FailAudio,
      ForwardASREvent, RecognizerStarts, RecognizerStops, RecognizerEvent, RecognizerError,
      TakeDelta, PollText, Produce, Run, Complete, Deadline, Report, ReleaseRecognizer,
      ReleaseTask, vars, voiceVars
  <2>2. QED
    BY <2>1, <1>1
<1>17. QED
  BY <1>2, <1>3, <1>4, <1>5, <1>6, <1>7, <1>8, <1>9, <1>10, <1>11, <1>12, <1>13, <1>14,
    <1>15, <1>16 DEF Next, ClientNext, Progress, AudioNext, TurnNext, RunNext, EventNext

-------------------------------------------------------------------------------
SessionInv ==
  /\ RunInv /\ AudioInv /\ RecognizerInv /\ SynthInv /\ TurnsTypes /\ TurnsInv
  /\ TextTypes /\ AudioTypes /\ TranslatorInv /\ TextInv /\ VoiceInv

LEMMA SessionInvInit ==
  ASSUME Init
  PROVE  SessionInv
<1> USE DEF Init
<1>1. <<>> \in Seq(0..MaxTurns) /\ <<>> \in Seq(Nat) /\ <<>> \in Seq(Seq(Nat))
      /\ <<>> \in Seq(DeltaItem) /\ <<>> \in Seq(AudioItem) /\ Len(<<>>) = 0
  OBVIOUS
<1>2. TextTypes /\ AudioTypes
  BY <1>1 DEF TextTypes, AudioTypes
<1>3. MaxTurns \in Nat
  BY ModularAssumption DEF ModularAssumption
<1>4. TurnsTypes
  BY <1>1, <1>3 DEF TurnsTypes
<1>5. TurnsInv
  BY <1>1, <1>3 DEF TurnsInv, TurnKnown, WorkedOn, BeforeTheEnd
<1>6. RunInv /\ AudioInv /\ RecognizerInv /\ SynthInv /\ TranslatorInv
  BY DEF RunInv, AudioInv, RecognizerInv, SynthInv, TranslatorInv, InGroup, Releases,
    Loops,
         WorkedOn, Ended
<1>7. TextInv /\ VoiceInv
  BY <1>1 DEF TextInv, VoiceInv, Follows, WorkedOn
<1>8. QED
  BY <1>2, <1>4, <1>5, <1>6, <1>7 DEF SessionInv

(* The loops of a session, the threads of its providers and what lies in   *)
(* the queues between them fit together at every step, for queues of any   *)
(* size and any number of turns, deltas and chunks.                        *)
THEOREM SessionInvariant == Spec => []SessionInv
<1>1. SessionInv /\ [Next]_vars => SessionInv'
  BY RunStep, AudioStep, RecognizerStep, SynthStep, TurnsTypesStep, TurnsStep,
     TextTypesStep,
     AudioTypesStep, TranslatorStep, TextStep, VoiceStep, ModularAssumption DEF SessionInv
<1>2. QED
  BY <1>1, SessionInvInit, PTL DEF Spec

LEMMA UptoIs ==
  ASSUME NEW s \in Seq(Nat), Follows(s, 0)
  PROVE  s = Upto(Len(s))
<1>1. \A i \in 1..Len(s) : s[i] = i
  BY DEF Follows
<1>2. s = [i \in 1..Len(s) |-> s[i]]
  OBVIOUS
<1>3. QED
  BY <1>1, <1>2 DEF Upto

(* A client told of the completion has lost no turn; the deltas of a       *)
(* completed turn were all spoken and its audio all sent, in order: an     *)
(* event that a full queue loses leaves an error that fails the turn.      *)
THEOREM NothingLostTheorem == Spec => []CompletedLosesNothing
<1>1. SessionInv => CompletedLosesNothing
  <2> SUFFICES ASSUME SessionInv
               PROVE  CompletedLosesNothing
    OBVIOUS
  <2>1. told = "completed" => \A t \in 1..begun : outcome[t] \in {"empty", "completed"}
    BY DEF SessionInv, TurnsInv, OverOrEmpty
  <2>2. ASSUME turn = "get"
        PROVE  spoken = Upto(given) /\ aired = Upto(made)
    <3>1. given = Len(spoken) /\ Follows(spoken, 0) /\ made = Len(aired) /\ Follows(aired, 0)
      BY <2>2 DEF SessionInv, TextInv, VoiceInv
    <3>2. QED
      BY <3>1, UptoIs DEF SessionInv, TextTypes, AudioTypes
  <2>3. QED
    BY <2>1, <2>2 DEF CompletedLosesNothing
<1>2. QED
  BY <1>1, SessionInvariant, PTL

(* A closed session leaves no recognizer at work and no synthesizer open   *)
(* but that of a turn that failed or was cancelled.                        *)
THEOREM ReleasedTheorem == Spec => []ProvidersReleased
<1>1. SessionInv => ProvidersReleased
  BY DEF SessionInv, RunInv, RecognizerInv, SynthInv, ProvidersReleased, Releases,
    InGroup, Ended
<1>2. QED
  BY <1>1, SessionInvariant, PTL

(* A client that stays is told completed exactly when no task has failed,  *)
(* and an error otherwise.                                                 *)
THEOREM EndTheorem == Spec => []EndIsTold
<1>1. SessionInv => EndIsTold
  BY DEF SessionInv, RunInv, EndIsTold, Releases, InGroup
<1>2. QED
  BY <1>1, SessionInvariant, PTL

===============================================================================
