----------------------- MODULE LiveTranslateTurnsProofs -----------------------
(***************************************************************************)
(* Theorems about the turns of a LiveTranslate session, for any number of  *)
(* utterances, with or without audio, as long as every utterance gets its  *)
(* source text: the run turns_silent shows what happens when one does not. *)
(***************************************************************************)
EXTENDS LiveTranslateTurns, FiniteSetTheorems, TLAPS

(* Source transcription is available throughout.                           *)
EveryUtteranceHasText == Silent = {}

-------------------------------------------------------------------------------
(* The pairing.                                                            *)

PairTypes ==
  /\ created \in Nat
  /\ fromSource \in [Turn -> BOOLEAN]
  /\ itemOf \in [Turn -> Utterance \cup {None}]
  /\ responseOf \in [Turn -> Response \cup {None}]
  /\ sourceTurn \in [Utterance -> Turn \cup {None}]
  /\ responseTurn \in [Response -> Turn \cup {None}]

(* Utterance u is in turn u as soon as it is heard, and the maps agree.    *)
ItemsInOrder ==
  /\ \A u \in Utterance : sourceTurn[u] \in {u, None}
  /\ \A t \in Turn : itemOf[t] = IF t \in Utterance THEN sourceTurn[t] ELSE None
  /\ \A u \in Utterance : sourceTurn[u] # None => \A v \in 1..(u - 1) : sourceTurn[v] # None

ResponsesInOrder ==
  /\ \A r \in Response : responseTurn[r] \in {r, None}
  /\ \A t \in Turn : responseOf[t] = IF t \in Response THEN responseTurn[t] ELSE None
  /\ \A r \in Response : responseTurn[r] # None => \A q \in 1..(r - 1) : responseTurn[q] # None

(* The turns that exist are those that have a side, and the list a turn is *)
(* on says which side it had first.                                        *)
TurnsHaveASide ==
  \A t \in Turn :
    /\ t <= created <=> itemOf[t] # None \/ responseOf[t] # None
    /\ fromSource[t] => itemOf[t] # None
    /\ t <= created /\ ~fromSource[t] => responseOf[t] # None

PairInv ==
  /\ PairTypes
  /\ ItemsInOrder
  /\ ResponsesInOrder
  /\ TurnsHaveASide
  /\ created <= N

LEMMA LeastIs ==
  ASSUME NEW S \in SUBSET Int, NEW m \in S, \A x \in S : m <= x
  PROVE  Least(S) = m
<1>1. \E t \in S : \A u \in S : t <= u
  OBVIOUS
<1>2. Least(S) \in S /\ \A u \in S : Least(S) <= u
  BY <1>1 DEF Least
<1>3. m \in Int /\ Least(S) \in Int /\ m <= Least(S) /\ Least(S) <= m
  BY <1>2
<1>4. QED
  BY <1>3

(* The next utterance to be heard is given the turn of its own number.     *)
LEMMA ItemTurnIsOwn ==
  ASSUME EveryUtteranceHasText, PairInv, NEW u \in Utterance, MaySpeak(u)
  PROVE  ItemTurn(u) = u
<1> USE TurnsAssumption
<1>1. u \in Turn /\ u \in Int /\ N \in Nat
  BY DEF Utterance, Turn
<1>2. \A v \in 1..(u - 1) : sourceTurn[v] # None /\ v \in Turn /\ itemOf[v] # None
  BY <1>1 DEF MaySpeak, EveryUtteranceHasText, PairInv, ItemsInOrder, Utterance, Turn
<1>3. CASE sourceTurn[u] # None
  BY <1>3 DEF ItemTurn, PairInv, ItemsInOrder
<1>4. CASE sourceTurn[u] = None
  <2>1. itemOf[u] = None
    BY <1>1, <1>4 DEF PairInv, ItemsInOrder
  <2>2. CASE u <= created
    <3>1. ~fromSource[u]
      BY <1>1, <2>1, <2>2 DEF PairInv, TurnsHaveASide
    <3>2. u \in AwaitItem
      BY <1>1, <2>1, <2>2, <3>1 DEF AwaitItem, PairInv, PairTypes, Utterance
    <3>3. \A t \in AwaitItem : t \in Int /\ u <= t
      BY <1>1, <1>2 DEF AwaitItem, PairInv, PairTypes
    <3>4. Least(AwaitItem) = u
      <4>1. AwaitItem \in SUBSET Int
        BY <3>3
      <4>2. QED
        BY <3>2, <3>3, <4>1, LeastIs
    <3>5. QED
      BY <1>4, <3>2, <3>4 DEF ItemTurn
  <2>3. CASE ~(u <= created)
    <3>1. created = u - 1
      <4>1. CASE u = 1
        BY <2>3, <4>1 DEF PairInv, PairTypes
      <4>2. CASE u # 1
        <5>1. u - 1 \in 1..(u - 1)
          BY <4>2, <1>1 DEF Utterance
        <5>2. u - 1 <= created
          BY <5>1, <1>2 DEF PairInv, TurnsHaveASide
        <5>3. QED
          BY <1>1, <2>3, <5>2 DEF PairInv, PairTypes
      <4>3. QED
        BY <4>1, <4>2
    <3>2. AwaitItem = {}
      BY <1>2, <3>1 DEF AwaitItem
    <3>3. QED
      BY <1>1, <1>4, <3>1, <3>2 DEF ItemTurn
  <2>4. QED
    BY <2>2, <2>3
<1>5. QED
  BY <1>3, <1>4

(* So is the next response to be announced.                                *)
LEMMA ReplyTurnIsOwn ==
  ASSUME PairInv, NEW r \in Response, MayAnswer(r)
  PROVE  ReplyTurn(r) = r
<1> USE TurnsAssumption
<1>1. r \in Turn /\ r \in Int /\ N \in Nat
  BY DEF Response, Turn
<1>2. \A q \in 1..(r - 1) : responseTurn[q] # None /\ q \in Turn /\ responseOf[q] # None
  BY <1>1 DEF MayAnswer, PairInv, ResponsesInOrder, Response, Turn
<1>3. CASE responseTurn[r] # None
  BY <1>3 DEF ReplyTurn, PairInv, ResponsesInOrder
<1>4. CASE responseTurn[r] = None
  <2>1. responseOf[r] = None
    BY <1>1, <1>4 DEF PairInv, ResponsesInOrder
  <2>2. CASE r <= created
    <3>1. fromSource[r]
      BY <1>1, <2>1, <2>2 DEF PairInv, TurnsHaveASide
    <3>2. r \in AwaitResponse
      BY <1>1, <2>1, <2>2, <3>1 DEF AwaitResponse, PairInv, PairTypes, Response
    <3>3. \A t \in AwaitResponse : t \in Int /\ r <= t
      BY <1>1, <1>2 DEF AwaitResponse, PairInv, PairTypes
    <3>4. Least(AwaitResponse) = r
      <4>1. AwaitResponse \in SUBSET Int
        BY <3>3
      <4>2. QED
        BY <3>2, <3>3, <4>1, LeastIs
    <3>5. QED
      BY <1>4, <3>2, <3>4 DEF ReplyTurn
  <2>3. CASE ~(r <= created)
    <3>1. created = r - 1
      <4>1. CASE r = 1
        BY <2>3, <4>1 DEF PairInv, PairTypes
      <4>2. CASE r # 1
        <5>1. r - 1 \in 1..(r - 1)
          BY <4>2, <1>1 DEF Response
        <5>2. r - 1 <= created
          BY <5>1, <1>2 DEF PairInv, TurnsHaveASide
        <5>3. QED
          BY <1>1, <2>3, <5>2 DEF PairInv, PairTypes
      <4>3. QED
        BY <4>1, <4>2
    <3>2. AwaitResponse = {}
      BY <1>2, <3>1 DEF AwaitResponse
    <3>3. QED
      BY <1>1, <1>4, <3>1, <3>2 DEF ReplyTurn
  <2>4. QED
    BY <2>2, <2>3
<1>5. QED
  BY <1>3, <1>4

LEMMA BindItemKeepsPairs ==
  ASSUME EveryUtteranceHasText, PairInv, NEW u \in Utterance, MaySpeak(u), BindItem(u)
  PROVE  PairInv'
<1> USE TurnsAssumption
<1>1. CASE sourceTurn[u] # None
  BY <1>1 DEF BindItem, pairVars, PairInv, PairTypes, ItemsInOrder, ResponsesInOrder, TurnsHaveASide
<1>2. CASE sourceTurn[u] = None
  <2>1. /\ sourceTurn' = [sourceTurn EXCEPT ![u] = u]
        /\ itemOf' = [itemOf EXCEPT ![u] = u]
        /\ created' = IF u > created THEN u ELSE created
        /\ fromSource' = [fromSource EXCEPT ![u] = IF u > created THEN TRUE ELSE @]
        /\ UNCHANGED <<responseOf, responseTurn>>
    BY <1>2, ItemTurnIsOwn DEF BindItem
  <2>2. u \in Turn /\ u \in Nat /\ u # None /\ u <= N /\ N \in Nat /\ created \in Nat
    BY DEF Utterance, Turn, None, PairInv, PairTypes
  <2>3. PairTypes'
    <3>1. created' \in Nat
      BY <2>1, <2>2
    <3>2. fromSource' \in [Turn -> BOOLEAN]
      <4>1. CASE u > created
        BY <2>1, <2>2, <4>1 DEF PairInv, PairTypes
      <4>2. CASE ~(u > created)
        BY <2>1, <2>2, <4>2 DEF PairInv, PairTypes
      <4>3. QED
        BY <4>1, <4>2
    <3>3. QED
      BY <2>1, <2>2, <3>1, <3>2 DEF PairInv, PairTypes
  <2>4. \A v \in 1..(u - 1) : sourceTurn[v] # None /\ v \in Utterance /\ v # u
    BY <2>2 DEF MaySpeak, EveryUtteranceHasText, Utterance
  <2>5. ItemsInOrder'
    <3>1. \A v \in Utterance : sourceTurn'[v] \in {v, None}
      BY <2>1 DEF PairInv, PairTypes, ItemsInOrder
    <3>2. \A t \in Turn : itemOf'[t] = IF t \in Utterance THEN sourceTurn'[t] ELSE None
      BY <2>1, <2>2 DEF PairInv, PairTypes, ItemsInOrder
    <3>3. ASSUME NEW w \in Utterance, sourceTurn'[w] # None, NEW v \in 1..(w - 1)
          PROVE  sourceTurn'[v] # None
      <4>1. v \in Utterance
        BY <2>2 DEF Utterance
      <4>2. CASE w = u
        BY <2>1, <2>4, <4>1, <4>2 DEF PairInv, PairTypes
      <4>3. CASE w # u
        <5>1. sourceTurn[w] # None
          BY <2>1, <3>3, <4>3 DEF PairInv, PairTypes
        <5>2. sourceTurn[v] # None
          BY <5>1 DEF PairInv, ItemsInOrder
        <5>3. QED
          BY <2>1, <2>2, <4>1, <5>2 DEF PairInv, PairTypes
      <4>4. QED
        BY <4>2, <4>3
    <3>4. QED
      BY <3>1, <3>2, <3>3 DEF ItemsInOrder
  <2>6. ResponsesInOrder'
    BY <2>1 DEF PairInv, ResponsesInOrder
  <2>7. u > created => created = u - 1
    <3>1. CASE u = 1
      BY <2>2, <3>1
    <3>2. CASE u # 1
      <4>1. u - 1 \in 1..(u - 1) /\ u - 1 \in Turn /\ u - 1 \in Utterance
        BY <2>2, <3>2 DEF Utterance, Turn
      <4>2. itemOf[u - 1] # None
        BY <2>4, <4>1 DEF PairInv, ItemsInOrder
      <4>3. u - 1 <= created
        BY <4>1, <4>2 DEF PairInv, TurnsHaveASide
      <4>4. QED
        BY <2>2, <4>3
    <3>3. QED
      BY <3>1, <3>2
  <2>8. TurnsHaveASide'
    <3> SUFFICES ASSUME NEW t \in Turn
                 PROVE  /\ t <= created' <=> itemOf'[t] # None \/ responseOf'[t] # None
                        /\ fromSource'[t] => itemOf'[t] # None
                        /\ t <= created' /\ ~fromSource'[t] => responseOf'[t] # None
      BY DEF TurnsHaveASide
    <3>0. t \in Nat
      BY DEF Turn
    <3>1. CASE t # u
      <4>1. t <= created' <=> t <= created
        BY <2>1, <2>2, <2>7, <3>0, <3>1
      <4>2. itemOf'[t] = itemOf[t] /\ fromSource'[t] = fromSource[t] /\ responseOf'[t] = responseOf[t]
        BY <2>1, <2>2, <3>1 DEF PairInv, PairTypes
      <4>3. QED
        BY <4>1, <4>2 DEF PairInv, TurnsHaveASide
    <3>2. CASE t = u
      <4>1. itemOf'[t] # None /\ t <= created' /\ responseOf'[t] = responseOf[t]
        BY <2>1, <2>2, <3>2 DEF PairInv, PairTypes
      <4>2. ~fromSource'[t] => t <= created /\ ~fromSource[t]
        BY <2>1, <2>2, <3>2 DEF PairInv, PairTypes
      <4>3. QED
        BY <4>1, <4>2 DEF PairInv, TurnsHaveASide
    <3>3. QED
      BY <3>1, <3>2
  <2>9. created' <= N
    BY <2>1, <2>2 DEF PairInv
  <2>10. QED
    BY <2>3, <2>5, <2>6, <2>8, <2>9 DEF PairInv
<1>3. QED
  BY <1>1, <1>2

LEMMA BindResponseKeepsPairs ==
  ASSUME PairInv, NEW r \in Response, MayAnswer(r), BindResponse(r)
  PROVE  PairInv'
<1> USE TurnsAssumption
<1>1. CASE responseTurn[r] # None
  BY <1>1 DEF BindResponse, pairVars, PairInv, PairTypes, ItemsInOrder, ResponsesInOrder, TurnsHaveASide
<1>2. CASE responseTurn[r] = None
  <2>1. /\ responseTurn' = [responseTurn EXCEPT ![r] = r]
        /\ responseOf' = [responseOf EXCEPT ![r] = r]
        /\ created' = IF r > created THEN r ELSE created
        /\ UNCHANGED <<fromSource, itemOf, sourceTurn>>
    BY <1>2, ReplyTurnIsOwn DEF BindResponse
  <2>2. r \in Turn /\ r \in Nat /\ r # None /\ r <= N /\ N \in Nat /\ created \in Nat
    BY DEF Response, Turn, None, PairInv, PairTypes
  <2>3. PairTypes'
    BY <2>1, <2>2 DEF PairInv, PairTypes
  <2>4. \A q \in 1..(r - 1) : responseTurn[q] # None /\ q \in Response /\ q # r
    BY <2>2 DEF MayAnswer, Response
  <2>5. ResponsesInOrder'
    <3>1. \A q \in Response : responseTurn'[q] \in {q, None}
      BY <2>1 DEF PairInv, PairTypes, ResponsesInOrder
    <3>2. \A t \in Turn : responseOf'[t] = IF t \in Response THEN responseTurn'[t] ELSE None
      BY <2>1, <2>2 DEF PairInv, PairTypes, ResponsesInOrder
    <3>3. ASSUME NEW w \in Response, responseTurn'[w] # None, NEW q \in 1..(w - 1)
          PROVE  responseTurn'[q] # None
      <4>1. q \in Response
        BY <2>2 DEF Response
      <4>2. CASE w = r
        BY <2>1, <2>4, <4>1, <4>2 DEF PairInv, PairTypes
      <4>3. CASE w # r
        <5>1. responseTurn[w] # None
          BY <2>1, <3>3, <4>3 DEF PairInv, PairTypes
        <5>2. responseTurn[q] # None
          BY <5>1 DEF PairInv, ResponsesInOrder
        <5>3. QED
          BY <2>1, <2>2, <4>1, <5>2 DEF PairInv, PairTypes
      <4>4. QED
        BY <4>2, <4>3
    <3>4. QED
      BY <3>1, <3>2, <3>3 DEF ResponsesInOrder
  <2>6. ItemsInOrder'
    BY <2>1 DEF PairInv, ItemsInOrder
  <2>7. r > created => created = r - 1
    <3>1. CASE r = 1
      BY <2>2, <3>1
    <3>2. CASE r # 1
      <4>1. r - 1 \in 1..(r - 1) /\ r - 1 \in Turn /\ r - 1 \in Response
        BY <2>2, <3>2 DEF Response, Turn
      <4>2. responseOf[r - 1] # None
        BY <2>4, <4>1 DEF PairInv, ResponsesInOrder
      <4>3. r - 1 <= created
        BY <4>1, <4>2 DEF PairInv, TurnsHaveASide
      <4>4. QED
        BY <2>2, <4>3
    <3>3. QED
      BY <3>1, <3>2
  <2>8. TurnsHaveASide'
    <3> SUFFICES ASSUME NEW t \in Turn
                 PROVE  /\ t <= created' <=> itemOf'[t] # None \/ responseOf'[t] # None
                        /\ fromSource'[t] => itemOf'[t] # None
                        /\ t <= created' /\ ~fromSource'[t] => responseOf'[t] # None
      BY DEF TurnsHaveASide
    <3>0. t \in Nat
      BY DEF Turn
    <3>1. CASE t # r
      <4>1. t <= created' <=> t <= created
        BY <2>1, <2>2, <2>7, <3>0, <3>1
      <4>2. itemOf'[t] = itemOf[t] /\ fromSource'[t] = fromSource[t] /\ responseOf'[t] = responseOf[t]
        BY <2>1, <2>2, <3>1 DEF PairInv, PairTypes
      <4>3. QED
        BY <4>1, <4>2 DEF PairInv, TurnsHaveASide
    <3>2. CASE t = r
      <4>1. responseOf'[t] # None /\ t <= created' /\ itemOf'[t] = itemOf[t]
        BY <2>1, <2>2, <3>2 DEF PairInv, PairTypes
      <4>2. r > created => ~fromSource[t]
        <5>1. r > created => itemOf[r] = None
          BY <2>2 DEF PairInv, TurnsHaveASide
        <5>2. QED
          BY <2>2, <3>2, <5>1 DEF PairInv, TurnsHaveASide
      <4>3. QED
        BY <2>1, <3>2, <4>1, <4>2 DEF PairInv, TurnsHaveASide
    <3>3. QED
      BY <3>1, <3>2
  <2>9. created' <= N
    BY <2>1, <2>2 DEF PairInv
  <2>10. QED
    BY <2>3, <2>5, <2>6, <2>8, <2>9 DEF PairInv
<1>3. QED
  BY <1>1, <1>2

LEMMA PairInit == TurnsInit => PairInv
<1> SUFFICES ASSUME TurnsInit
             PROVE  PairInv
  OBVIOUS
<1> USE TurnsAssumption
<1>1. PairTypes /\ created = 0
  BY DEF TurnsInit, PairTypes
<1>2. ItemsInOrder /\ ResponsesInOrder
  BY DEF TurnsInit, ItemsInOrder, ResponsesInOrder
<1>3. TurnsHaveASide
  BY DEF TurnsInit, TurnsHaveASide, Turn
<1>4. QED
  BY <1>1, <1>2, <1>3 DEF PairInv

(* Whatever an event does to the turns it does by one of the two lookups.  *)
LEMMA PairCases ==
  ASSUME [TurnsNext]_turnsVars
  PROVE  \/ \E u \in Utterance : MaySpeak(u) /\ BindItem(u)
         \/ \E r \in Response : MayAnswer(r) /\ BindResponse(r)
         \/ UNCHANGED pairVars
<1>1. ASSUME NEW u \in Utterance,
             \/ \E text \in PartialText : SourcePartial(u, text)
             \/ \E given \in BOOLEAN : SourceFinal(u, given)
      PROVE  (MaySpeak(u) /\ BindItem(u)) \/ UNCHANGED pairVars
  BY <1>1 DEF SourcePartial, SourceFinal
<1>2. ASSUME NEW r \in Response,
             \/ ResponseCreated(r)
             \/ \E text \in PartialText : TranslationPartial(r, text)
             \/ \E given \in BOOLEAN : TranslationFinal(r, given)
             \/ AudioDelta(r)
             \/ AudioDone(r)
             \/ \E ok, given \in BOOLEAN : ResponseDone(r, ok, given)
      PROVE  MayAnswer(r) /\ BindResponse(r)
  BY <1>2 DEF ResponseCreated, TranslationPartial, TranslationFinal, AudioDelta, AudioDone, ResponseDone
<1>3. CASE SessionEnds
  BY <1>3 DEF SessionEnds
<1>4. CASE UNCHANGED turnsVars
  BY <1>4 DEF turnsVars
<1>5. QED
  BY <1>1, <1>2, <1>3, <1>4 DEF TurnsNext

LEMMA PairStep ==
  ASSUME EveryUtteranceHasText, PairInv, [TurnsNext]_turnsVars
  PROVE  PairInv'
<1>1. CASE UNCHANGED pairVars
  BY <1>1 DEF pairVars, PairInv, PairTypes, ItemsInOrder, ResponsesInOrder, TurnsHaveASide
<1>2. QED
  BY <1>1, PairCases, BindItemKeepsPairs, BindResponseKeepsPairs

LEMMA PairInvariant ==
  ASSUME EveryUtteranceHasText
  PROVE  TurnsSpec => []PairInv
<1>1. PairInv /\ [TurnsNext]_turnsVars => PairInv'
  BY PairStep
<1>2. QED
  BY <1>1, PairInit, PTL DEF TurnsSpec

(* The subtitles of an utterance and the translation and audio of its      *)
(* response share a turn, for any number of utterances and however far the *)
(* two streams run apart: both are in the turn of their own number.        *)
THEOREM PairingTheorem ==
  ASSUME EveryUtteranceHasText
  PROVE  TurnsSpec => []UtteranceMeetsItsResponse
<1>1. PairInv => UtteranceMeetsItsResponse
  BY DEF PairInv, ItemsInOrder, ResponsesInOrder, UtteranceMeetsItsResponse, Utterance, Response
<1>2. QED
  BY <1>1, PairInvariant, PTL

(* No turn ever collects two utterances or two responses.                  *)
THEOREM MatchingTheorem ==
  ASSUME EveryUtteranceHasText
  PROVE  TurnsSpec => []TurnsAreMatchings
<1>1. PairInv => TurnsAreMatchings
  <2> SUFFICES ASSUME PairInv
               PROVE  TurnsAreMatchings
    OBVIOUS
  <2>1. /\ \A u \in Utterance : u \in Turn /\ u # None
        /\ \A r \in Response : r \in Turn /\ r # None
    BY TurnsAssumption DEF Utterance, Response, Turn, None
  <2>2. QED
    BY <2>1 DEF PairInv, ItemsInOrder, ResponsesInOrder, TurnsAreMatchings
<1>2. QED
  BY <1>1, PairInvariant, PTL

-------------------------------------------------------------------------------
(* The audio.                                                              *)

AudioTypes ==
  /\ audioStarted \in [Turn -> BOOLEAN]
  /\ audioEnded \in [Turn -> BOOLEAN]
  /\ chunks \in [Turn -> 0..MaxDeltas]
  /\ activeAudio \in Response \cup {None}

AudioInv ==
  /\ AudioTypes
  /\ \A t \in Turn : audioEnded[t] => audioStarted[t]
  /\ activeAudio # None => responseTurn[activeAudio] # None
  /\ OneOpenAudio

(* A response, once announced, never changes its turn.                     *)
LEMMA ResponseKeepsTurn ==
  ASSUME PairInv, [TurnsNext]_turnsVars, NEW r \in Response, responseTurn[r] # None
  PROVE  responseTurn'[r] = responseTurn[r]
<1>1. ASSUME NEW q \in Response, BindResponse(q)
      PROVE  responseTurn'[r] = responseTurn[r]
  BY <1>1 DEF BindResponse, pairVars, PairInv, PairTypes
<1>2. ASSUME NEW u \in Utterance, BindItem(u)
      PROVE  responseTurn'[r] = responseTurn[r]
  BY <1>2 DEF BindItem, pairVars
<1>3. QED
  BY <1>1, <1>2, PairCases DEF pairVars

(* A response that speaks has a turn of its own number.                    *)
LEMMA ResponseHasTurn ==
  ASSUME PairInv, NEW r \in Response, MayAnswer(r), BindResponse(r)
  PROVE  /\ ReplyTurn(r) = r
         /\ r \in Turn /\ r # None
         /\ responseTurn'[r] = r
<1>1. ReplyTurn(r) = r
  BY ReplyTurnIsOwn
<1>2. r \in Turn /\ r # None
  BY TurnsAssumption DEF Response, Turn, None
<1>3. responseTurn'[r] = r
  BY <1>1, <1>2 DEF BindResponse, pairVars, PairInv, PairTypes, ResponsesInOrder
<1>4. QED
  BY <1>1, <1>2, <1>3

LEMMA AudioInit == TurnsInit => AudioInv
<1> SUFFICES ASSUME TurnsInit
             PROVE  AudioInv
  OBVIOUS
<1>1. AudioTypes /\ activeAudio = None
  BY TurnsAssumption DEF TurnsInit, AudioTypes
<1>2. \A t \in Turn : ~audioStarted[t] /\ ~audioEnded[t]
  BY DEF TurnsInit
<1>3. OneOpenAudio
  BY <1>1, <1>2 DEF OneOpenAudio, OpenAudio
<1>4. QED
  BY <1>1, <1>2, <1>3 DEF AudioInv

LEMMA AudioUnchanged ==
  ASSUME PairInv, [TurnsNext]_turnsVars, AudioInv, UNCHANGED audioVars
  PROVE  AudioInv'
<1>1. /\ audioStarted' = audioStarted /\ audioEnded' = audioEnded
      /\ chunks' = chunks /\ activeAudio' = activeAudio
  BY DEF audioVars
<1>2. AudioTypes' /\ \A t \in Turn : audioEnded'[t] => audioStarted'[t]
  BY <1>1 DEF AudioInv, AudioTypes
<1>3. activeAudio # None => responseTurn'[activeAudio] = responseTurn[activeAudio]
  BY ResponseKeepsTurn DEF AudioInv, AudioTypes
<1>4. OpenAudio' = OpenAudio
  BY <1>1 DEF OpenAudio
<1>5. QED
  BY <1>1, <1>2, <1>3, <1>4 DEF AudioInv, OneOpenAudio

LEMMA AudioDeltaInv ==
  ASSUME PairInv, [TurnsNext]_turnsVars, AudioInv, NEW r \in Response, AudioDelta(r)
  PROVE  AudioInv'
<1> USE TurnsAssumption
<1>1. /\ ReplyTurn(r) = r
      /\ r \in Turn /\ r # None
      /\ responseTurn'[r] = r
  BY ResponseHasTurn DEF AudioDelta
<1>2. CASE AudioBusy(r)
  BY <1>2, AudioUnchanged DEF AudioDelta
<1>3. CASE ~AudioBusy(r)
  <2>1. /\ chunks[r] < MaxDeltas
        /\ chunks' = [chunks EXCEPT ![r] = @ + 1]
        /\ audioStarted' = [audioStarted EXCEPT ![r] = TRUE]
        /\ activeAudio' = IF audioStarted[r] THEN activeAudio ELSE r
        /\ audioEnded' = audioEnded
    BY <1>1, <1>3 DEF AudioDelta
  <2>2. activeAudio \in {None, r}
    BY <1>3 DEF AudioBusy
  <2>3. AudioTypes'
    <3>1. chunks[r] + 1 \in 0..MaxDeltas
      BY <1>1, <2>1 DEF AudioInv, AudioTypes
    <3>2. chunks' \in [Turn -> 0..MaxDeltas]
      BY <1>1, <2>1, <3>1 DEF AudioInv, AudioTypes
    <3>3. audioStarted' \in [Turn -> BOOLEAN]
      BY <1>1, <2>1 DEF AudioInv, AudioTypes
    <3>4. QED
      BY <2>1, <3>2, <3>3 DEF AudioInv, AudioTypes
  <2>4. \A t \in Turn : audioEnded'[t] => audioStarted'[t]
    BY <1>1, <2>1 DEF AudioInv, AudioTypes
  <2>5. activeAudio' # None => activeAudio' = r
    BY <2>1, <2>2
  <2>6. \A t \in Turn : t # r => (audioStarted'[t] <=> audioStarted[t])
    BY <2>1 DEF AudioInv, AudioTypes
  <2>7. audioStarted'[r]
    BY <1>1, <2>1 DEF AudioInv, AudioTypes
  <2>8. OpenAudio \subseteq {r}
    <3>1. activeAudio = r => responseTurn[r] = r
      BY <1>1 DEF AudioInv, PairInv, ResponsesInOrder
    <3>2. QED
      BY <1>1, <2>2, <3>1 DEF AudioInv, OneOpenAudio
  <2>9. OpenAudio' \subseteq {r}
    BY <2>1, <2>6, <2>8 DEF OpenAudio
  <2>10. r \in OpenAudio' <=> activeAudio' = r
    <3>1. CASE audioStarted[r]
      <4>1. r \in OpenAudio' <=> r \in OpenAudio
        BY <1>1, <2>1, <2>7, <3>1 DEF OpenAudio
      <4>2. r \in OpenAudio <=> activeAudio = r
        <5>1. activeAudio = r => responseTurn[r] = r
          BY <1>1 DEF AudioInv, PairInv, ResponsesInOrder
        <5>2. QED
          BY <1>1, <2>2, <5>1 DEF AudioInv, OneOpenAudio
      <4>3. QED
        BY <2>1, <3>1, <4>1, <4>2
    <3>2. CASE ~audioStarted[r]
      <4>1. ~audioEnded'[r]
        BY <1>1, <2>1, <3>2 DEF AudioInv
      <4>2. QED
        BY <1>1, <2>1, <2>7, <3>2, <4>1 DEF OpenAudio
    <3>3. QED
      BY <3>1, <3>2
  <2>11. OneOpenAudio'
    <3>1. CASE activeAudio' = None
      BY <1>1, <2>9, <2>10, <3>1 DEF OneOpenAudio
    <3>2. CASE activeAudio' = r
      BY <1>1, <2>9, <2>10, <3>2 DEF OneOpenAudio
    <3>3. QED
      BY <2>5, <3>1, <3>2
  <2>12. QED
    BY <1>1, <2>3, <2>4, <2>5, <2>11 DEF AudioInv
<1>4. QED
  BY <1>2, <1>3

LEMMA AudioDoneInv ==
  ASSUME PairInv, [TurnsNext]_turnsVars, AudioInv, NEW r \in Response, AudioDone(r)
  PROVE  AudioInv'
<1>1. /\ ReplyTurn(r) = r
      /\ r \in Turn /\ r # None
      /\ responseTurn'[r] = r
  BY ResponseHasTurn DEF AudioDone
<1>2. CASE UNCHANGED audioVars
  BY <1>2, AudioUnchanged
<1>3. CASE ~(UNCHANGED audioVars)
  <2>1. /\ ~audioEnded[r] /\ audioStarted[r]
        /\ audioEnded' = [audioEnded EXCEPT ![r] = TRUE]
        /\ activeAudio' = None
        /\ audioStarted' = audioStarted /\ chunks' = chunks
    BY <1>1, <1>3 DEF AudioDone
  <2>2. AudioTypes'
    BY <1>1, <2>1 DEF AudioInv, AudioTypes
  <2>3. \A t \in Turn : audioEnded'[t] => audioStarted'[t]
    BY <1>1, <2>1 DEF AudioInv, AudioTypes
  <2>4. r \in OpenAudio
    BY <1>1, <2>1 DEF OpenAudio
  <2>5. OpenAudio = {r}
    BY <2>4 DEF AudioInv, OneOpenAudio
  <2>6. \A t \in Turn : t # r => (audioEnded'[t] <=> audioEnded[t])
    BY <2>1 DEF AudioInv, AudioTypes
  <2>7. audioEnded'[r]
    BY <1>1, <2>1 DEF AudioInv, AudioTypes
  <2>8. OpenAudio' = {}
    BY <2>1, <2>5, <2>6, <2>7 DEF OpenAudio
  <2>9. OneOpenAudio'
    BY <2>1, <2>8 DEF OneOpenAudio
  <2>10. QED
    BY <2>1, <2>2, <2>3, <2>9 DEF AudioInv
<1>4. QED
  BY <1>2, <1>3

(* Only the two audio events touch the audio.                              *)
LEMMA AudioCases ==
  ASSUME [TurnsNext]_turnsVars
  PROVE  \/ \E r \in Response : AudioDelta(r) \/ AudioDone(r)
         \/ UNCHANGED audioVars
<1>1. ASSUME NEW u \in Utterance,
             \/ \E text \in PartialText : SourcePartial(u, text)
             \/ \E given \in BOOLEAN : SourceFinal(u, given)
      PROVE  UNCHANGED audioVars
  BY <1>1 DEF SourcePartial, SourceFinal
<1>2. ASSUME NEW r \in Response,
             \/ ResponseCreated(r)
             \/ \E text \in PartialText : TranslationPartial(r, text)
             \/ \E given \in BOOLEAN : TranslationFinal(r, given)
             \/ \E ok, given \in BOOLEAN : ResponseDone(r, ok, given)
      PROVE  UNCHANGED audioVars
  BY <1>2 DEF ResponseCreated, TranslationPartial, TranslationFinal, ResponseDone
<1>3. SessionEnds \/ UNCHANGED turnsVars => UNCHANGED audioVars
  BY DEF SessionEnds, turnsVars
<1>4. QED
  BY <1>1, <1>2, <1>3 DEF TurnsNext

LEMMA AudioInvariant ==
  ASSUME EveryUtteranceHasText
  PROVE  TurnsSpec => []AudioInv
<1>1. PairInv /\ AudioInv /\ [TurnsNext]_turnsVars => AudioInv'
  BY AudioCases, AudioUnchanged, AudioDeltaInv, AudioDoneInv
<1>2. QED
  BY <1>1, AudioInit, PairInvariant, PTL DEF TurnsSpec

(* At most one turn's audio is open, and it is that of the response the    *)
(* session believes to be playing: audio frames need no turn id.           *)
THEOREM OneOpenAudioTheorem ==
  ASSUME EveryUtteranceHasText
  PROVE  TurnsSpec => []OneOpenAudio
<1>1. AudioInv => OneOpenAudio
  BY DEF AudioInv
<1>2. QED
  BY <1>1, AudioInvariant, PTL

(* An audio frame is sent while its own turn, and no other, has its audio  *)
(* open, as long as the upstream sends none after response.audio.done.     *)
THEOREM AudioInsideTheorem ==
  ASSUME EveryUtteranceHasText, LateAudio = FALSE
  PROVE  TurnsSpec => AudioInsideItsTurn
<1>1. PairInv /\ AudioInv /\ AudioInv' /\ [TurnsNext]_turnsVars =>
        [\A t \in Turn : chunks'[t] > chunks[t] => OpenAudio' = {t}]_turnsVars
  <2> SUFFICES ASSUME PairInv, AudioInv, AudioInv', [TurnsNext]_turnsVars,
                      NEW t \in Turn, chunks'[t] > chunks[t]
               PROVE  OpenAudio' = {t}
    OBVIOUS
  <2>1. chunks[t] \in Int
    BY DEF AudioInv, AudioTypes
  <2>2. chunks' # chunks
    BY <2>1
  <2>3. PICK r \in Response : AudioDelta(r)
    BY <2>2, AudioCases DEF AudioDone, audioVars
  <2>4. ReplyTurn(r) = r /\ r \in Turn
    BY <2>3, ResponseHasTurn DEF AudioDelta
  <2>5. /\ ~audioEnded[r]
        /\ chunks' = [chunks EXCEPT ![r] = @ + 1]
        /\ audioStarted' = [audioStarted EXCEPT ![r] = TRUE]
        /\ audioEnded' = audioEnded
    BY <2>2, <2>3, <2>4 DEF AudioDelta, audioVars
  <2>6. t = r
    BY <2>1, <2>5 DEF AudioInv, AudioTypes
  <2>7. audioStarted'[r] /\ ~audioEnded'[r]
    BY <2>4, <2>5 DEF AudioInv, AudioTypes
  <2>8. r \in OpenAudio'
    BY <2>4, <2>7 DEF OpenAudio
  <2>9. QED
    BY <2>6, <2>8 DEF AudioInv, OneOpenAudio
<1>2. QED
  BY <1>1, PairInvariant, AudioInvariant, PTL DEF TurnsSpec, AudioInsideItsTurn

-------------------------------------------------------------------------------
(* The texts.                                                              *)

TextInv ==
  /\ source \in [Utterance -> Normalizer]
  /\ translation \in [Response -> Normalizer]
  /\ translated \in [Response -> BOOLEAN]
  /\ finals \in [Response -> {0, 1}]
  /\ \A r \in Response : finals[r] = 1 => translation[r].finalized

LEMMA NormalizerType ==
  ASSUME NEW n \in Normalizer
  PROVE  /\ \A text \in PartialText : Update(n, text) \in Normalizer
         /\ \A text \in PartialText : Update(n, text).finalized = n.finalized
         /\ \A given \in BOOLEAN : Finalize(n, given) \in Normalizer /\ Finalize(n, given).finalized
  BY DEF Normalizer, Update, Finalize

LEMMA TextInit == TurnsInit => TextInv
<1>1. Blank \in Normalizer
  BY DEF Blank, Normalizer
<1>2. QED
  BY <1>1 DEF TurnsInit, TextInv

(* A final translation is sent by the step that finalizes the text.        *)
LEMMA FinalStep ==
  ASSUME TextInv, NEW r \in Response, NEW given \in BOOLEAN,
         source' = source,
         translation' = [translation EXCEPT ![r] = Finalize(@, given)],
         IF Finalizes(translation[r], given)
         THEN /\ translated' = [translated EXCEPT ![r] = TRUE]
              /\ finals' = [finals EXCEPT ![r] = @ + 1]
         ELSE UNCHANGED <<translated, finals>>
  PROVE  TextInv'
<1>1. translation[r] \in Normalizer
  BY DEF TextInv
<1>2. /\ translation' \in [Response -> Normalizer]
      /\ translation'[r].finalized
      /\ \A q \in Response : q # r => translation'[q] = translation[q]
  BY <1>1, NormalizerType DEF TextInv
<1>3. CASE Finalizes(translation[r], given)
  <2>1. ~translation[r].finalized
    BY <1>3 DEF Finalizes
  <2>2. finals[r] = 0
    BY <2>1 DEF TextInv
  <2>3. translated' = [translated EXCEPT ![r] = TRUE] /\ finals' = [finals EXCEPT ![r] = finals[r] + 1]
    BY <1>3
  <2>4. finals' = [finals EXCEPT ![r] = 1]
    BY <2>2, <2>3
  <2>5. finals' \in [Response -> {0, 1}]
    BY <2>4 DEF TextInv
  <2>6. translated' \in [Response -> BOOLEAN]
    BY <2>3 DEF TextInv
  <2>7. \A q \in Response : q # r => finals'[q] = finals[q]
    BY <2>4 DEF TextInv
  <2>8. QED
    BY <1>2, <2>7, <2>5, <2>6 DEF TextInv
<1>4. CASE ~Finalizes(translation[r], given)
  BY <1>2, <1>4 DEF TextInv
<1>5. QED
  BY <1>3, <1>4

LEMMA TextStep ==
  ASSUME TextInv, [TurnsNext]_turnsVars
  PROVE  TextInv'
<1>1. ASSUME NEW u \in Utterance, NEW n \in Normalizer,
             source' = [source EXCEPT ![u] = n], UNCHANGED <<translation, translated, finals>>
      PROVE  TextInv'
  BY <1>1 DEF TextInv
<1>2. ASSUME NEW u \in Utterance, NEW text \in PartialText, SourcePartial(u, text)
      PROVE  TextInv'
  <2>1. Update(source[u], text) \in Normalizer
    BY NormalizerType DEF TextInv
  <2>2. QED
    BY <1>1, <1>2, <2>1 DEF SourcePartial
<1>3. ASSUME NEW u \in Utterance, NEW given \in BOOLEAN, SourceFinal(u, given)
      PROVE  TextInv'
  <2>1. Finalize(source[u], given) \in Normalizer
    BY NormalizerType DEF TextInv
  <2>2. QED
    BY <1>1, <1>3, <2>1 DEF SourceFinal
<1>4. ASSUME NEW r \in Response, NEW text \in PartialText, TranslationPartial(r, text)
      PROVE  TextInv'
  <2> DEFINE n == Update(translation[r], text)
             b == translated[r] \/ Shows(translation[r], text)
  <2>1. /\ source' = source /\ finals' = finals
        /\ translation' = [translation EXCEPT ![r] = n]
        /\ translated' = [translated EXCEPT ![r] = b]
    BY <1>4 DEF TranslationPartial
  <2>2. n \in Normalizer /\ n.finalized = translation[r].finalized
    BY NormalizerType DEF TextInv
  <2>3. b \in BOOLEAN
    BY DEF TextInv
  <2>4. translated' \in [Response -> BOOLEAN]
    <3> HIDE DEF b
    <3>1. QED
      BY <2>1, <2>3 DEF TextInv
  <2>5. translation' \in [Response -> Normalizer] /\ \A q \in Response :
          translation'[q].finalized = translation[q].finalized
    <3> HIDE DEF n
    <3>1. QED
      BY <2>1, <2>2 DEF TextInv
  <2>6. QED
    BY <2>1, <2>4, <2>5 DEF TextInv
<1>5. ASSUME NEW r \in Response, NEW given \in BOOLEAN, TranslationFinal(r, given)
      PROVE  TextInv'
  BY <1>5, FinalStep DEF TranslationFinal
<1>6. ASSUME NEW r \in Response, NEW ok \in BOOLEAN, NEW given \in BOOLEAN,
             ResponseDone(r, ok, given)
      PROVE  TextInv'
  <2>1. CASE ok /\ ~translated[r]
    BY <1>6, <2>1, FinalStep DEF ResponseDone
  <2>2. CASE ~(ok /\ ~translated[r])
    <3>1. UNCHANGED textVars
      BY <1>6, <2>2 DEF ResponseDone, textVars
    <3>2. QED
      BY <3>1 DEF textVars, TextInv
  <2>3. QED
    BY <2>1, <2>2
<1>7. CASE UNCHANGED textVars
  BY <1>7 DEF textVars, TextInv
<1>8. QED
  BY <1>2, <1>3, <1>4, <1>5, <1>6, <1>7
  DEF TurnsNext, ResponseCreated, AudioDelta, AudioDone, SessionEnds, turnsVars

LEMMA TextInvariant == TurnsSpec => []TextInv
  BY TextInit, TextStep, PTL DEF TurnsSpec

(* The client gets at most one final translation of a response, from the   *)
(* done event or from response.done, however often either is repeated.     *)
THEOREM OneFinalTheorem == TurnsSpec => []OneFinalTranslation
<1>1. TextInv => OneFinalTranslation
  BY DEF TextInv, OneFinalTranslation
<1>2. QED
  BY <1>1, TextInvariant, PTL

-------------------------------------------------------------------------------
(* The ends of the turns, and the types.                                   *)

EndInv ==
  /\ completed \in [Turn -> BOOLEAN]
  /\ CompletedTurns
  /\ status \in {"open", "failed", "finished"}

LEMMA SomeTurns ==
  ASSUME NEW S \in SUBSET Turn
  PROVE  IsFiniteSet(S) /\ Cardinality(S) \in 0..(2 * N)
<1>1. N \in Nat
  BY TurnsAssumption
<1>2. IsFiniteSet(Turn) /\ Cardinality(Turn) = 2 * N
  BY <1>1, FS_Interval DEF Turn
<1>3. IsFiniteSet(S) /\ Cardinality(S) <= Cardinality(Turn)
  BY <1>2, FS_Subset
<1>4. Cardinality(S) \in Nat
  BY <1>3, FS_CardinalityType
<1>5. QED
  BY <1>1, <1>2, <1>3, <1>4

LEMMA EndInit == TurnsInit => EndInv
<1> SUFFICES ASSUME TurnsInit
             PROVE  EndInv
  OBVIOUS
<1>1. {t \in Turn : completed[t]} = {}
  BY DEF TurnsInit
<1>2. QED
  BY <1>1, FS_EmptySet DEF TurnsInit, EndInv, CompletedTurns

LEMMA EndStep ==
  ASSUME PairInv, PairInv', AudioInv, AudioInv', EndInv, [TurnsNext]_turnsVars
  PROVE  EndInv'
<1>1. \A t \in Turn : responseOf[t] # None => responseOf'[t] # None
  <2> SUFFICES ASSUME NEW t \in Turn, responseOf[t] # None
               PROVE  responseOf'[t] # None
    OBVIOUS
  <2>1. t \in Response /\ responseTurn[t] # None
    BY DEF PairInv, ResponsesInOrder
  <2>2. responseTurn'[t] # None
    BY <2>1, ResponseKeepsTurn
  <2>3. QED
    BY <2>1, <2>2 DEF PairInv, ResponsesInOrder
<1>2. \A t \in Turn : audioEnded[t] => audioEnded'[t]
  <2>1. ASSUME NEW r \in Response, AudioDelta(r)
        PROVE  audioEnded' = audioEnded
    BY <2>1 DEF AudioDelta, audioVars
  <2>2. ASSUME NEW r \in Response, AudioDone(r)
        PROVE  \A t \in Turn : audioEnded[t] => audioEnded'[t]
    BY <2>2 DEF AudioDone, audioVars, AudioInv, AudioTypes
  <2>3. QED
    BY <2>1, <2>2, AudioCases DEF audioVars
<1>3. status' \in {"open", "failed", "finished"}
  BY DEF TurnsNext, SourcePartial, SourceFinal, ResponseCreated, TranslationPartial, TranslationFinal,
         AudioDelta, AudioDone, ResponseDone, SessionEnds, FailSession, turnsVars, EndInv
<1>4. CASE UNCHANGED endVars
  <2>1. completed' = completed /\ turnCount' = turnCount
    BY <1>4 DEF endVars
  <2>2. QED
    BY <1>1, <1>2, <1>3, <2>1 DEF EndInv, CompletedTurns
<1>5. ASSUME NEW r \in Response, NEW ok \in BOOLEAN, NEW given \in BOOLEAN,
             ResponseDone(r, ok, given), ~UNCHANGED endVars
      PROVE  EndInv'
  <2> DEFINE done == {t \in Turn : completed[t]}
  <2>1. /\ ReplyTurn(r) = r
        /\ r \in Turn /\ r # None
        /\ responseTurn'[r] = r
    BY <1>5, ResponseHasTurn DEF ResponseDone
  <2>2. /\ ~completed[r]
        /\ AudioOutput => audioEnded[r]
        /\ completed' = [completed EXCEPT ![r] = TRUE]
        /\ turnCount' = turnCount + 1
    BY <1>5, <2>1 DEF ResponseDone, Completes
  <2>3. completed' \in [Turn -> BOOLEAN]
    BY <2>1, <2>2 DEF EndInv
  <2>4. {t \in Turn : completed'[t]} = done \cup {r}
    BY <2>1, <2>2 DEF EndInv
  <2>5. IsFiniteSet(done) /\ r \notin done
    BY <2>2, SomeTurns
  <2>6. Cardinality(done \cup {r}) = Cardinality(done) + 1
    BY <2>5, FS_AddElement
  <2>7. turnCount' = Cardinality({t \in Turn : completed'[t]})
    BY <2>2, <2>4, <2>6 DEF EndInv, CompletedTurns
  <2>8. responseOf'[r] # None
    BY <2>1 DEF PairInv, ResponsesInOrder
  <2>9. \A t \in Turn : completed'[t] => responseOf'[t] # None /\ (AudioOutput => audioEnded'[t])
    BY <1>1, <1>2, <2>1, <2>2, <2>8 DEF EndInv, CompletedTurns
  <2>10. QED
    BY <1>3, <2>3, <2>7, <2>9 DEF EndInv, CompletedTurns
<1>6. QED
  BY <1>4, <1>5
  DEF TurnsNext, SourcePartial, SourceFinal, ResponseCreated, TranslationPartial, TranslationFinal,
      AudioDelta, AudioDone, SessionEnds, turnsVars

LEMMA EndInvariant ==
  ASSUME EveryUtteranceHasText
  PROVE  TurnsSpec => []EndInv
<1>1. PairInv /\ PairInv' /\ AudioInv /\ AudioInv' /\ EndInv /\ [TurnsNext]_turnsVars => EndInv'
  BY EndStep
<1>2. QED
  BY <1>1, EndInit, PairInvariant, AudioInvariant, PTL DEF TurnsSpec

(* A turn is completed, and counted, once, and only with its audio ended:  *)
(* turn_count of session.completed is the number of turns.                 *)
THEOREM CompletedTheorem ==
  ASSUME EveryUtteranceHasText
  PROVE  TurnsSpec => []CompletedTurns
<1>1. EndInv => CompletedTurns
  BY DEF EndInv
<1>2. QED
  BY <1>1, EndInvariant, PTL

(* The variables keep their types; no turn is opened beyond those a        *)
(* response or an utterance accounts for.                                  *)
THEOREM TypeTheorem ==
  ASSUME EveryUtteranceHasText
  PROVE  TurnsSpec => []TurnsTypeOK
<1>1. PairInv /\ AudioInv /\ TextInv /\ EndInv => TurnsTypeOK
  <2> SUFFICES ASSUME PairInv, AudioInv, TextInv, EndInv
               PROVE  TurnsTypeOK
    OBVIOUS
  <2>1. created \in 0..(2 * N)
    BY TurnsAssumption DEF PairInv, PairTypes
  <2>2. turnCount \in 0..(2 * N)
    <3>1. {t \in Turn : completed[t]} \in SUBSET Turn
      OBVIOUS
    <3>2. QED
      BY <3>1, SomeTurns DEF EndInv, CompletedTurns
  <2>3. finals \in [Response -> 0..2]
    BY DEF TextInv
  <2>4. QED
    BY <2>1, <2>2, <2>3 DEF TurnsTypeOK, PairInv, PairTypes, AudioInv, AudioTypes, TextInv, EndInv
<1>2. QED
  BY <1>1, PairInvariant, AudioInvariant, TextInvariant, EndInvariant, PTL

-------------------------------------------------------------------------------
(* The turns implement LiveTurnPairing: the session pairs what it hears    *)
(* with what is announced, in order.                                       *)

(* The utterances heard, and the responses announced, are the first ones.  *)
HeardUpTo(h) == \A t \in Turn : itemOf[t] # None <=> t <= h
AnnouncedUpTo(a) == \A t \in Turn : responseOf[t] # None <=> t <= a

OrderInv ==
  /\ \E h \in 0..N : HeardUpTo(h)
  /\ \E a \in 0..N : AnnouncedUpTo(a)

Upto(n) == [k \in 1..n |-> k]

LEMMA AppendNext ==
  ASSUME NEW n \in Nat
  PROVE  Append(Upto(n), n + 1) = Upto(n + 1)
<1>1. Upto(n) \in Seq(Nat) /\ Len(Upto(n)) = n
  BY DEF Upto
<1>2. /\ Append(Upto(n), n + 1) \in Seq(Nat)
      /\ Len(Append(Upto(n), n + 1)) = n + 1
      /\ \A k \in 1..(n + 1) : Append(Upto(n), n + 1)[k] = k
  BY <1>1 DEF Upto
<1>3. /\ Upto(n + 1) \in Seq(Nat)
      /\ Len(Upto(n + 1)) = n + 1
      /\ \A k \in 1..(n + 1) : Upto(n + 1)[k] = k
  BY DEF Upto
<1>4. QED
  BY <1>2, <1>3

(* The mapped sequences are the initial numbers.                           *)
LEMMA HeardIs ==
  ASSUME PairInv, NEW h \in 0..N, HeardUpTo(h)
  PROVE  HeardBar = Upto(h)
<1> USE TurnsAssumption
<1>1. {t \in Turn : itemOf[t] # None} = 1..h
  BY DEF HeardUpTo, Turn
<1>2. Cardinality(1..h) = h
  BY FS_Interval
<1>3. \A k \in 1..h : itemOf[k] = k
  BY DEF HeardUpTo, PairInv, ItemsInOrder, Utterance, Turn, None
<1>4. QED
  BY <1>1, <1>2, <1>3 DEF HeardBar, Upto

LEMMA AnnouncedIs ==
  ASSUME PairInv, NEW a \in 0..N, AnnouncedUpTo(a)
  PROVE  AnnouncedBar = Upto(a)
<1> USE TurnsAssumption
<1>1. {t \in Turn : responseOf[t] # None} = 1..a
  BY DEF AnnouncedUpTo, Turn
<1>2. Cardinality(1..a) = a
  BY FS_Interval
<1>3. \A k \in 1..a : responseOf[k] = k
  BY DEF AnnouncedUpTo, PairInv, ResponsesInOrder, Response, Turn, None
<1>4. QED
  BY <1>1, <1>2, <1>3 DEF AnnouncedBar, Upto

(* An utterance whose turn comes is the next one.                          *)
LEMMA ItemIsNext ==
  ASSUME EveryUtteranceHasText, PairInv, NEW u \in Utterance, MaySpeak(u),
         sourceTurn[u] = None, NEW h \in 0..N, HeardUpTo(h)
  PROVE  h = u - 1
<1> USE TurnsAssumption
<1>1. u \in Turn /\ itemOf[u] = None
  BY DEF PairInv, ItemsInOrder, Utterance, Turn
<1>2. ~(u <= h)
  BY <1>1 DEF HeardUpTo
<1>3. CASE u = 1
  BY <1>2, <1>3
<1>4. CASE u # 1
  <2>1. u - 1 \in Utterance /\ u - 1 \in Turn /\ u - 1 \in 1..(u - 1)
    BY <1>4 DEF Utterance, Turn
  <2>2. sourceTurn[u - 1] # None
    BY <2>1 DEF MaySpeak, EveryUtteranceHasText
  <2>3. itemOf[u - 1] # None
    BY <2>1, <2>2 DEF PairInv, ItemsInOrder
  <2>4. u - 1 <= h
    BY <2>1, <2>3 DEF HeardUpTo
  <2>5. QED
    BY <1>2, <2>4 DEF Utterance
<1>5. QED
  BY <1>3, <1>4

LEMMA ReplyIsNext ==
  ASSUME PairInv, NEW r \in Response, MayAnswer(r),
         responseTurn[r] = None, NEW a \in 0..N, AnnouncedUpTo(a)
  PROVE  a = r - 1
<1> USE TurnsAssumption
<1>1. r \in Turn /\ responseOf[r] = None
  BY DEF PairInv, ResponsesInOrder, Response, Turn
<1>2. ~(r <= a)
  BY <1>1 DEF AnnouncedUpTo
<1>3. CASE r = 1
  BY <1>2, <1>3
<1>4. CASE r # 1
  <2>1. r - 1 \in Response /\ r - 1 \in Turn /\ r - 1 \in 1..(r - 1)
    BY <1>4 DEF Response, Turn
  <2>2. responseTurn[r - 1] # None
    BY <2>1 DEF MayAnswer
  <2>3. responseOf[r - 1] # None
    BY <2>1, <2>2 DEF PairInv, ResponsesInOrder
  <2>4. r - 1 <= a
    BY <2>1, <2>3 DEF AnnouncedUpTo
  <2>5. QED
    BY <1>2, <2>4 DEF Response
<1>5. QED
  BY <1>3, <1>4

-------------------------------------------------------------------------------
(* The two lookups.                                                        *)

LEMMA ItemHears ==
  ASSUME EveryUtteranceHasText, PairInv, PairInv', OrderInv,
         NEW u \in Utterance, MaySpeak(u), BindItem(u)
  PROVE  OrderInv' /\ (Pairing!PNext \/ UNCHANGED <<HeardBar, AnnouncedBar>>)
<1> USE TurnsAssumption
<1>1. CASE sourceTurn[u] # None
  BY <1>1 DEF BindItem, pairVars, OrderInv, HeardUpTo, AnnouncedUpTo, HeardBar, AnnouncedBar
<1>2. CASE sourceTurn[u] = None
  <2>1. PICK h \in 0..N : HeardUpTo(h)
    BY DEF OrderInv
  <2>2. h = u - 1
    BY <1>2, <2>1, ItemIsNext
  <2>3. itemOf' = [itemOf EXCEPT ![u] = u] /\ responseOf' = responseOf
    BY <1>2, ItemTurnIsOwn DEF BindItem
  <2>4. u \in 0..N /\ u # None /\ u = h + 1 /\ h \in Nat
    BY <2>2 DEF Utterance, None
  <2>5. HeardUpTo(u)'
    BY <2>1, <2>3, <2>4 DEF HeardUpTo, Turn, PairInv, PairTypes
  <2>6. OrderInv'
    BY <2>3, <2>4, <2>5 DEF OrderInv, AnnouncedUpTo
  <2>7. AnnouncedBar' = AnnouncedBar
    BY <2>3 DEF AnnouncedBar
  <2>8. HeardBar = Upto(h)
    BY <2>1, HeardIs
  <2>9. HeardBar' = Upto(u)
    <3>1. {t \in Turn : itemOf'[t] # None} = 1..u
      BY <2>4, <2>5 DEF HeardUpTo, Turn
    <3>2. Cardinality(1..u) = u
      BY <2>4, FS_Interval
    <3>3. \A k \in 1..u : itemOf'[k] = k
      BY <2>4, <2>5 DEF HeardUpTo, PairInv, ItemsInOrder, Utterance, Turn, None
    <3>4. QED
      BY <3>1, <3>2, <3>3 DEF HeardBar, Upto
  <2>10. HeardBar' = Append(HeardBar, u)
    BY <2>4, <2>8, <2>9, AppendNext
  <2>11. \A k \in DOMAIN HeardBar : HeardBar[k] # u
    BY <2>4, <2>8 DEF Upto
  <2>12. Pairing!Hear(u)
    BY <2>7, <2>10, <2>11 DEF Pairing!Hear
  <2>13. QED
    BY <2>6, <2>12 DEF Pairing!PNext
<1>3. QED
  BY <1>1, <1>2

LEMMA ReplyAnnounces ==
  ASSUME PairInv, PairInv', OrderInv,
         NEW r \in Response, MayAnswer(r), BindResponse(r)
  PROVE  OrderInv' /\ (Pairing!PNext \/ UNCHANGED <<HeardBar, AnnouncedBar>>)
<1> USE TurnsAssumption
<1>1. CASE responseTurn[r] # None
  BY <1>1 DEF BindResponse, pairVars, OrderInv, HeardUpTo, AnnouncedUpTo, HeardBar, AnnouncedBar
<1>2. CASE responseTurn[r] = None
  <2>1. PICK a \in 0..N : AnnouncedUpTo(a)
    BY DEF OrderInv
  <2>2. a = r - 1
    BY <1>2, <2>1, ReplyIsNext
  <2>3. responseOf' = [responseOf EXCEPT ![r] = r] /\ itemOf' = itemOf
    BY <1>2, ReplyTurnIsOwn DEF BindResponse
  <2>4. r \in 0..N /\ r # None /\ r = a + 1 /\ a \in Nat
    BY <2>2 DEF Response, None
  <2>5. AnnouncedUpTo(r)'
    BY <2>1, <2>3, <2>4 DEF AnnouncedUpTo, Turn, PairInv, PairTypes
  <2>6. OrderInv'
    BY <2>3, <2>4, <2>5 DEF OrderInv, HeardUpTo
  <2>7. HeardBar' = HeardBar
    BY <2>3 DEF HeardBar
  <2>8. AnnouncedBar = Upto(a)
    BY <2>1, AnnouncedIs
  <2>9. AnnouncedBar' = Upto(r)
    <3>1. {t \in Turn : responseOf'[t] # None} = 1..r
      BY <2>4, <2>5 DEF AnnouncedUpTo, Turn
    <3>2. Cardinality(1..r) = r
      BY <2>4, FS_Interval
    <3>3. \A k \in 1..r : responseOf'[k] = k
      BY <2>4, <2>5 DEF AnnouncedUpTo, PairInv, ResponsesInOrder, Response, Turn, None
    <3>4. QED
      BY <3>1, <3>2, <3>3 DEF AnnouncedBar, Upto
  <2>10. AnnouncedBar' = Append(AnnouncedBar, r)
    BY <2>4, <2>8, <2>9, AppendNext
  <2>11. \A k \in DOMAIN AnnouncedBar : AnnouncedBar[k] # r
    BY <2>4, <2>8 DEF Upto
  <2>12. Pairing!Announce(r)
    BY <2>7, <2>10, <2>11 DEF Pairing!Announce
  <2>13. QED
    BY <2>6, <2>12 DEF Pairing!PNext
<1>3. QED
  BY <1>1, <1>2

-------------------------------------------------------------------------------

(* The k-th utterance heard and the k-th response announced share turn k.  *)
THEOREM PairingRefinementTheorem ==
  ASSUME EveryUtteranceHasText
  PROVE  TurnsSpec => ImplementsPairing
<1>1. TurnsInit => OrderInv /\ Pairing!PInit
  <2> SUFFICES ASSUME TurnsInit
               PROVE  OrderInv /\ Pairing!PInit
    OBVIOUS
  <2>1. 0 \in 0..N /\ N \in Nat
    BY TurnsAssumption
  <2>2. HeardUpTo(0) /\ AnnouncedUpTo(0)
    BY DEF TurnsInit, HeardUpTo, AnnouncedUpTo, Turn
  <2>3. HeardBar = Upto(0) /\ AnnouncedBar = Upto(0)
    BY <2>1, <2>2, PairInit, HeardIs, AnnouncedIs
  <2>4. Upto(0) = <<>>
    BY DEF Upto
  <2>5. QED
    BY <2>1, <2>2, <2>3, <2>4 DEF OrderInv, Pairing!PInit
<1>2. PairInv /\ PairInv' /\ OrderInv /\ [TurnsNext]_turnsVars
        => OrderInv' /\ [Pairing!PNext]_<<HeardBar, AnnouncedBar>>
  <2> SUFFICES ASSUME PairInv, PairInv', OrderInv, [TurnsNext]_turnsVars
               PROVE  OrderInv' /\ (Pairing!PNext \/ UNCHANGED <<HeardBar, AnnouncedBar>>)
    OBVIOUS
  <2>1. CASE UNCHANGED pairVars
    BY <2>1 DEF pairVars, OrderInv, HeardUpTo, AnnouncedUpTo, HeardBar, AnnouncedBar
  <2>2. QED
    BY <2>1, PairCases, ItemHears, ReplyAnnounces
<1>3. QED
  BY <1>1, <1>2, PairInvariant, PTL DEF TurnsSpec, ImplementsPairing, Pairing!PSpec

===============================================================================
