--------------------------- MODULE LiveTranslateTurns ---------------------------
(***************************************************************************)
(* How the gateway turns the event stream of one LiveTranslate upstream    *)
(* into turns for its client                                               *)
(* (server/app/streaming/livetranslate_session.py), with the transcript    *)
(* normalizer of server/app/providers/livetranslate.py.                    *)
(*                                                                         *)
(* Transcription events name an item (an utterance of the speaker),        *)
(* translation and audio events name a response; nothing in the stream     *)
(* says which response translates which utterance.  The gateway pairs them *)
(* by order.  One task handles the events one after the other, so a        *)
(* handler is one action; its guard is what the upstream may send.  Text   *)
(* is abstracted to whether there is any and whether it changes.           *)
(*                                                                         *)
(* Utterances and responses are numbered as the speaker speaks: response k *)
(* translates utterance k.  The gateway does not look at the numbers.      *)
(***************************************************************************)
EXTENDS Integers, Sequences, FiniteSets

CONSTANTS N,             \* utterances in the session
          Silent,        \* utterances that never get any source text
          AudioOutput,   \* "audio" is among livetranslate_output_modalities
          LateAudio,     \* the upstream may send audio after response.audio.done
          PartialText,   \* kinds of partial text the upstream sends
          MaxDeltas      \* audio deltas per response (bound of the model)

ASSUME TurnsAssumption ==
  /\ N \in Nat
  /\ Silent \subseteq 1..N
  /\ AudioOutput \in BOOLEAN
  /\ LateAudio \in BOOLEAN
  /\ PartialText \subseteq {"empty", "same", "new"}
  /\ MaxDeltas \in Nat

Utterance == 1..N
Response == 1..N
Turn == 1..(2 * N)
None == 0

VARIABLES created,        \* turns 1..created exist, in order of creation
          fromSource,     \* fromSource[t]: t is on unbound_source_turns
          itemOf,         \* itemOf[t]: context.item_id
          responseOf,     \* responseOf[t]: context.response_id
          sourceTurn,     \* source_turns
          responseTurn,   \* response_turns
          source,         \* source_normalizers
          translation,    \* translation_normalizers
          translated,     \* translated[r]: translated_text of its turn is set
          audioStarted, audioEnded, chunks,   \* the audio of a turn
          completed,      \* and its end
          activeAudio,    \* active_audio_response_id
          turnCount,      \* _turn_count
          finals,         \* finals[r]: translation.final frames sent for r
          status          \* "open", "failed" or "finished"

pairVars == <<created, fromSource, itemOf, responseOf, sourceTurn, responseTurn>>
textVars == <<source, translation, translated, finals>>
audioVars == <<audioStarted, audioEnded, chunks, activeAudio>>
endVars == <<completed, turnCount>>
turnsVars == <<pairVars, textVars, audioVars, endVars, status>>

-------------------------------------------------------------------------------
(* TranscriptNormalizer: held is "confirmed or stash is not empty", shown  *)
(* is "display is not empty".                                              *)

Normalizer == [held : BOOLEAN, shown : BOOLEAN, finalized : BOOLEAN]

Blank == [held |-> FALSE, shown |-> FALSE, finalized |-> FALSE]

\* The text of a partial is empty, the one on display ("same"), or a new one.
Update(n, text) ==
  IF n.finalized THEN n
  ELSE [n EXCEPT !.held = text # "empty" /\ (text = "same" => n.shown),
                 !.shown = n.shown \/ text = "new"]

\* update() returned something to show.
Shows(n, text) == ~n.finalized /\ text = "new"

\* Mutation: a final text is shown however often it is repeated.
FinalizesAgain(n, given) == given \/ n.held

\* complete() falls back on the text held; it returns None without any.
Finalize(n, given) ==
  IF n.finalized THEN n
  ELSE [n EXCEPT !.finalized = TRUE, !.shown = given \/ n.held]

Finalizes(n, given) == ~n.finalized /\ (given \/ n.held)

-------------------------------------------------------------------------------
(* _source_context and _response_context.                                  *)

\* Mutation: the last turn that waits is taken, pop() for popleft().
Greatest(S) == CHOOSE t \in S : \A u \in S : u <= t

Least(S) == CHOOSE t \in S : \A u \in S : t <= u

\* Mutation: a response never looks for a waiting turn.
AwaitNoResponse == {}

\* Turns a response, or an utterance, opened and that wait for the other side.
AwaitItem == {t \in 1..created : ~fromSource[t] /\ itemOf[t] = None}
AwaitResponse == {t \in 1..created : fromSource[t] /\ responseOf[t] = None}

ItemTurn(u) ==
  IF sourceTurn[u] # None THEN sourceTurn[u]
  ELSE IF AwaitItem # {} THEN Least(AwaitItem) ELSE created + 1

ReplyTurn(r) ==
  IF responseTurn[r] # None THEN responseTurn[r]
  ELSE IF AwaitResponse # {} THEN Least(AwaitResponse) ELSE created + 1

BindItem(u) ==
  IF sourceTurn[u] # None
  THEN UNCHANGED pairVars
  ELSE LET t == ItemTurn(u)
       IN  /\ sourceTurn' = [sourceTurn EXCEPT ![u] = t]
           /\ itemOf' = [itemOf EXCEPT ![t] = u]
           /\ created' = IF t > created THEN t ELSE created
           /\ fromSource' = [fromSource EXCEPT ![t] = IF t > created THEN TRUE ELSE @]
           /\ UNCHANGED <<responseOf, responseTurn>>

BindResponse(r) ==
  IF responseTurn[r] # None
  THEN UNCHANGED pairVars
  ELSE LET t == ReplyTurn(r)
       IN  /\ responseTurn' = [responseTurn EXCEPT ![r] = t]
           /\ responseOf' = [responseOf EXCEPT ![t] = r]
           /\ created' = IF t > created THEN t ELSE created
           /\ UNCHANGED <<fromSource, itemOf, sourceTurn>>

-------------------------------------------------------------------------------
(* The upstream: transcription of an utterance begins once the ones before *)
(* it have text, or are known to have none; responses are announced in     *)
(* order.  Anything may be repeated.                                       *)

MaySpeak(u) ==
  \A v \in 1..(u - 1) : sourceTurn[v] # None \/ (v \in Silent /\ source[v].finalized)

MayAnswer(r) == \A q \in 1..(r - 1) : responseTurn[q] # None

FailSession == status' = "failed"

-------------------------------------------------------------------------------

TurnsInit ==
  /\ created = 0
  /\ fromSource = [t \in Turn |-> FALSE]
  /\ itemOf = [t \in Turn |-> None]
  /\ responseOf = [t \in Turn |-> None]
  /\ sourceTurn = [u \in Utterance |-> None]
  /\ responseTurn = [r \in Response |-> None]
  /\ source = [u \in Utterance |-> Blank]
  /\ translation = [r \in Response |-> Blank]
  /\ translated = [r \in Response |-> FALSE]
  /\ audioStarted = [t \in Turn |-> FALSE]
  /\ audioEnded = [t \in Turn |-> FALSE]
  /\ chunks = [t \in Turn |-> 0]
  /\ completed = [t \in Turn |-> FALSE]
  /\ activeAudio = None
  /\ turnCount = 0
  /\ finals = [r \in Response |-> 0]
  /\ status = "open"

\* conversation.item.input_audio_transcription.text
SourcePartial(u, text) ==
  /\ status = "open"
  /\ MaySpeak(u)
  /\ u \in Silent => text = "empty"
  /\ source' = [source EXCEPT ![u] = Update(@, text)]
  /\ IF Shows(source[u], text) THEN BindItem(u) ELSE UNCHANGED pairVars
  /\ UNCHANGED <<translation, translated, finals, audioVars, endVars, status>>

\* conversation.item.input_audio_transcription.completed; only a silent
\* utterance ends without any text.
SourceFinal(u, given) ==
  /\ status = "open"
  /\ MaySpeak(u)
  /\ IF u \in Silent THEN ~given ELSE given \/ sourceTurn[u] # None
  /\ source' = [source EXCEPT ![u] = Finalize(@, given)]
  /\ IF Finalizes(source[u], given) THEN BindItem(u) ELSE UNCHANGED pairVars
  /\ UNCHANGED <<translation, translated, finals, audioVars, endVars, status>>

\* response.created
ResponseCreated(r) ==
  /\ status = "open"
  /\ MayAnswer(r)
  /\ BindResponse(r)
  /\ UNCHANGED <<textVars, audioVars, endVars, status>>

\* response.audio_transcript.text and response.text.text
TranslationPartial(r, text) ==
  /\ status = "open"
  /\ MayAnswer(r)
  /\ BindResponse(r)
  /\ translation' = [translation EXCEPT ![r] = Update(@, text)]
  /\ translated' = [translated EXCEPT ![r] = @ \/ Shows(translation[r], text)]
  /\ UNCHANGED <<source, finals, audioVars, endVars, status>>

\* response.audio_transcript.done and response.text.done
TranslationFinal(r, given) ==
  /\ status = "open"
  /\ MayAnswer(r)
  /\ BindResponse(r)
  /\ translation' = [translation EXCEPT ![r] = Finalize(@, given)]
  /\ IF Finalizes(translation[r], given)
     THEN /\ translated' = [translated EXCEPT ![r] = TRUE]
          /\ finals' = [finals EXCEPT ![r] = @ + 1]
     ELSE UNCHANGED <<translated, finals>>
  /\ UNCHANGED <<source, audioVars, endVars, status>>

\* Another response is playing.
AudioBusy(r) == activeAudio \notin {None, r}

\* response.audio.delta.  The first chunk of a response opens its audio; two
\* responses may not interleave.
AudioDelta(r) ==
  /\ status = "open"
  /\ AudioOutput
  /\ MayAnswer(r)
  /\ BindResponse(r)
  /\ LET t == ReplyTurn(r)
     IN  /\ audioEnded[t] => LateAudio
         /\ IF AudioBusy(r)
            THEN /\ FailSession
                 /\ UNCHANGED audioVars
            ELSE /\ chunks[t] < MaxDeltas
                 /\ chunks' = [chunks EXCEPT ![t] = @ + 1]
                 /\ audioStarted' = [audioStarted EXCEPT ![t] = TRUE]
                 /\ activeAudio' = IF audioStarted[t] THEN activeAudio ELSE r
                 /\ UNCHANGED <<audioEnded, status>>
  /\ UNCHANGED <<textVars, endVars>>

\* Mutation: tts.audio.end is sent and the context does not remember it.
AudioDoneForgotten(r) ==
  /\ status = "open"
  /\ AudioOutput
  /\ MayAnswer(r)
  /\ BindResponse(r)
  /\ audioStarted[ReplyTurn(r)]
  /\ activeAudio' = None
  /\ UNCHANGED <<audioStarted, audioEnded, chunks, status, textVars, endVars>>

\* response.audio.done; a repeated one is ignored.
AudioDone(r) ==
  /\ status = "open"
  /\ AudioOutput
  /\ MayAnswer(r)
  /\ BindResponse(r)
  /\ LET t == ReplyTurn(r)
     IN  \/ /\ audioEnded[t]
            /\ UNCHANGED <<audioVars, status>>
         \/ /\ ~audioEnded[t] /\ ~audioStarted[t]
            /\ FailSession
            /\ UNCHANGED audioVars
         \/ /\ ~audioEnded[t] /\ audioStarted[t]
            /\ audioEnded' = [audioEnded EXCEPT ![t] = TRUE]
            /\ activeAudio' = None
            /\ UNCHANGED <<audioStarted, chunks, status>>
  /\ UNCHANGED <<textVars, endVars>>

Completes(t) == ~completed[t] /\ (AudioOutput => audioEnded[t])

\* response.done: ok is "its status is completed", given is "its output carries
\* a text".  A missing translation.final is made up for, the turn is completed
\* once, and never before its audio has ended.
ResponseDone(r, ok, given) ==
  /\ status = "open"
  /\ MayAnswer(r)
  /\ BindResponse(r)
  /\ LET t == ReplyTurn(r)
         rescue == ok /\ ~translated[r]
     IN  /\ translation' = IF rescue THEN [translation EXCEPT ![r] = Finalize(@, given)]
                           ELSE translation
         /\ IF rescue /\ Finalizes(translation[r], given)
            THEN /\ translated' = [translated EXCEPT ![r] = TRUE]
                 /\ finals' = [finals EXCEPT ![r] = @ + 1]
            ELSE UNCHANGED <<translated, finals>>
         /\ IF ok /\ Completes(t)
            THEN /\ completed' = [completed EXCEPT ![t] = TRUE]
                 /\ turnCount' = turnCount + 1
            ELSE UNCHANGED endVars
         /\ IF ~ok \/ (~completed[t] /\ AudioOutput /\ ~audioEnded[t])
            THEN FailSession
            ELSE UNCHANGED status
  /\ UNCHANGED <<source, audioVars>>

\* session.finished, or an error event, or the end of the upstream.
SessionEnds ==
  /\ status = "open"
  /\ status' \in {"finished", "failed"}
  /\ UNCHANGED <<pairVars, textVars, audioVars, endVars>>

TurnsNext ==
  \/ \E u \in Utterance :
       \/ \E text \in PartialText : SourcePartial(u, text)
       \/ \E given \in BOOLEAN : SourceFinal(u, given)
  \/ \E r \in Response :
       \/ ResponseCreated(r)
       \/ \E text \in PartialText : TranslationPartial(r, text)
       \/ \E given \in BOOLEAN : TranslationFinal(r, given)
       \/ AudioDelta(r)
       \/ AudioDone(r)
       \/ \E ok, given \in BOOLEAN : ResponseDone(r, ok, given)
  \/ SessionEnds

TurnsSpec == TurnsInit /\ [][TurnsNext]_turnsVars

-------------------------------------------------------------------------------

TurnsTypeOK ==
  /\ created \in 0..(2 * N)
  /\ fromSource \in [Turn -> BOOLEAN]
  /\ itemOf \in [Turn -> Utterance \cup {None}]
  /\ responseOf \in [Turn -> Response \cup {None}]
  /\ sourceTurn \in [Utterance -> Turn \cup {None}]
  /\ responseTurn \in [Response -> Turn \cup {None}]
  /\ source \in [Utterance -> Normalizer]
  /\ translation \in [Response -> Normalizer]
  /\ translated \in [Response -> BOOLEAN]
  /\ audioStarted \in [Turn -> BOOLEAN]
  /\ audioEnded \in [Turn -> BOOLEAN]
  /\ chunks \in [Turn -> 0..MaxDeltas]
  /\ completed \in [Turn -> BOOLEAN]
  /\ activeAudio \in Response \cup {None}
  /\ turnCount \in 0..(2 * N)
  /\ finals \in [Response -> 0..2]
  /\ status \in {"open", "failed", "finished"}

(* The subtitles of an utterance and the translation and audio of its own  *)
(* response carry one turn id, whichever came first and however far the    *)
(* two streams run apart.                                                  *)
UtteranceMeetsItsResponse ==
  \A k \in 1..N :
    sourceTurn[k] # None /\ responseTurn[k] # None => sourceTurn[k] = responseTurn[k]

(* A turn never collects two utterances or two responses: the maps of the  *)
(* session and the contexts they point to agree.                           *)
TurnsAreMatchings ==
  /\ \A u \in Utterance : sourceTurn[u] # None => itemOf[sourceTurn[u]] = u
  /\ \A r \in Response : responseTurn[r] # None => responseOf[responseTurn[r]] = r
  /\ \A t \in Turn : itemOf[t] # None => sourceTurn[itemOf[t]] = t
  /\ \A t \in Turn : responseOf[t] # None => responseTurn[responseOf[t]] = t

OpenAudio == {t \in Turn : audioStarted[t] /\ ~audioEnded[t]}

(* Audio frames carry no turn id: the client attributes them to the turn   *)
(* whose audio is open, so there is at most one, and it is the turn of the *)
(* response the session believes to be playing.                            *)
OneOpenAudio ==
  OpenAudio = IF activeAudio = None THEN {} ELSE {responseTurn[activeAudio]}

(* A turn is counted once, with its audio ended, and none is lost.         *)
CompletedTurns ==
  /\ turnCount = Cardinality({t \in Turn : completed[t]})
  /\ \A t \in Turn : completed[t] => responseOf[t] # None /\ (AudioOutput => audioEnded[t])

(* The client receives at most one final translation per response, from    *)
(* the done event or from response.done, however often either is repeated. *)
OneFinalTranslation == \A r \in Response : finals[r] <= 1

(* While the upstream keeps its promise, every audio frame is sent between *)
(* tts.audio.start and tts.audio.end of its own turn.                      *)
AudioInsideItsTurn ==
  [][\A t \in Turn : chunks'[t] > chunks[t] => OpenAudio' = {t}]_turnsVars

\* The abstract pairing: turns in the order of their creation.
HeardBar ==
  [k \in 1..Cardinality({t \in Turn : itemOf[t] # None}) |-> itemOf[k]]
AnnouncedBar ==
  [k \in 1..Cardinality({t \in Turn : responseOf[t] # None}) |-> responseOf[k]]

Pairing == INSTANCE LiveTurnPairing WITH heard <- HeardBar, announced <- AnnouncedBar

(* The k-th utterance heard and the k-th response announced share turn k.  *)
ImplementsPairing == Pairing!PSpec

===============================================================================
