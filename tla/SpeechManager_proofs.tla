------------------------ MODULE SpeechManager_proofs ------------------------
(* Proofs about SpeechManager for any number of dictations, with either     *)
(* engine, failing loops, cancels and speech output; and, from its          *)
(* invariant, about the flow that Dictation builds on it, for any number of *)
(* visits of the editor.                                                    *)
EXTENDS Dictation, FiniteSetTheorems, TLAPS

(* Sessions are numbered in the order they start, and a session that is     *)
(* being opened is known to no loop and to no recognizer yet.               *)
FreshInv ==
  /\ \A s \in Session : s > sessions => loop[s] = "none"
  /\ recognizer.session <= sessions /\ recognizer.busy \subseteq 1..sessions
  /\ recognizer.phase # "off" => recognizer.session # 0
  /\ recognizer.session # 0 => loop[recognizer.session] = "none"
  /\ main # "ready" => sessions # 0
  /\ main = "opening" => /\ ~recording /\ loop[sessions] = "none"
                         /\ recognizer.session # sessions
                         /\ sessions \notin recognizer.busy
  /\ main = "opened" => recording

(* Only the capture loop of the latest session records, and the platform    *)
(* engine has no part in that session.                                      *)
RecordInv ==
  /\ RefusedOnlyWhileDictating
  /\ recording => /\ sessions # 0
                  /\ recognizer.session # sessions
                  /\ sessions \notin recognizer.busy

(* A session that has not settled is overlapped, and so is every later one. *)
OverlapInv ==
  \A t \in 1..sessions : \A s \in 1..(t - 1) : ~Settled(s) => {s, t} \subseteq overlapped

(* A publisher is launched once, by a loop that has left the state settled; *)
(* whatever shows a dictation again belongs to a session that overlaps it.  *)
Delivering(s) == Contains(publishers, s) \/ InHand(s)

PublisherInv ==
  /\ \A i, j \in 1..Len(publishers) : publishers[i] = publishers[j] => i = j
  /\ \A p, q \in publishing : p.session = q.session => p = q
  /\ \A s \in Session : ~(Contains(publishers, s) /\ InHand(s))
  /\ \A s \in Session : Delivering(s) =>
       loop[s] = "done" /\ (Dictating => s \in overlapped \cup failed)

(* What a session has said and not yet made final is counted by nobody else,*)
(* in the live text and in the hands of its publisher.                      *)
Underway(s) == InLoop(s) \/ Draining(s) \/ Contains(publishers, s)

PublishedRight(s) ==
  /\ Contains(partialText, s) => s = sessions
  /\ Underway(s) \/ InHand(s) => published[s] = 0
  /\ Occurrences(partialText, s) <= transcribed[s]
  /\ published[s] <= transcribed[s]
  /\ \A p \in publishing : /\ Contains(p.text, s) => p.session = s
                          /\ Occurrences(p.text, s) <= transcribed[s]

(* The flag a cancel sets stays until nothing of the session can come out,  *)
(* but for what a publisher had taken before it.                            *)
CancelledRight(s) ==
  s \in cancelled => /\ Contains(finalResult, s) => s \in late
                     /\ \A p \in publishing : Contains(p.text, s) => s \in late
                     /\ Underway(s) \/ Contains(partialText, s) => cancelPending

TextInv ==
  /\ \A s \in Session :
       s > sessions \/ (s = sessions /\ main = "opening") =>
         /\ ~Contains(partialText, s) /\ published[s] = 0 /\ s \notin cancelled
         /\ \A p \in publishing : ~Contains(p.text, s)
  /\ \A s \in Session :
       loop[s] # "none" /\ s \notin overlapped => PublishedRight(s) /\ CancelledRight(s)

-----------------------------------------------------------------------------
LEMMA OccurrencesType ==
  ASSUME NEW text \in Seq(Session), NEW s
  PROVE  Occurrences(text, s) \in Nat
<1>1. IsFiniteSet(1..Len(text))
  BY FS_Interval
<1>2. IsFiniteSet({i \in DOMAIN text : text[i] = s})
  BY <1>1, FS_Subset
<1> QED BY <1>2, FS_CardinalityType DEF Occurrences

LEMMA PublicationType ==
  ASSUME TypeOK, NEW text \in Seq(Session), Publication(text)
  PROVE  published' \in [Session -> Nat]
  BY OccurrencesType DEF Publication, TypeOK

(* The publishers that are left are among those there were.                 *)
LEMMA TailContains ==
  ASSUME NEW q \in Seq(Session), q # <<>>, NEW s
  PROVE  /\ Tail(q) \in Seq(Session) /\ Head(q) \in Session
         /\ Contains(Tail(q), s) => Contains(q, s)
<1>1. Tail(q) \in Seq(Session) /\ Head(q) \in Session /\ Len(Tail(q)) = Len(q) - 1
  OBVIOUS
<1>2. \A i \in 1..Len(Tail(q)) : Tail(q)[i] = q[i + 1]
  OBVIOUS
<1> QED BY <1>1, <1>2 DEF Contains

LEMMA AppendContains ==
  ASSUME NEW q \in Seq(Session), NEW t \in Session, NEW s
  PROVE  /\ Append(q, t) \in Seq(Session)
         /\ Contains(Append(q, t), s) => Contains(q, s) \/ s = t
  BY DEF Contains

LEMMA EmptyText == <<>> \in Seq(Session)
  OBVIOUS

(* The calls and callbacks of the platform engine keep its record typed.    *)
LEMMA RecognizerType ==
  ASSUME recognizer \in Recognizer
  PROVE  /\ \A s \in Session : /\ [recognizer EXCEPT !.busy = @ \cup {s}] \in Recognizer
                              /\ [recognizer EXCEPT !.busy = @ \ {s}] \in Recognizer
         /\ \A s \in 0..MaxSessions :
              [recognizer EXCEPT !.phase = "starting", !.session = s] \in Recognizer
         /\ [Idle EXCEPT !.busy = recognizer.busy] \in Recognizer
<1>1. recognizer.busy \in SUBSET Session /\ 0 \in 0..MaxSessions
  BY SpeechAssumption DEF Recognizer
<1>2. \A s \in Session : /\ [recognizer EXCEPT !.busy = @ \cup {s}] \in Recognizer
                         /\ [recognizer EXCEPT !.busy = @ \ {s}] \in Recognizer
  BY DEF Recognizer
<1>3. \A s \in 0..MaxSessions :
        [recognizer EXCEPT !.phase = "starting", !.session = s] \in Recognizer
  BY DEF Recognizer
<1>4. [Idle EXCEPT !.busy = recognizer.busy] \in Recognizer
  BY <1>1 DEF Recognizer, Idle
<1> QED BY <1>2, <1>3, <1>4

-----------------------------------------------------------------------------
(* Types.                                                                   *)

LEMMA MainTypes ==
  ASSUME TypeOK, FreshInv,
         StartDenied \/ StartListening \/ OpenCapture \/ ShowListening \/ FallBack
  PROVE  TypeOK'
<1> USE SpeechAssumption DEF TypeOK, status, transcript, capture, history, publication, AssistantState
<1>1. CASE StartDenied
  <2>1. /\ lastError' \in BOOLEAN
    BY <1>1 DEF StartDenied
  <2>2. UNCHANGED <<state, micLevel, partialText, finalResult, recording, cancelPending,
                  main, sessions, loop, pending, publishers, publishing, recognizer, tts, heard,
                  transcribed, published, cancelled, overlapped, failed, spokenOver, late, wiped>>
    BY <1>1 DEF StartDenied
  <2> QED BY <2>1, <2>2
<1>2. CASE StartListening
  <2>1. sessions' \in 0..MaxSessions /\ sessions' \in Session
    BY <1>2 DEF StartListening, Session
  <2>2. overlapped' \in SUBSET Session
    <3>1. {s \in 1..sessions : ~Settled(s)} \subseteq Session
      BY DEF Session
    <3> QED BY <1>2, <2>1, <3>1 DEF StartListening
  <2>3. /\ cancelPending' \in BOOLEAN /\ state' \in AssistantState /\ tts' \in Engine
        /\ lastError' \in BOOLEAN /\ micLevel' \in BOOLEAN
        /\ main' \in {"ready", "opening", "opened"}
        /\ partialText' \in Seq(Session) /\ finalResult' \in Seq(Session)
    BY <1>2, EmptyText DEF StartListening, EmptyTranscript, Engine
  <2>4. UNCHANGED <<recording, loop, pending, publishers, publishing, recognizer, heard, transcribed,
                  published, cancelled, failed, spokenOver, late, wiped>>
    BY <1>2 DEF StartListening
  <2> QED BY <2>1, <2>2, <2>3, <2>4
<1>3. CASE OpenCapture
  <2>1. /\ recording' \in BOOLEAN
        /\ loop' \in [Session -> LoopPhase]
        /\ main' \in {"ready", "opening", "opened"}
    BY <1>3 DEF OpenCapture, LoopPhase
  <2>2. UNCHANGED <<state, lastError, micLevel, partialText, finalResult, cancelPending,
                  sessions, pending, publishers, publishing, recognizer, tts, heard, transcribed,
                  published, cancelled, overlapped, failed, spokenOver, late, wiped>>
    BY <1>3 DEF OpenCapture
  <2> QED BY <2>1, <2>2
<1>4. CASE ShowListening
  <2>1. /\ state' \in AssistantState
        /\ main' \in {"ready", "opening", "opened"}
    BY <1>4 DEF ShowListening
  <2>2. UNCHANGED <<lastError, micLevel, partialText, finalResult, recording,
                  cancelPending, sessions, loop, pending, publishers, publishing, recognizer, tts,
                  heard, transcribed, published, cancelled, overlapped, failed,
                  spokenOver, late, wiped>>
    BY <1>4 DEF ShowListening
  <2> QED BY <2>1, <2>2
<1>5. CASE FallBack
  <2>1. sessions \in Session
    BY <1>5 DEF FallBack, FreshInv, Session
  <2>2. /\ main' \in {"ready", "opening", "opened"} /\ lastError' \in BOOLEAN
        /\ state' \in AssistantState
    BY <1>5 DEF FallBack
  <2>3. recognizer' \in Recognizer
    <3>1. recognizer \in Recognizer /\ sessions \in 0..MaxSessions
      OBVIOUS
    <3> QED BY <1>5, <2>1, <3>1, RecognizerType DEF FallBack, Serve
  <2>4. UNCHANGED <<micLevel, partialText, finalResult, recording, cancelPending, sessions,
                  loop, pending, publishers, publishing, tts, heard, transcribed, published, cancelled,
                  overlapped, failed, spokenOver, late, wiped>>
    BY <1>5 DEF FallBack
  <2> QED BY <2>2, <2>3, <2>4
<1> QED BY <1>1, <1>2, <1>3, <1>4, <1>5

LEMMA LoopTypes ==
  ASSUME TypeOK, NEW s \in Session, Hear(s) \/ LoopStep(s) \/ Fail(s)
  PROVE  TypeOK'
<1> USE SpeechAssumption DEF TypeOK, status, transcript, capture, history, publication, AssistantState
<1>1. CASE Hear(s)
  <2>1. /\ pending' \in [Session -> BOOLEAN]
        /\ heard' \in [Session -> 0..MaxUtterances]
        /\ micLevel' \in BOOLEAN
    BY <1>1 DEF Hear
  <2>2. UNCHANGED <<state, lastError, partialText, finalResult, recording, cancelPending,
                  main, sessions, loop, publishers, publishing, recognizer, tts, transcribed,
                  published, cancelled, overlapped, failed, spokenOver, late, wiped>>
    BY <1>1 DEF Hear
  <2> QED BY <2>1, <2>2
<1>2. CASE Flush(s)
  <2>1. /\ pending' \in [Session -> BOOLEAN]
        /\ state' \in AssistantState
        /\ loop' \in [Session -> LoopPhase]
    BY <1>2 DEF Flush, LoopPhase
  <2>2. UNCHANGED <<lastError, micLevel, partialText, finalResult, recording,
                  cancelPending, main, sessions, publishers, publishing, recognizer, tts, heard,
                  transcribed, published, cancelled, overlapped, failed, spokenOver, late, wiped>>
    BY <1>2 DEF Flush
  <2> QED BY <2>1, <2>2
<1>3. CASE SeeStop(s)
  <2>1. /\ state' \in AssistantState
        /\ loop' \in [Session -> LoopPhase]
    BY <1>3 DEF SeeStop, LoopPhase
  <2>2. UNCHANGED <<lastError, micLevel, partialText, finalResult, recording,
                  cancelPending, main, sessions, pending, publishers, publishing, recognizer, tts,
                  heard, transcribed, published, cancelled, overlapped, failed,
                  spokenOver, late, wiped>>
    BY <1>3 DEF SeeStop
  <2> QED BY <2>1, <2>2
<1>4. CASE Transcribed(s)
  <2>1. partialText' \in Seq(Session) /\ transcribed' \in [Session -> Nat]
    <3>1. Append(partialText, s) \in Seq(Session)
      BY AppendContains
    <3>2. [transcribed EXCEPT ![s] = @ + 1] \in [Session -> Nat]
      OBVIOUS
    <3> QED BY <1>4, <3>1, <3>2 DEF Transcribed
  <2>2. lastError' \in BOOLEAN
    BY <1>4 DEF Transcribed
  <2>3. state' \in AssistantState
    BY <1>4 DEF Transcribed, StateAfterFlush
  <2>4. pending' \in [Session -> BOOLEAN] /\ loop' \in [Session -> LoopPhase]
    BY <1>4 DEF Transcribed, AfterFlush, LoopPhase
  <2>5. UNCHANGED <<micLevel, finalResult, recording, cancelPending, main, sessions, heard,
                  publishers, publishing, recognizer, tts, published, cancelled, overlapped, failed,
                  spokenOver, late, wiped>>
    BY <1>4 DEF Transcribed
  <2> QED BY <2>1, <2>2, <2>3, <2>4, <2>5
<1>5. CASE Close(s)
  <2>1. /\ loop' \in [Session -> LoopPhase]
        /\ micLevel' \in BOOLEAN
        /\ state' \in AssistantState
        /\ publishers' \in Seq(Session)
    BY <1>5, AppendContains DEF Close, Settle, LaunchPublisher, LoopPhase
  <2>2. UNCHANGED <<lastError, partialText, finalResult, recording, cancelPending, main,
                  sessions, pending, publishing, recognizer, tts, heard, transcribed, published,
                  cancelled, overlapped, failed, spokenOver, late, wiped>>
    BY <1>5 DEF Close
  <2> QED BY <2>1, <2>2
<1>6. CASE Fail(s)
  <2>1. /\ lastError' \in BOOLEAN
        /\ loop' \in [Session -> LoopPhase]
        /\ failed' \in SUBSET Session
    BY <1>6 DEF Fail, LoopPhase
  <2>2. UNCHANGED <<state, micLevel, partialText, finalResult, recording, cancelPending,
                  main, sessions, pending, publishers, publishing, recognizer, tts, heard,
                  transcribed, published, cancelled, overlapped, spokenOver, late, wiped>>
    BY <1>6 DEF Fail
  <2> QED BY <2>1, <2>2
<1> QED BY <1>1, <1>2, <1>3, <1>4, <1>5, <1>6 DEF LoopStep

LEMMA OtherTypes ==
  ASSUME TypeOK, FreshInv, RecordInv,
         \/ WakePublisher \/ (\E p \in publishing : Publish(p))
         \/ StopListening \/ CancelListening \/ Recognition
         \/ Speak \/ OnTtsInit \/ OnUtteranceEnd \/ ConsumeError \/ ClearFinalResult
  PROVE  TypeOK'
<1> USE SpeechAssumption DEF TypeOK, status, transcript, capture, history, publication, AssistantState
<1>1. CASE WakePublisher
  <2>1. publishers' \in Seq(Session) /\ Head(publishers) \in Session
    BY <1>1, TailContains DEF WakePublisher
  <2>2. [session |-> Head(publishers), text |-> partialText]
          \in [session : Session, text : Seq(Session)]
    BY <2>1
  <2>3. publishing' \subseteq [session : Session, text : Seq(Session)]
    BY <1>1, <2>2 DEF WakePublisher
  <2>4. /\ cancelPending' \in BOOLEAN
        /\ partialText' \in Seq(Session) /\ finalResult' \in Seq(Session)
    BY <1>1, EmptyText DEF WakePublisher, EmptyTranscript
  <2>5. UNCHANGED <<state, lastError, micLevel, recording, main, sessions, loop, pending,
                  recognizer, tts, heard, transcribed, published, cancelled, overlapped,
                  failed, spokenOver, late, wiped>>
    BY <1>1 DEF WakePublisher
  <2> QED BY <2>1, <2>3, <2>4, <2>5
<1>15. ASSUME NEW p \in publishing, Publish(p)
       PROVE  TypeOK'
  <2>1. p.text \in Seq(Session)
    OBVIOUS
  <2>2. published' \in [Session -> Nat]
    BY <1>15, <2>1, PublicationType DEF Publish
  <2>3. /\ finalResult' \in Seq(Session)
        /\ publishing' \subseteq [session : Session, text : Seq(Session)]
    BY <1>15, <2>1 DEF Publish
  <2>4. UNCHANGED <<state, lastError, micLevel, partialText, recording, cancelPending,
                  main, sessions, loop, pending, publishers, recognizer, tts, heard,
                  transcribed, cancelled, overlapped, failed, spokenOver, late, wiped>>
    BY <1>15 DEF Publish
  <2> QED BY <2>2, <2>3, <2>4
<1>2. CASE StopListening
  <2>1. /\ state' \in AssistantState
        /\ micLevel' \in BOOLEAN
        /\ recording' \in BOOLEAN
        /\ recognizer' \in Recognizer
    BY <1>2 DEF StopListening, StopEngine, Settle, Recognizer
  <2>2. UNCHANGED <<lastError, partialText, finalResult, cancelPending, main, sessions,
                  loop, pending, publishers, publishing, tts, heard, transcribed, published,
                  cancelled, overlapped, failed, spokenOver, late, wiped>>
    BY <1>2 DEF StopListening
  <2> QED BY <2>1, <2>2
<1>3. CASE CancelListening
  <2>1. cancelled' \in SUBSET Session
    <3>1. 1..sessions \subseteq Session
      BY DEF Session
    <3> QED BY <1>3, <3>1 DEF CancelListening
  <2>5. late' \in SUBSET Session
    <3>1. {s \in Session : \E p \in publishing : Contains(p.text, s)} \subseteq Session
      OBVIOUS
    <3> QED BY <1>3, <3>1 DEF CancelListening
  <2>2. /\ state' \in AssistantState /\ micLevel' \in BOOLEAN /\ cancelPending' \in BOOLEAN
        /\ partialText' \in Seq(Session) /\ finalResult' \in Seq(Session)
    BY <1>3, EmptyText DEF CancelListening, StopEngine, Settle, EmptyTranscript
  <2>3. recording' \in BOOLEAN /\ recognizer' \in Recognizer
    BY <1>3 DEF CancelListening, StopEngine, Recognizer
  <2>4. UNCHANGED <<lastError, main, sessions, loop, pending, publishers, publishing, tts, heard,
                  transcribed, published, overlapped, failed, spokenOver, wiped>>
    BY <1>3 DEF CancelListening
  <2> QED BY <2>1, <2>2, <2>3, <2>4, <2>5
<1>4. CASE OnReadyForSpeech
  <2>1. /\ state' \in AssistantState
        /\ recognizer' \in Recognizer
    BY <1>4 DEF OnReadyForSpeech, Recognizer
  <2>2. UNCHANGED <<lastError, micLevel, partialText, finalResult, recording,
                  cancelPending, main, sessions, loop, pending, publishers, publishing, tts, heard,
                  transcribed, published, cancelled, overlapped, failed, spokenOver, late, wiped>>
    BY <1>4 DEF OnReadyForSpeech
  <2> QED BY <2>1, <2>2
<1>5. CASE OnRmsChanged
  <2>1. /\ micLevel' \in BOOLEAN
    BY <1>5 DEF OnRmsChanged
  <2>2. UNCHANGED <<state, lastError, partialText, finalResult, recording, cancelPending,
                  main, sessions, loop, pending, publishers, publishing, recognizer, tts, heard,
                  transcribed, published, cancelled, overlapped, failed, spokenOver, late, wiped>>
    BY <1>5 DEF OnRmsChanged
  <2> QED BY <2>1, <2>2
<1>6. CASE OnPartialResults
  <2>1. recognizer.session \in Session
    BY <1>6 DEF OnPartialResults, Callback, FreshInv, Session, Recognizer
  <2>2. partialText' \in Seq(Session)
    BY <1>6, <2>1 DEF OnPartialResults
  <2>3. UNCHANGED <<state, lastError, micLevel, finalResult, recording, cancelPending, main,
                  sessions, loop, pending, publishers, publishing, recognizer, tts, heard, transcribed,
                  published, cancelled, overlapped, failed, spokenOver, late, wiped>>
    BY <1>6 DEF OnPartialResults
  <2> QED BY <2>2, <2>3
<1>7. CASE OnEndOfSpeech
  <2>1. /\ state' \in AssistantState
        /\ recognizer' \in Recognizer
    BY <1>7 DEF OnEndOfSpeech, Recognizer
  <2>2. UNCHANGED <<lastError, micLevel, partialText, finalResult, recording,
                  cancelPending, main, sessions, loop, pending, publishers, publishing, tts, heard,
                  transcribed, published, cancelled, overlapped, failed, spokenOver, late, wiped>>
    BY <1>7 DEF OnEndOfSpeech
  <2> QED BY <2>1, <2>2
<1>8. CASE OnResults
  <2>1. recognizer.session \in Session
    BY <1>8 DEF OnResults, Callback, FreshInv, Session, Recognizer
  <2>2. PICK text \in {<<>>, <<recognizer.session>>} :
          partialText' = text /\ finalResult' = text /\ Publication(text)
    BY <1>8 DEF OnResults
  <2>3. text \in Seq(Session)
    <3>1. <<recognizer.session>> \in Seq(Session)
      BY <2>1
    <3> QED BY <2>2, <3>1, EmptyText
  <2>4. published' \in [Session -> Nat]
    BY <2>2, <2>3, PublicationType
  <2>5. state' = "IDLE" /\ recognizer' = [Idle EXCEPT !.busy = recognizer.busy]
    BY <1>8 DEF OnResults
  <2>7. state' \in AssistantState /\ recognizer' \in Recognizer
    BY <2>5, RecognizerType
  <2>6. UNCHANGED <<lastError, micLevel, recording, cancelPending, main, sessions, loop,
                  pending, publishers, publishing, tts, heard, transcribed, cancelled, overlapped,
                  failed, spokenOver, late, wiped>>
    BY <1>8 DEF OnResults
  <2> QED BY <2>2, <2>3, <2>4, <2>6, <2>7
<1>9. CASE OnError
  <2>1. recognizer \in Recognizer /\ recognizer.busy \subseteq Session
    BY DEF Recognizer
  <2>5. \/ recognizer' = [Idle EXCEPT !.busy = recognizer.busy]
        \/ \E s \in recognizer.busy : recognizer' = [recognizer EXCEPT !.busy = @ \ {s}]
    BY <1>9 DEF OnError
  <2>2. recognizer' \in Recognizer
    BY <2>1, <2>5, RecognizerType
  <2>3. state' \in AssistantState /\ lastError' \in BOOLEAN
    BY <1>9 DEF OnError
  <2>4. UNCHANGED <<micLevel, partialText, finalResult, recording, cancelPending, main,
                  sessions, loop, pending, publishers, publishing, tts, heard, transcribed, published,
                  cancelled, overlapped, failed, spokenOver, late, wiped>>
    BY <1>9 DEF OnError
  <2> QED BY <2>2, <2>3, <2>4
<1>10. CASE Speak
  <2>1. recording => sessions \in Session
    BY DEF RecordInv, Session
  <2>2. state' \in AssistantState /\ spokenOver' \in SUBSET Session /\ tts' \in Engine
    BY <1>10, <2>1 DEF Speak, Engine
  <2>3. UNCHANGED <<lastError, micLevel, partialText, finalResult, recording, cancelPending,
                  main, sessions, loop, pending, publishers, publishing, recognizer, heard, transcribed,
                  published, cancelled, overlapped, failed, late, wiped>>
    BY <1>10 DEF Speak
  <2> QED BY <2>2, <2>3
<1>11. CASE OnTtsInit
  <2>1. /\ tts' \in Engine
    BY <1>11 DEF OnTtsInit, Engine
  <2>2. UNCHANGED <<state, lastError, micLevel, partialText, finalResult, recording,
                  cancelPending, main, sessions, loop, pending, publishers, publishing, recognizer,
                  heard, transcribed, published, cancelled, overlapped, failed,
                  spokenOver, late, wiped>>
    BY <1>11 DEF OnTtsInit
  <2> QED BY <2>1, <2>2
<1>12. CASE OnUtteranceEnd
  <2>1. /\ tts' \in Engine
        /\ state' \in AssistantState
    BY <1>12 DEF OnUtteranceEnd, Engine
  <2>2. UNCHANGED <<lastError, micLevel, partialText, finalResult, recording,
                  cancelPending, main, sessions, loop, pending, publishers, publishing, recognizer,
                  heard, transcribed, published, cancelled, overlapped, failed,
                  spokenOver, late, wiped>>
    BY <1>12 DEF OnUtteranceEnd
  <2> QED BY <2>1, <2>2
<1>13. CASE ConsumeError
  <2>1. /\ lastError' \in BOOLEAN
    BY <1>13 DEF ConsumeError
  <2>2. UNCHANGED <<state, micLevel, partialText, finalResult, recording, cancelPending,
                  main, sessions, loop, pending, publishers, publishing, recognizer, tts, heard,
                  transcribed, published, cancelled, overlapped, failed, spokenOver, late, wiped>>
    BY <1>13 DEF ConsumeError
  <2> QED BY <2>1, <2>2
<1>14. CASE ClearFinalResult
  <2>1. /\ partialText' \in Seq(Session)
        /\ finalResult' \in Seq(Session)
    BY <1>14 DEF ClearFinalResult, EmptyTranscript
  <2>3. wiped' \in SUBSET Session
    <3>1. {s \in 1..sessions : ~Settled(s) /\ Contains(partialText, s)} \subseteq Session
      BY DEF Session
    <3> QED BY <1>14, <3>1 DEF ClearFinalResult
  <2>2. UNCHANGED <<state, lastError, micLevel, recording, cancelPending, main, sessions,
                  loop, pending, publishers, publishing, recognizer, tts, heard, transcribed,
                  published, cancelled, overlapped, failed, spokenOver, late>>
    BY <1>14 DEF ClearFinalResult
  <2> QED BY <2>1, <2>2, <2>3
<1> QED BY <1>1, <1>2, <1>3, <1>4, <1>5, <1>6, <1>7, <1>8, <1>9, <1>10, <1>11, <1>12,
           <1>13, <1>14, <1>15 DEF Recognition

-----------------------------------------------------------------------------
(* Control: which session records, and which have settled.                  *)

ControlInv == FreshInv /\ RecordInv /\ OverlapInv

control == <<main, sessions, loop, recording, recognizer, publishers, publishing,
             overlapped, failed>>

(* A session is overlapped where an earlier one has not settled, or where   *)
(* neither it nor another one has.                                          *)
LEMMA EarlierOverlaps ==
  ASSUME TypeOK, OverlapInv, NEW s \in 1..(sessions - 1), ~Settled(s)
  PROVE  sessions \in overlapped /\ s \in overlapped
<1>1. sessions \in 1..sessions /\ s \in 1..(sessions - 1)
  BY DEF TypeOK
<1> QED BY <1>1 DEF OverlapInv

LEMMA BothOverlap ==
  ASSUME TypeOK, OverlapInv, NEW s \in 1..sessions, NEW t \in 1..sessions, s # t,
         ~Settled(s), ~Settled(t)
  PROVE  s \in overlapped /\ t \in overlapped
<1>1. s \in 1..(t - 1) \/ t \in 1..(s - 1)
  BY DEF TypeOK
<1> QED BY <1>1 DEF OverlapInv

LEMMA ControlKept ==
  ASSUME ControlInv, UNCHANGED control
  PROVE  ControlInv'
  BY DEF ControlInv, control, FreshInv, RecordInv, RefusedOnlyWhileDictating, OverlapInv,
         InLoop, Draining, InHand, Settled

(* Opening a dictation: the number is new, and whoever has not settled now  *)
(* makes it overlapped.                                                     *)
LEMMA OpeningControl ==
  ASSUME TypeOK, ControlInv, StartListening \/ OpenCapture \/ ShowListening \/ FallBack
  PROVE  ControlInv'
<1> USE DEF TypeOK, ControlInv, history, capture, publication, status, transcript, Session, Recognizer
<1>1. CASE StartListening
  <2>1. /\ main = "ready" /\ main' = "opening" /\ ~recording /\ sessions < MaxSessions
        /\ sessions' = sessions + 1
        /\ UNCHANGED <<recording, loop, publication, recognizer, failed>>
    BY <1>1 DEF StartListening
  <2>2. overlapped' = IF {s \in 1..sessions : ~Settled(s)} = {} THEN overlapped
                      ELSE overlapped \cup {s \in 1..sessions : ~Settled(s)} \cup {sessions + 1}
    BY <1>1 DEF StartListening
  <2>3. FreshInv'
    <3>1. /\ \A s \in Session : s > sessions' => loop'[s] = "none"
          /\ recognizer'.session <= sessions' /\ recognizer'.busy \subseteq 1..sessions'
      BY <2>1 DEF FreshInv
    <3>2. /\ loop[sessions + 1] = "none"
          /\ recognizer.session # sessions + 1 /\ sessions + 1 \notin recognizer.busy
      BY <2>1, SpeechAssumption DEF FreshInv
    <3> QED BY <2>1, <3>1, <3>2 DEF FreshInv
  <2>4. RecordInv'
    BY <2>1 DEF RecordInv, RefusedOnlyWhileDictating
  <2>5. \A s \in 1..sessions : Settled(s) => Settled(s)'
    BY <2>1 DEF Settled, InLoop, Draining, InHand
  <2>6. ASSUME NEW t \in 1..(sessions + 1), NEW s \in 1..(t - 1), ~Settled(s)
        PROVE  {s, t} \subseteq overlapped'
    <3>1. CASE t \in 1..sessions
      BY <2>2, <2>6, <3>1 DEF OverlapInv
    <3>2. CASE t = sessions + 1
      <4>1. s \in {u \in 1..sessions : ~Settled(u)}
        BY <2>6, <3>2
      <4> QED BY <2>2, <3>2, <4>1
    <3> QED BY <3>1, <3>2
  <2>7. \A t \in 1..(sessions + 1) : \A s \in 1..(t - 1) : s \in 1..sessions
    OBVIOUS
  <2>8. OverlapInv'
    BY <2>1, <2>5, <2>6, <2>7 DEF OverlapInv
  <2> QED BY <2>3, <2>4, <2>8
<1>2. CASE OpenCapture
  <2>1. /\ main = "opening" /\ main' = "opened" /\ recording' = TRUE
        /\ loop' = [loop EXCEPT ![sessions] = "reading"]
        /\ UNCHANGED <<sessions, publication, recognizer, failed, overlapped>>
    BY <1>2 DEF OpenCapture
  <2>2. sessions \in Session /\ recognizer.session # sessions
        /\ sessions \notin recognizer.busy
    BY <2>1 DEF FreshInv
  <2>3. FreshInv'
    BY <2>1, <2>2 DEF FreshInv
  <2>4. RecordInv'
    BY <2>1, <2>2 DEF RecordInv, RefusedOnlyWhileDictating, InLoop
  <2>5. \A t \in 1..sessions : \A s \in 1..(t - 1) : Settled(s) => Settled(s)'
    BY <2>1, <2>2 DEF Settled, InLoop, Draining, InHand
  <2>6. OverlapInv'
    BY <2>1, <2>5 DEF OverlapInv
  <2> QED BY <2>3, <2>4, <2>6
<1>3. CASE ShowListening
  <2>1. /\ main' = "ready"
        /\ UNCHANGED <<sessions, loop, recording, publication, recognizer, failed, overlapped>>
    BY <1>3 DEF ShowListening
  <2> QED
    BY <2>1 DEF FreshInv, RecordInv, RefusedOnlyWhileDictating, OverlapInv, InLoop, Draining,
                InHand, Settled
<1>4. CASE FallBack
  <2>1. /\ main = "opening" /\ main' = "ready"
        /\ UNCHANGED <<sessions, loop, recording, publication, failed, overlapped>>
    BY <1>4 DEF FallBack
  <2>2. /\ recognizer'.session \in {recognizer.session, sessions}
        /\ recognizer'.busy \subseteq recognizer.busy \cup {sessions}
    BY <1>4 DEF FallBack, Serve
  <2>3. ~recording /\ sessions # 0
    BY <2>1 DEF FreshInv
  <2>4. FreshInv'
    <3>1. recognizer'.phase # "off" => recognizer'.session # 0
      BY <1>4, <2>3 DEF FallBack, Serve, FreshInv
    <3> QED BY <2>1, <2>2, <2>3, <3>1 DEF FreshInv
  <2>5. RecordInv'
    BY <2>1, <2>3 DEF RecordInv, RefusedOnlyWhileDictating
  <2>6. \A t \in 1..sessions : \A s \in 1..(t - 1) : Settled(s) => Settled(s)'
    BY <2>1, <2>2 DEF Settled, InLoop, Draining, InHand
  <2>7. OverlapInv'
    BY <2>1, <2>6 DEF OverlapInv
  <2> QED BY <2>4, <2>5, <2>7
<1> QED BY <1>1, <1>2, <1>3, <1>4

(* A step of a capture loop: it stays a loop of a known session, and while  *)
(* it records it leaves its body only by throwing.                          *)
LEMMA LoopControl ==
  ASSUME TypeOK, ControlInv, NEW s \in Session, LoopStep(s) \/ Fail(s)
  PROVE  ControlInv'
<1> USE DEF TypeOK, ControlInv, history, capture, publication, status, transcript, Recognizer
<1>1. /\ loop[s] \in {"reading", "transcribing", "tail", "closing"}
      /\ \A t \in Session : t # s => loop'[t] = loop[t]
      /\ UNCHANGED <<recording, main, sessions, recognizer, overlapped>>
      /\ failed \subseteq failed'
  BY DEF LoopStep, Flush, SeeStop, Transcribed, Close, Fail, InLoop
<1>2. (publishers' = publishers \/ publishers' = Append(publishers, s)) /\ UNCHANGED publishing
  BY DEF LoopStep, Flush, SeeStop, Transcribed, Close, Fail, LaunchPublisher
<1>3. recording /\ s = sessions => InLoop(s)' \/ s \in failed'
  <2> SUFFICES ASSUME recording, s = sessions PROVE InLoop(s)' \/ s \in failed'
    OBVIOUS
  <2>1. InLoop(s) \/ s \in failed
    BY DEF RecordInv, RefusedOnlyWhileDictating
  <2>2. CASE Flush(s)
    BY <2>2 DEF Flush, InLoop
  <2>3. CASE SeeStop(s)
    BY <2>3 DEF SeeStop
  <2>4. CASE Transcribed(s)
    BY <2>1, <2>4 DEF Transcribed, AfterFlush, InLoop
  <2>5. CASE Close(s)
    BY <2>1, <2>5 DEF Close, InLoop
  <2>6. CASE Fail(s)
    BY <2>6 DEF Fail
  <2> QED BY <2>2, <2>3, <2>4, <2>5, <2>6 DEF LoopStep
<1>4. \A t \in Session : Settled(t) => Settled(t)'
  <2> SUFFICES ASSUME NEW t \in Session, Settled(t) PROVE Settled(t)'
    OBVIOUS
  <2>1. t # s
    BY <1>1 DEF Settled, InLoop, Draining, InHand
  <2>2. ~Contains(publishers', t)
    <3>1. ~Contains(publishers, t)
      BY DEF Settled
    <3>2. Contains(Append(publishers, s), t) => Contains(publishers, t) \/ t = s
      BY AppendContains
    <3> QED BY <1>2, <2>1, <3>1, <3>2
  <2> QED BY <1>1, <1>2, <2>1, <2>2 DEF Settled, InLoop, Draining, InHand
<1>5. s <= sessions
  BY <1>1 DEF FreshInv, Session
<1>6. FreshInv'
  <2>1. main # "opening" \/ s # sessions
    BY <1>1 DEF FreshInv
  <2>2. main = "opening" => sessions \in Session
    BY DEF FreshInv, Session
  <2> QED BY <1>1, <1>5, <2>1, <2>2 DEF FreshInv, Session
<1>7. RecordInv'
  <2>1. recording => sessions \in Session
    BY DEF RecordInv, Session
  <2> QED BY <1>1, <1>3, <2>1 DEF RecordInv, RefusedOnlyWhileDictating, InLoop
<1>8. OverlapInv'
  <2>1. \A t \in 1..sessions : \A u \in 1..(t - 1) : u \in Session
    BY SpeechAssumption DEF Session
  <2> QED BY <1>1, <1>4, <2>1 DEF OverlapInv
<1> QED BY <1>6, <1>7, <1>8

(* Stopping and publishing only let sessions settle, and so do the          *)
(* platform engine's callbacks.                                             *)
LEMMA SettlingControl ==
  ASSUME TypeOK, ControlInv,
         \/ WakePublisher \/ (\E p \in publishing : Publish(p))
         \/ StopListening \/ CancelListening
         \/ OnReadyForSpeech \/ OnEndOfSpeech \/ OnResults \/ OnError
  PROVE  ControlInv'
<1> USE DEF TypeOK, ControlInv, history, capture, publication, status, transcript, Recognizer
<1>1. /\ UNCHANGED <<main, sessions, loop, overlapped, failed>>
      /\ recording' => recording
      /\ main = "opened" => recording' = recording
  BY DEF WakePublisher, Publish, StopListening, CancelListening, StopEngine, OnReadyForSpeech,
         OnEndOfSpeech, OnResults, OnError
<1>2. \A s : Contains(publishers', s) \/ InHand(s)' => Contains(publishers, s) \/ InHand(s)
  <2>1. CASE WakePublisher
    <3>1. \A s : Contains(publishers', s) => Contains(publishers, s)
      BY <2>1, TailContains DEF WakePublisher
    <3>2. publishers # <<>> /\ publishers \in Seq(Session)
      BY <2>1 DEF WakePublisher
    <3>6. Head(publishers) = publishers[1] /\ 1 \in 1..Len(publishers)
      BY <3>2
    <3>3. Contains(publishers, Head(publishers))
      BY <3>6 DEF Contains
    <3>5. \A p \in publishing' : \/ p \in publishing
                                \/ p = [session |-> Head(publishers), text |-> partialText]
      BY <2>1 DEF WakePublisher
    <3>4. \A s : InHand(s)' => InHand(s) \/ s = Head(publishers)
      BY <3>5 DEF InHand
    <3> QED BY <3>1, <3>3, <3>4
  <2>2. ASSUME NEW p \in publishing, Publish(p)
        PROVE  UNCHANGED publishers /\ publishing' \subseteq publishing
    BY <2>2 DEF Publish
  <2>3. CASE \E p \in publishing : Publish(p)
    BY <2>2, <2>3 DEF InHand
  <2>4. CASE StopListening \/ CancelListening \/ OnReadyForSpeech \/ OnEndOfSpeech
             \/ OnResults \/ OnError
    <3>1. UNCHANGED <<publishers, publishing>>
      BY <2>4 DEF StopListening, CancelListening, OnReadyForSpeech, OnEndOfSpeech, OnResults,
                  OnError
    <3> QED BY <3>1 DEF InHand
  <2> QED BY <2>1, <2>3, <2>4
<1>3. /\ recognizer'.session \in {recognizer.session, 0}
      /\ recognizer'.busy \subseteq recognizer.busy
      /\ recognizer'.phase # "off" => recognizer.phase # "off"
                                      /\ recognizer'.session = recognizer.session
  BY DEF WakePublisher, Publish, StopListening, CancelListening, StopEngine, OnReadyForSpeech,
         OnEndOfSpeech, OnResults, OnError, Idle, Callback
<1>4. FreshInv'
  <2>1. /\ \A s \in Session : s > sessions => loop'[s] = "none"
        /\ recognizer'.session <= sessions /\ recognizer'.busy \subseteq 1..sessions
        /\ recognizer'.session # 0 => loop'[recognizer'.session] = "none"
    BY <1>1, <1>3 DEF FreshInv
  <2>2. /\ recognizer'.phase # "off" => recognizer'.session # 0
        /\ main # "ready" => sessions # 0
        /\ main = "opening" => /\ ~recording' /\ loop[sessions] = "none"
                               /\ recognizer'.session # sessions
                               /\ sessions \notin recognizer'.busy
        /\ main = "opened" => recording'
    BY <1>1, <1>3 DEF FreshInv
  <2> QED BY <1>1, <2>1, <2>2 DEF FreshInv
<1>5. RecordInv'
  BY <1>1, <1>3 DEF RecordInv, RefusedOnlyWhileDictating, InLoop
<1>6. \A t \in 1..sessions : \A s \in 1..(t - 1) : Settled(s) => Settled(s)'
  BY <1>1, <1>2, <1>3 DEF Settled, InLoop, Draining
<1>7. OverlapInv'
  BY <1>1, <1>6 DEF OverlapInv
<1> QED BY <1>4, <1>5, <1>7

-----------------------------------------------------------------------------
(* What the screens show.                                                   *)

(* A step that leaves the session and its excuses alone and shows either    *)
(* what was shown or a dictation keeps a recording shown.                   *)
LEMMA ShownKept ==
  ASSUME RecordingIsShown,
         recording' => recording, main' = main, sessions' = sessions,
         overlapped' = overlapped, failed \subseteq failed', spokenOver \subseteq spokenOver',
         state' = state \/ state' \in {"LISTENING", "THINKING"} \/ ~Dictating
  PROVE  RecordingIsShown'
  BY DEF RecordingIsShown, Dictating

LEMMA MainShown ==
  ASSUME TypeOK, ControlInv, RecordingIsShown,
         StartDenied \/ StartListening \/ OpenCapture \/ ShowListening \/ FallBack
  PROVE  RecordingIsShown'
<1> USE DEF history, capture, publication, status, transcript
<1>1. CASE StartDenied
  BY <1>1, ShownKept DEF StartDenied
<1>2. CASE StartListening
  BY <1>2 DEF StartListening, RecordingIsShown
<1>3. CASE OpenCapture
  BY <1>3 DEF OpenCapture, RecordingIsShown
<1>4. CASE ShowListening
  BY <1>4 DEF ShowListening, RecordingIsShown, Dictating
<1>5. CASE FallBack
  <2>1. recording' = FALSE
    BY <1>5 DEF FallBack, ControlInv, FreshInv, TypeOK
  <2> QED BY <2>1 DEF RecordingIsShown
<1> QED BY <1>1, <1>2, <1>3, <1>4, <1>5

(* A loop that closes while another session records is an older one, and    *)
(* had not settled: the session that records is overlapped.                 *)
LEMMA LoopShown ==
  ASSUME TypeOK, ControlInv, RecordingIsShown, NEW s \in Session,
         Hear(s) \/ LoopStep(s) \/ Fail(s)
  PROVE  RecordingIsShown'
<1> USE DEF history, capture, publication, status, transcript
<1>1. CASE Hear(s)
  BY <1>1, ShownKept DEF Hear
<1>2. CASE Flush(s)
  BY <1>2, ShownKept DEF Flush
<1>3. CASE SeeStop(s)
  BY <1>3, ShownKept DEF SeeStop
<1>4. CASE Transcribed(s)
  BY <1>4, ShownKept DEF Transcribed, StateAfterFlush
<1>5. CASE Close(s)
  <2> SUFFICES ASSUME recording PROVE sessions \in failed \cup overlapped
    BY <1>5 DEF Close, RecordingIsShown
  <2>1. CASE s = sessions
    BY <1>5, <2>1 DEF Close, ControlInv, RecordInv, RefusedOnlyWhileDictating, InLoop
  <2>2. CASE s # sessions
    <3>1. s <= sessions
      BY <1>5 DEF Close, ControlInv, FreshInv, TypeOK, Session
    <3>2. s \in 1..(sessions - 1)
      BY <2>2, <3>1 DEF TypeOK, Session
    <3>3. ~Settled(s)
      BY <1>5 DEF Close, Settled, Draining
    <3> QED BY <3>2, <3>3, EarlierOverlaps DEF ControlInv
  <2> QED BY <2>1, <2>2
<1>6. CASE Fail(s)
  BY <1>6, ShownKept DEF Fail
<1> QED BY <1>1, <1>2, <1>3, <1>4, <1>5, <1>6 DEF LoopStep

(* A callback about a session while another one records is about an older   *)
(* session, which had not settled.                                          *)
LEMMA RecognitionShown ==
  ASSUME TypeOK, ControlInv, RecordingIsShown, Recognition
  PROVE  RecordingIsShown'
<1> USE DEF history, capture, publication, status, transcript
<1>1. CASE OnReadyForSpeech
  BY <1>1, ShownKept DEF OnReadyForSpeech
<1>2. CASE OnRmsChanged
  BY <1>2, ShownKept DEF OnRmsChanged
<1>3. CASE OnPartialResults
  BY <1>3, ShownKept DEF OnPartialResults
<1>4. CASE OnEndOfSpeech
  BY <1>4, ShownKept DEF OnEndOfSpeech
<1>5. CASE OnResults \/ OnError
  <2>1. UNCHANGED <<recording, main, sessions, overlapped, failed, spokenOver>>
    BY <1>5 DEF OnResults, OnError
  <2> SUFFICES ASSUME recording PROVE sessions \in overlapped
    BY <2>1 DEF RecordingIsShown
  <2>2. PICK s \in 1..sessions : recognizer.session = s \/ s \in recognizer.busy
    <3>1. recognizer.busy \subseteq 1..sessions
      BY DEF ControlInv, FreshInv
    <3>2. recognizer.phase # "off" => recognizer.session \in 1..sessions
      BY SpeechAssumption DEF TypeOK, ControlInv, FreshInv, Recognizer
    <3>3. recognizer.phase # "off" \/ \E s \in recognizer.busy : TRUE
      BY <1>5 DEF OnResults, OnError, Callback
    <3> QED BY <3>1, <3>2, <3>3
  <2>3. s # sessions
    BY <2>2 DEF ControlInv, RecordInv
  <2>4. s \in 1..(sessions - 1) /\ ~Settled(s)
    BY <2>2, <2>3 DEF Settled, TypeOK
  <2> QED BY <2>4, EarlierOverlaps DEF ControlInv
<1> QED BY <1>1, <1>2, <1>3, <1>4, <1>5 DEF Recognition

LEMMA OtherShown ==
  ASSUME TypeOK, RecordingIsShown,
         \/ WakePublisher \/ (\E p \in publishing : Publish(p))
         \/ StopListening \/ CancelListening
         \/ Speak \/ OnTtsInit \/ OnUtteranceEnd \/ ConsumeError \/ ClearFinalResult
  PROVE  RecordingIsShown'
<1> USE DEF history, capture, publication, status, transcript
<1>1. CASE WakePublisher \/ (\E p \in publishing : Publish(p))
  BY <1>1, ShownKept DEF WakePublisher, Publish
<1>2. CASE StopListening \/ CancelListening
  <2>1. recording' = FALSE
    BY <1>2 DEF StopListening, CancelListening, StopEngine, TypeOK
  <2> QED BY <2>1 DEF RecordingIsShown
<1>3. CASE Speak
  BY <1>3 DEF Speak, RecordingIsShown
<1>4. CASE OnTtsInit
  BY <1>4, ShownKept DEF OnTtsInit
<1>5. CASE OnUtteranceEnd
  BY <1>5, ShownKept DEF OnUtteranceEnd, Dictating
<1>6. CASE ConsumeError
  BY <1>6, ShownKept DEF ConsumeError
<1>7. CASE ClearFinalResult
  BY <1>7, ShownKept DEF ClearFinalResult
<1> QED BY <1>1, <1>2, <1>3, <1>4, <1>5, <1>6, <1>7

-----------------------------------------------------------------------------
(* When the state settles.                                                  *)

(* A step that neither launches a publisher nor shows a dictation, and      *)
(* leaves the loops of the publishers' sessions alone.                      *)
LEMMA PublisherKept ==
  ASSUME TypeOK, PublisherInv, UNCHANGED <<publishers, publishing>>,
         \A s \in Session : Delivering(s) => loop'[s] = loop[s],
         overlapped \subseteq overlapped', failed \subseteq failed',
         Dictating' =>
           Dictating \/ \A s \in Session : Delivering(s) => s \in overlapped' \cup failed'
  PROVE  PublisherInv'
<1>1. \A s : (Delivering(s)' <=> Delivering(s)) /\ (InHand(s)' <=> InHand(s))
  BY DEF Delivering, InHand
<1>2. ASSUME NEW s \in Session, Delivering(s)'
      PROVE  loop'[s] = "done" /\ (Dictating' => s \in overlapped' \cup failed')
  BY <1>1, <1>2 DEF PublisherInv
<1> QED BY <1>1, <1>2 DEF PublisherInv

(* Where another session has not settled, the session of a publisher is     *)
(* overlapped.                                                              *)
LEMMA PublisherOverlaps ==
  ASSUME TypeOK, ControlInv, PublisherInv, NEW t \in 1..sessions, ~Settled(t),
         loop[t] # "done", NEW s \in Session, Delivering(s)
  PROVE  s \in overlapped
<1>1. loop[s] = "done" /\ ~Settled(s)
  BY DEF PublisherInv, Delivering, Settled
<1>2. s \in 1..sessions
  BY <1>1 DEF ControlInv, FreshInv, TypeOK, Session
<1> QED BY <1>1, <1>2, BothOverlap DEF ControlInv

LEMMA LoopStarted ==
  ASSUME TypeOK, ControlInv, NEW s \in Session, loop[s] # "none"
  PROVE  s \in 1..sessions
  BY DEF ControlInv, FreshInv, TypeOK, Session

LEMMA LoopPublishers ==
  ASSUME TypeOK, ControlInv, PublisherInv, NEW t \in Session, LoopStep(t) \/ Fail(t)
  PROVE  PublisherInv'
<1> USE DEF history, capture, publication, status, transcript
<1>1. /\ loop[t] \in {"reading", "transcribing", "tail", "closing"}
      /\ \A s \in Session : s # t => loop'[s] = loop[s]
      /\ UNCHANGED <<overlapped, main, recording>>
      /\ failed \subseteq failed'
  BY DEF LoopStep, Flush, SeeStop, Transcribed, Close, Fail, InLoop, TypeOK
<1>2. ~Delivering(t)
  BY <1>1 DEF PublisherInv
<1>3. \A s \in Session : Delivering(s) => s \in overlapped
  <2>1. t \in 1..sessions
    BY <1>1, LoopStarted
  <2>2. ~Settled(t) /\ loop[t] # "done"
    BY <1>1 DEF Settled, InLoop, Draining
  <2> QED BY <2>1, <2>2, PublisherOverlaps
<1>4. CASE ~Close(t)
  <2>1. UNCHANGED <<publishers, publishing>>
    BY <1>4 DEF LoopStep, Flush, SeeStop, Transcribed, Fail
  <2> QED BY <1>1, <1>2, <1>3, <2>1, PublisherKept
<1>5. CASE Close(t)
  <2>1. publishers' = Append(publishers, t) /\ loop'[t] = "done" /\ UNCHANGED publishing
    BY <1>5 DEF Close, LaunchPublisher, TypeOK
  <2>6. \A s : InHand(s)' <=> InHand(s)
    BY <2>1 DEF InHand
  <2>2. ~Dictating'
    BY <1>5 DEF Close, Settle, Dictating
  <2>3. publishers \in Seq(Session) /\ Len(publishers) \in Nat
    BY DEF TypeOK
  <2>7. ASSUME NEW s \in Session, Contains(publishers', s)
        PROVE  Contains(publishers, s) \/ s = t
    BY <2>1, <2>3, <2>7, AppendContains
  <2>4. ASSUME NEW s \in Session, Delivering(s)' PROVE loop'[s] = "done"
    <3>1. Delivering(s) \/ s = t
      BY <2>4, <2>6, <2>7 DEF Delivering
    <3> QED BY <1>1, <2>1, <3>1 DEF PublisherInv
  <2>8. \A s \in Session : ~(Contains(publishers', s) /\ InHand(s)')
    BY <1>2, <2>6, <2>7 DEF PublisherInv, Delivering
  <2>5. ASSUME NEW i \in 1..Len(publishers'), NEW j \in 1..Len(publishers'),
               publishers'[i] = publishers'[j]
        PROVE  i = j
    <3>1. \A k \in 1..Len(publishers') :
            \/ k \in 1..Len(publishers) /\ publishers'[k] = publishers[k] /\ publishers[k] # t
            \/ k = Len(publishers) + 1 /\ publishers'[k] = t
      BY <1>2, <2>1, <2>3 DEF Contains, Delivering
    <3> QED BY <2>5, <3>1 DEF PublisherInv
  <2> QED BY <2>1, <2>2, <2>4, <2>5, <2>8 DEF PublisherInv
<1> QED BY <1>4, <1>5

LEMMA OpeningPublishers ==
  ASSUME TypeOK, ControlInv, PublisherInv,
         StartListening \/ OpenCapture \/ ShowListening \/ FallBack
  PROVE  PublisherInv'
<1> USE DEF history, capture, publication, status, transcript
<1>1. CASE StartListening
  <2>1. UNCHANGED <<publishers, publishing, loop, failed>> /\ overlapped \subseteq overlapped'
    BY <1>1 DEF StartListening
  <2>2. Dictating' => Dictating
    BY <1>1 DEF StartListening, Dictating
  <2> QED BY <2>1, <2>2, PublisherKept
<1>2. CASE OpenCapture
  <2>1. loop[sessions] = "none" /\ loop' = [loop EXCEPT ![sessions] = "reading"]
    BY <1>2 DEF OpenCapture, ControlInv, FreshInv
  <2>2. \A s \in Session : Delivering(s) => loop'[s] = loop[s]
    BY <2>1 DEF PublisherInv, TypeOK
  <2>3. UNCHANGED <<publishers, publishing, overlapped, failed, state>>
    BY <1>2 DEF OpenCapture
  <2> QED BY <2>2, <2>3, PublisherKept DEF Dictating
<1>3. CASE ShowListening \/ FallBack
  <2>1. UNCHANGED <<publishers, publishing, loop, overlapped, failed>>
    BY <1>3 DEF ShowListening, FallBack
  <2>2. ASSUME NEW s \in Session, Delivering(s) PROVE s \in overlapped \cup failed
    <3>1. loop[s] = "done" /\ ~Settled(s)
      BY <2>2 DEF PublisherInv, Delivering, Settled
    <3>2. s \in 1..sessions
      BY <3>1, LoopStarted
    <3>3. CASE s # sessions
      <4>1. s \in 1..(sessions - 1)
        BY <3>2, <3>3 DEF TypeOK
      <4> QED BY <3>1, <4>1, EarlierOverlaps DEF ControlInv
    <3>4. CASE s = sessions
      BY <1>3, <3>1, <3>4 DEF ShowListening, FallBack, ControlInv, FreshInv, RecordInv,
         RefusedOnlyWhileDictating, InLoop
    <3> QED BY <3>3, <3>4
  <2> QED BY <2>1, <2>2, PublisherKept
<1> QED BY <1>1, <1>2, <1>3

LEMMA RecognitionPublishers ==
  ASSUME TypeOK, ControlInv, PublisherInv, Recognition
  PROVE  PublisherInv'
<1> USE DEF history, capture, publication, status, transcript
<1>1. UNCHANGED <<publishers, publishing, loop, overlapped, failed>>
  BY DEF Recognition, OnReadyForSpeech, OnRmsChanged, OnPartialResults, OnEndOfSpeech,
         OnResults, OnError
<1>2. CASE OnReadyForSpeech \/ OnEndOfSpeech
  <2>1. recognizer.phase # "off"
    BY <1>2 DEF OnReadyForSpeech, OnEndOfSpeech, Callback
  <2>2. recognizer.session \in 1..sessions /\ loop[recognizer.session] = "none"
    BY <2>1, SpeechAssumption DEF ControlInv, FreshInv, TypeOK, Recognizer
  <2>3. ~Settled(recognizer.session)
    BY DEF Settled
  <2>4. \A s \in Session : Delivering(s) => s \in overlapped
    BY <2>2, <2>3, PublisherOverlaps
  <2> QED BY <1>1, <2>4, PublisherKept
<1>3. CASE OnRmsChanged \/ OnPartialResults \/ OnResults \/ OnError
  <2>1. Dictating' => Dictating
    BY <1>3 DEF OnRmsChanged, OnPartialResults, OnResults, OnError, Dictating
  <2> QED BY <1>1, <2>1, PublisherKept
<1> QED BY <1>2, <1>3 DEF Recognition

(* A publisher that wakes leaves the queue, with the text or without.       *)
LEMMA WakePublishers ==
  ASSUME TypeOK, PublisherInv, WakePublisher
  PROVE  /\ Contains(publishers, Head(publishers)) /\ ~Contains(publishers', Head(publishers))
         /\ Head(publishers) \in Session
         /\ \A s : Contains(publishers', s) => Contains(publishers, s)
         /\ PublisherInv'
<1> DEFINE h == Head(publishers)
<1>1. /\ publishers # <<>> /\ publishers' = Tail(publishers) /\ publishers \in Seq(Session)
      /\ publishing' \subseteq publishing \cup {[session |-> h, text |-> partialText]}
      /\ UNCHANGED <<loop, overlapped, failed, state>>
  BY DEF WakePublisher, TypeOK, history, capture, status
<1>2. h \in Session /\ \A s : Contains(publishers', s) => Contains(publishers, s)
  BY <1>1, TailContains
<1>3. h = publishers[1] /\ 1 \in 1..Len(publishers)
  BY <1>1
<1>4. \A i \in 1..Len(publishers') : i + 1 \in 1..Len(publishers) /\ publishers'[i] = publishers[i + 1]
  BY <1>1
<1>5. Contains(publishers, h) /\ ~Contains(publishers', h)
  <2>1. \A i \in 1..Len(publishers') : i + 1 # 1
    BY <1>1
  <2>2. \A i \in 1..Len(publishers') : publishers'[i] # h
    BY <1>3, <1>4, <2>1 DEF PublisherInv
  <2> QED BY <1>3, <2>2 DEF Contains
<1>6. ~InHand(h)
  BY <1>2, <1>5 DEF PublisherInv
<1>7. \A p \in publishing' : p \in publishing \/ p = [session |-> h, text |-> partialText]
  BY <1>1
<1>8. \A s : InHand(s)' => InHand(s) \/ s = h
  BY <1>7 DEF InHand
<1>9. \A p, q \in publishing' : p.session = q.session => p = q
  <2>1. \A p \in publishing : p.session # h
    BY <1>6 DEF InHand
  <2> QED BY <1>7, <2>1 DEF PublisherInv
<1>10. \A s \in Session : ~(Contains(publishers', s) /\ InHand(s)')
  BY <1>2, <1>5, <1>8 DEF PublisherInv
<1>11. ASSUME NEW i \in 1..Len(publishers'), NEW j \in 1..Len(publishers'),
              publishers'[i] = publishers'[j]
       PROVE  i = j
  <2>1. i + 1 = j + 1
    BY <1>4, <1>11 DEF PublisherInv
  <2> QED BY <1>1, <2>1
<1>12. \A s \in Session : Delivering(s)' => Delivering(s)
  BY <1>2, <1>5, <1>8 DEF Delivering
<1>13. Dictating' <=> Dictating
  BY <1>1 DEF Dictating
<1>14. PublisherInv'
  BY <1>1, <1>9, <1>10, <1>11, <1>12, <1>13 DEF PublisherInv
<1> QED BY <1>2, <1>5, <1>14

LEMMA OtherPublishers ==
  ASSUME TypeOK, PublisherInv,
         \/ StartDenied \/ StopListening \/ CancelListening
         \/ (\E p \in publishing : Publish(p))
         \/ Speak \/ OnTtsInit \/ OnUtteranceEnd \/ ConsumeError \/ ClearFinalResult
         \/ (\E s \in Session : Hear(s)) \/ UNCHANGED vars
  PROVE  PublisherInv'
<1> USE DEF history, capture, publication, status, transcript
<1>1. UNCHANGED <<loop, overlapped, failed, publishers>> /\ publishing' \subseteq publishing
  BY DEF StartDenied, StopListening, CancelListening, Publish, Speak, OnTtsInit,
         OnUtteranceEnd, ConsumeError, ClearFinalResult, Hear, vars
<1>2. Dictating' => Dictating
  BY DEF StartDenied, StopListening, CancelListening, Publish, Speak, OnTtsInit,
         OnUtteranceEnd, ConsumeError, ClearFinalResult, Hear, vars, Dictating, Settle
<1>3. \A s : (InHand(s)' => InHand(s)) /\ (Delivering(s)' => Delivering(s))
  BY <1>1 DEF InHand, Delivering
<1>4. \A s \in Session : ~(Contains(publishers', s) /\ InHand(s)')
  BY <1>1, <1>3 DEF PublisherInv
<1>5. \A p, q \in publishing' : p.session = q.session => p = q
  BY <1>1 DEF PublisherInv
<1>6. \A s \in Session : Delivering(s)' =>
        loop'[s] = "done" /\ (Dictating' => s \in overlapped' \cup failed')
  BY <1>1, <1>2, <1>3 DEF PublisherInv
<1> QED BY <1>1, <1>4, <1>5, <1>6 DEF PublisherInv

LEMMA PublisherStep ==
  ASSUME TypeOK, ControlInv, PublisherInv, [Next]_vars
  PROVE  PublisherInv'
  BY LoopPublishers, OpeningPublishers, RecognitionPublishers, WakePublishers, OtherPublishers
     DEF Next

-----------------------------------------------------------------------------
(* Whose utterances the texts hold.                                         *)

LEMMA NoOccurrence ==
  ASSUME NEW text \in Seq(Session), NEW s, ~Contains(text, s)
  PROVE  Occurrences(text, s) = 0
<1>1. {i \in DOMAIN text : text[i] = s} = {}
  BY DEF Contains
<1> QED BY <1>1, FS_EmptySet DEF Occurrences

LEMMA OneMoreOccurrence ==
  ASSUME NEW text \in Seq(Session), NEW t \in Session
  PROVE  Occurrences(Append(text, t), t) = Occurrences(text, t) + 1
<1> DEFINE Places == {i \in DOMAIN text : text[i] = t}
<1>1. Len(text) \in Nat /\ DOMAIN text = 1..Len(text) /\ IsFiniteSet(1..Len(text))
  BY FS_Interval
<1>2. IsFiniteSet(Places) /\ Len(text) + 1 \notin Places
  BY <1>1, FS_Subset
<1>3. {i \in DOMAIN Append(text, t) : Append(text, t)[i] = t} = Places \cup {Len(text) + 1}
  BY <1>1
<1>4. Cardinality(Places \cup {Len(text) + 1}) = Cardinality(Places) + 1
  BY <1>2, FS_AddElement
<1> QED BY <1>3, <1>4 DEF Occurrences

LEMMA SameOccurrences ==
  ASSUME NEW text \in Seq(Session), NEW t \in Session, NEW s, s # t
  PROVE  Occurrences(Append(text, t), s) = Occurrences(text, s)
<1>1. {i \in DOMAIN Append(text, t) : Append(text, t)[i] = s} = {i \in DOMAIN text : text[i] = s}
  OBVIOUS
<1> QED BY <1>1 DEF Occurrences

LEMMA NobodySpoke == \A s : ~Contains(<<>>, s)
  BY DEF Contains

(* A session that is known to nobody has nothing in the texts.              *)
Unheard(s) == s > sessions \/ (s = sessions /\ main = "opening")

(* A step that leaves the texts and the counts alone, and after which no    *)
(* session is under way that was not before.                                *)
LEMMA TextKept ==
  ASSUME TypeOK, TextInv,
         UNCHANGED <<transcript, transcribed, published, publishing, cancelled, cancelPending,
                     sessions, late>>,
         overlapped \subseteq overlapped', main' = "opening" => main = "opening",
         \A s \in Session : /\ loop'[s] # "none" => loop[s] # "none"
                            /\ Underway(s)' => Underway(s)
  PROVE  TextInv'
<1> USE DEF transcript
<1>1. ASSUME NEW s \in Session, Unheard(s)'
      PROVE  /\ ~Contains(partialText', s) /\ published'[s] = 0 /\ s \notin cancelled'
             /\ \A p \in publishing' : ~Contains(p.text, s)
  BY <1>1 DEF TextInv, Unheard
<1>2. ASSUME NEW s \in Session, loop'[s] # "none", s \notin overlapped'
      PROVE  PublishedRight(s)' /\ CancelledRight(s)'
  <2>1. PublishedRight(s) /\ CancelledRight(s) /\ (Underway(s)' => Underway(s))
    BY <1>2 DEF TextInv
  <2>2. PublishedRight(s)'
    BY <2>1 DEF PublishedRight, InHand
  <2>3. CancelledRight(s)'
    BY <2>1 DEF CancelledRight
  <2> QED BY <2>2, <2>3
<1> QED BY <1>1, <1>2 DEF TextInv, Unheard

(* Emptying the texts is always right; and a cancel is right because it     *)
(* raises the flag for everything under way.                                *)
LEMMA TextEmptied ==
  ASSUME TypeOK, TextInv, EmptyTranscript,
         UNCHANGED <<transcribed, published, loop, publishers, publishing, main, sessions,
                     overlapped>>,
         \/ UNCHANGED <<cancelled, cancelPending, late>>
         \/ /\ cancelPending' = TRUE /\ main = "ready" /\ cancelled' = cancelled \cup 1..sessions
            /\ late' = late \cup {s \in Session : \E p \in publishing : Contains(p.text, s)}
  PROVE  TextInv'
<1>1. /\ partialText' = <<>> /\ finalResult' = <<>>
      /\ \A s : ~Contains(partialText', s) /\ ~Contains(finalResult', s)
  BY NobodySpoke DEF EmptyTranscript
<1>2. ASSUME NEW s \in Session, Unheard(s)'
      PROVE  published'[s] = 0 /\ s \notin cancelled' /\ \A p \in publishing' : ~Contains(p.text, s)
  <2>1. /\ published[s] = 0 /\ s \notin cancelled /\ Unheard(s)
        /\ \A p \in publishing : ~Contains(p.text, s)
    BY <1>2 DEF TextInv, Unheard
  <2> QED BY <2>1 DEF Unheard, TypeOK, Session
<1>3. ASSUME NEW s \in Session, loop'[s] # "none", s \notin overlapped'
      PROVE  PublishedRight(s)' /\ CancelledRight(s)'
  <2>1. PublishedRight(s) /\ CancelledRight(s) /\ (Underway(s)' <=> Underway(s))
    BY <1>3 DEF TextInv, Underway, InLoop, Draining
  <2>2. Occurrences(partialText', s) = 0 /\ transcribed[s] \in Nat
    BY <1>1, EmptyText, NoOccurrence DEF TypeOK
  <2>5. InHand(s)' <=> InHand(s)
    BY DEF InHand
  <2>3. PublishedRight(s)'
    BY <1>1, <2>1, <2>2, <2>5 DEF PublishedRight
  <2>6. s \in cancelled' => \A p \in publishing : Contains(p.text, s) => s \in late'
    BY <2>1 DEF CancelledRight
  <2>4. CancelledRight(s)'
    BY <1>1, <2>1, <2>6 DEF CancelledRight
  <2> QED BY <2>3, <2>4
<1> QED BY <1>1, <1>2, <1>3 DEF TextInv, Unheard

(* A session that starts finds the texts empty and the flag down; whoever   *)
(* is under way is overlapped from now on.                                  *)
LEMMA StartText ==
  ASSUME TypeOK, ControlInv, TextInv, StartListening
  PROVE  TextInv'
<1> USE DEF history, capture, publication, status
<1>1. /\ partialText' = <<>> /\ finalResult' = <<>> /\ sessions' = sessions + 1
      /\ \A s : ~Contains(partialText', s) /\ ~Contains(finalResult', s)
      /\ UNCHANGED <<transcribed, published, loop, publishers, publishing, recognizer,
                     cancelled, late>>
      /\ overlapped \cup {s \in 1..sessions : ~Settled(s)} \subseteq overlapped'
  BY NobodySpoke DEF StartListening, EmptyTranscript
<1>2. ASSUME NEW s \in Session, Unheard(s)'
      PROVE  published'[s] = 0 /\ s \notin cancelled' /\ \A p \in publishing' : ~Contains(p.text, s)
  <2>1. s > sessions
    BY <1>1, <1>2 DEF Unheard, TypeOK, Session
  <2> QED BY <1>1, <2>1 DEF TextInv
<1>3. ASSUME NEW s \in Session, loop'[s] # "none", s \notin overlapped'
      PROVE  PublishedRight(s)' /\ CancelledRight(s)'
  <2>1. PublishedRight(s) /\ CancelledRight(s) /\ s \in 1..sessions
    BY <1>1, <1>3, LoopStarted DEF TextInv
  <2>2. Settled(s)
    BY <1>1, <1>3, <2>1
  <2>3. ~Underway(s)' /\ ~InHand(s)'
    BY <1>1, <2>2 DEF Settled, Underway, InLoop, Draining, InHand
  <2>4. Occurrences(partialText', s) = 0 /\ transcribed[s] \in Nat
    BY <1>1, EmptyText, NoOccurrence DEF TypeOK
  <2> QED BY <1>1, <2>1, <2>3, <2>4 DEF PublishedRight, CancelledRight
<1> QED BY <1>1, <1>2, <1>3 DEF TextInv, Unheard

LEMMA OpenText ==
  ASSUME TypeOK, ControlInv, PublisherInv, TextInv, OpenCapture
  PROVE  TextInv'
<1> USE DEF history, capture, publication, status, transcript
<1>1. /\ main = "opening" /\ main' = "opened" /\ loop' = [loop EXCEPT ![sessions] = "reading"]
      /\ UNCHANGED <<partialText, finalResult, transcribed, published, cancelled, cancelPending,
                     publishers, publishing, sessions, overlapped, late>>
  BY DEF OpenCapture
<1>2. ASSUME NEW s \in Session, Unheard(s)'
      PROVE  /\ ~Contains(partialText', s) /\ published'[s] = 0 /\ s \notin cancelled'
             /\ \A p \in publishing' : ~Contains(p.text, s)
  BY <1>1, <1>2 DEF TextInv, Unheard
<1>3. ASSUME NEW s \in Session, loop'[s] # "none", s \notin overlapped'
      PROVE  PublishedRight(s)' /\ CancelledRight(s)'
  <2>1. CASE s = sessions
    <3>1. /\ ~Contains(partialText, s) /\ published[s] = 0 /\ s \notin cancelled
          /\ \A p \in publishing : ~Contains(p.text, s)
      BY <1>1, <2>1 DEF TextInv
    <3>2. Occurrences(partialText, s) = 0 /\ transcribed[s] \in Nat
      BY <3>1, NoOccurrence DEF TypeOK
    <3>3. \A p \in publishing : p.text \in Seq(Session) /\ Occurrences(p.text, s) = 0
      BY <3>1, NoOccurrence DEF TypeOK
    <3> QED BY <1>1, <3>1, <3>2, <3>3 DEF PublishedRight, CancelledRight
  <2>2. CASE s # sessions
    <3>1. loop'[s] = loop[s]
      BY <1>1, <2>2 DEF TypeOK
    <3>2. PublishedRight(s) /\ CancelledRight(s)
      BY <1>1, <1>3, <3>1 DEF TextInv
    <3>3. (Underway(s)' <=> Underway(s)) /\ (InHand(s)' <=> InHand(s))
      BY <1>1, <3>1 DEF Underway, InLoop, Draining, InHand
    <3> QED BY <1>1, <3>2, <3>3 DEF PublishedRight, CancelledRight
  <2> QED BY <2>1, <2>2
<1> QED BY <1>2, <1>3 DEF TextInv, Unheard

(* What a loop adds to the live text is counted before it is published, and *)
(* nobody is publishing it: a loop is under way only in the last session,   *)
(* or in one that is overlapped.                                            *)
LEMMA TranscribedText ==
  ASSUME TypeOK, ControlInv, TextInv, NEW t \in Session, Transcribed(t),
         partialText' = Append(partialText, t),
         transcribed' = [transcribed EXCEPT ![t] = @ + 1]
  PROVE  TextInv'
<1> USE DEF history, capture, publication, status
<1>1. /\ InLoop(t) \/ Draining(t)
      /\ \A s \in Session : s # t => loop'[s] = loop[s]
      /\ UNCHANGED <<finalResult, published, cancelled, cancelPending, publishers, publishing,
                     sessions, main, overlapped, late>>
  BY DEF Transcribed, InLoop, Draining, TypeOK
<1>2. partialText \in Seq(Session) /\ loop[t] # "none"
  BY <1>1 DEF TypeOK, InLoop, Draining
<1>3. ASSUME NEW s \in Session, Unheard(s)'
      PROVE  /\ ~Contains(partialText', s) /\ published'[s] = 0 /\ s \notin cancelled'
             /\ \A p \in publishing' : ~Contains(p.text, s)
  <2>1. s # t
    BY <1>1, <1>2, <1>3 DEF Unheard, ControlInv, FreshInv
  <2>2. ~Contains(partialText', s)
    BY <1>1, <1>2, <1>3, <2>1, AppendContains DEF TextInv, Unheard
  <2> QED BY <1>1, <1>3, <2>2 DEF TextInv, Unheard
<1>4. ASSUME NEW s \in Session, loop'[s] # "none", s \notin overlapped', s # t
      PROVE  PublishedRight(s)' /\ CancelledRight(s)'
  <2>1. PublishedRight(s) /\ CancelledRight(s)
    BY <1>1, <1>4 DEF TextInv
  <2>2. Occurrences(partialText', s) = Occurrences(partialText, s)
    BY <1>2, <1>4, SameOccurrences
  <2>3. Contains(partialText', s) => Contains(partialText, s)
    BY <1>2, <1>4, AppendContains
  <2>4. /\ transcribed'[s] = transcribed[s] /\ (Underway(s)' <=> Underway(s))
        /\ InHand(s)' <=> InHand(s)
    BY <1>1, <1>4 DEF TypeOK, Underway, InLoop, Draining, InHand
  <2> QED BY <1>1, <2>1, <2>2, <2>3, <2>4 DEF PublishedRight, CancelledRight
<1>5. ASSUME t \notin overlapped'
      PROVE  PublishedRight(t)' /\ CancelledRight(t)'
  <2>1. PublishedRight(t) /\ CancelledRight(t) /\ Underway(t)
    BY <1>1, <1>2, <1>5 DEF TextInv, Underway
  <2>2. t = sessions
    <3>1. t \in 1..sessions /\ ~Settled(t)
      BY <1>1, <1>2, LoopStarted DEF Settled
    <3>2. t \in 1..(sessions - 1) => t \in overlapped
      BY <3>1, EarlierOverlaps DEF ControlInv
    <3> QED BY <1>1, <1>5, <3>1, <3>2 DEF TypeOK
  <2>3. Occurrences(partialText', t) = Occurrences(partialText, t) + 1
    BY <1>2, OneMoreOccurrence
  <2>4. /\ transcribed'[t] = transcribed[t] + 1 /\ transcribed[t] \in Nat
        /\ Occurrences(partialText, t) \in Nat
    BY <1>2, OccurrencesType DEF TypeOK
  <2>7. \A p \in publishing : Occurrences(p.text, t) \in Nat
    BY OccurrencesType DEF TypeOK
  <2>5. PublishedRight(t)'
    BY <1>1, <2>1, <2>2, <2>3, <2>4, <2>7 DEF PublishedRight
  <2>6. CancelledRight(t)'
    BY <1>1, <2>1 DEF CancelledRight
  <2> QED BY <2>5, <2>6
<1> QED BY <1>3, <1>4, <1>5 DEF TextInv, Unheard

LEMMA LoopText ==
  ASSUME TypeOK, ControlInv, TextInv, NEW t \in Session, LoopStep(t) \/ Fail(t)
  PROVE  TextInv'
<1> USE DEF history, capture, publication, status, transcript
<1>1. CASE Transcribed(t) /\ UNCHANGED <<partialText, transcribed>>
  <2>1. \A s \in Session : /\ loop'[s] # "none" => loop[s] # "none"
                           /\ Underway(s)' => Underway(s)
    BY <1>1 DEF Transcribed, AfterFlush, TypeOK, Underway, InLoop, Draining
  <2> QED BY <1>1, <2>1, TextKept DEF Transcribed
<1>2. CASE Transcribed(t) /\ ~UNCHANGED <<partialText, transcribed>>
  BY <1>2, TranscribedText DEF Transcribed
<1>3. CASE Flush(t) \/ SeeStop(t) \/ Fail(t)
  <2>1. \A s \in Session : /\ loop'[s] # "none" => loop[s] # "none"
                           /\ Underway(s)' => Underway(s)
    BY <1>3 DEF Flush, SeeStop, Fail, TypeOK, Underway, InLoop, Draining
  <2> QED BY <1>3, <2>1, TextKept DEF Flush, SeeStop, Fail
<1>4. CASE Close(t)
  <2>1. /\ loop[t] = "closing" /\ loop' = [loop EXCEPT ![t] = "done"]
        /\ publishers' = Append(publishers, t)
        /\ UNCHANGED <<transcript, transcribed, published, publishing, cancelled, cancelPending,
                       sessions, overlapped, main, late>>
    BY <1>4 DEF Close, LaunchPublisher
  <2>2. \A s \in Session : Contains(publishers', s) => Contains(publishers, s) \/ s = t
    BY <2>1, AppendContains DEF TypeOK
  <2>3. \A s \in Session : s # t => loop'[s] = loop[s]
    BY <2>1 DEF TypeOK
  <2>4. \A s \in Session : /\ loop'[s] # "none" => loop[s] # "none"
                           /\ Underway(s)' => Underway(s)
    BY <2>1, <2>2, <2>3 DEF Underway, InLoop, Draining
  <2> QED BY <2>1, <2>4, TextKept
<1> QED BY <1>1, <1>2, <1>3, <1>4 DEF LoopStep

(* A result of the platform engine is of a session without a capture loop.  *)
LEMMA PlatformText ==
  ASSUME TypeOK, ControlInv, TextInv, OnPartialResults \/ OnResults
  PROVE  TextInv'
<1> USE DEF history, capture, publication, status, transcript
<1> DEFINE r == recognizer.session
<1>1. r \in 1..sessions /\ r \in Session /\ loop[r] = "none" /\ main = "ready"
  BY SpeechAssumption DEF OnPartialResults, OnResults, Callback, ControlInv, FreshInv, TypeOK,
     Recognizer, Session
<1>2. UNCHANGED <<transcribed, cancelled, cancelPending, publishers, publishing, sessions, loop,
                  main, overlapped, late>>
  BY DEF OnPartialResults, OnResults
<1>3. PICK text \in {<<>>, <<r>>} :
        /\ partialText' = text
        /\ \/ UNCHANGED <<finalResult, published>>
           \/ finalResult' = text /\ Publication(text)
  BY DEF OnPartialResults, OnResults
<1>4. text \in Seq(Session) /\ \A s : s # r => ~Contains(text, s)
  <2>1. <<r>> \in Seq(Session) /\ \A s : s # r => ~Contains(<<r>>, s)
    BY <1>1 DEF Contains
  <2> QED BY <1>3, <2>1, EmptyText, NobodySpoke
<1>5. \A s \in Session : s # r => /\ Occurrences(partialText', s) = 0
                                  /\ published'[s] = published[s]
  <2>1. \A s \in Session : s # r => Occurrences(text, s) = 0
    BY <1>4, NoOccurrence
  <2> QED BY <1>3, <2>1 DEF Publication, TypeOK
<1>6. ASSUME NEW s \in Session, Unheard(s)'
      PROVE  /\ ~Contains(partialText', s) /\ published'[s] = 0 /\ s \notin cancelled'
             /\ \A p \in publishing' : ~Contains(p.text, s)
  <2>1. s # r /\ Unheard(s)
    BY <1>1, <1>2, <1>6 DEF Unheard, TypeOK
  <2> QED BY <1>2, <1>3, <1>4, <1>5, <2>1 DEF TextInv, Unheard
<1>7. ASSUME NEW s \in Session, loop'[s] # "none", s \notin overlapped'
      PROVE  PublishedRight(s)' /\ CancelledRight(s)'
  <2>1. s # r
    BY <1>1, <1>2, <1>7
  <2>2. /\ PublishedRight(s) /\ CancelledRight(s) /\ (Underway(s)' <=> Underway(s))
        /\ InHand(s)' <=> InHand(s)
    BY <1>2, <1>7 DEF TextInv, Underway, InLoop, Draining, InHand
  <2>3. /\ Occurrences(partialText', s) = 0 /\ published'[s] = published[s]
        /\ transcribed[s] \in Nat /\ ~Contains(partialText', s)
    BY <1>3, <1>4, <1>5, <2>1 DEF TypeOK
  <2>4. Contains(finalResult', s) => Contains(finalResult, s)
    BY <1>3, <1>4, <2>1
  <2>5. PublishedRight(s)'
    BY <1>2, <2>2, <2>3 DEF PublishedRight
  <2>6. CancelledRight(s)'
    BY <1>2, <2>2, <2>3, <2>4 DEF CancelledRight
  <2> QED BY <2>5, <2>6
<1> QED BY <1>6, <1>7 DEF TextInv, Unheard

(* The publisher of a session that nothing overlaps finds its own text, and *)
(* a flag that was raised for it; when it has woken, nothing of it is left  *)
(* under way but what it holds.                                             *)
LEMMA WakeText ==
  ASSUME TypeOK, ControlInv, PublisherInv, TextInv, WakePublisher
  PROVE  TextInv'
<1> USE DEF history, capture, status, transcript
<1> DEFINE h == Head(publishers)
<1>1. UNCHANGED <<transcribed, published, cancelled, sessions, loop, main, overlapped, late>>
  BY DEF WakePublisher
<1>2. /\ h \in Session /\ Contains(publishers, h) /\ ~Contains(publishers', h)
      /\ \A s : Contains(publishers', s) => Contains(publishers, s)
  BY WakePublishers
<1>4. loop[h] = "done" /\ h \in 1..sessions /\ ~Settled(h)
  BY <1>2, LoopStarted DEF PublisherInv, Delivering, Settled
<1>5. \A s \in Session : Underway(s)' => Underway(s) /\ s # h
  BY <1>1, <1>2, <1>4 DEF Underway, InLoop, Draining
<1>6. \A s \in Session : loop[s] # "none" /\ s \notin overlapped /\ Underway(s) => s = h
  <2> SUFFICES ASSUME NEW s \in Session, loop[s] # "none", Underway(s), s # h
               PROVE  s \in overlapped
    OBVIOUS
  <2>1. s \in 1..sessions /\ ~Settled(s)
    BY LoopStarted DEF Underway, Settled
  <2> QED BY <1>4, <2>1, BothOverlap DEF ControlInv
<1>7. CASE recording
  BY <1>1, <1>5, <1>7, TextKept DEF WakePublisher
<1>8. CASE ~recording /\ cancelPending
  <2>1. /\ partialText' = <<>> /\ finalResult' = <<>> /\ UNCHANGED publishing
        /\ \A s : ~Contains(partialText', s) /\ ~Contains(finalResult', s)
    BY <1>8, NobodySpoke DEF WakePublisher, CancelSeen, EmptyTranscript
  <2>2. ASSUME NEW s \in Session, Unheard(s)'
        PROVE  published'[s] = 0 /\ s \notin cancelled' /\ \A p \in publishing' : ~Contains(p.text, s)
    BY <1>1, <2>1, <2>2 DEF TextInv, Unheard
  <2>3. ASSUME NEW s \in Session, loop'[s] # "none", s \notin overlapped'
        PROVE  PublishedRight(s)' /\ CancelledRight(s)'
    <3>1. PublishedRight(s) /\ CancelledRight(s) /\ ~Underway(s)' /\ (InHand(s)' <=> InHand(s))
      BY <1>1, <1>5, <1>6, <2>1, <2>3 DEF TextInv, InHand
    <3>2. Occurrences(partialText', s) = 0 /\ transcribed[s] \in Nat
      BY <2>1, EmptyText, NoOccurrence DEF TypeOK
    <3> QED BY <1>1, <2>1, <3>1, <3>2 DEF PublishedRight, CancelledRight
  <2> QED BY <2>1, <2>2, <2>3 DEF TextInv, Unheard
<1>9. CASE ~recording /\ ~cancelPending
  <2> DEFINE taken == [session |-> h, text |-> partialText]
  <2>1. publishing' = publishing \cup {taken} /\ UNCHANGED <<cancelPending, partialText, finalResult>>
    BY <1>9 DEF WakePublisher, CancelSeen
  <2>2. taken.session = h /\ taken.text = partialText
    OBVIOUS
  <2> HIDE DEF taken
  <2>3. ASSUME NEW s \in Session, Unheard(s)'
        PROVE  /\ ~Contains(partialText', s) /\ published'[s] = 0 /\ s \notin cancelled'
               /\ \A p \in publishing' : ~Contains(p.text, s)
    BY <1>1, <2>1, <2>2, <2>3 DEF TextInv, Unheard
  <2>4. ASSUME NEW s \in Session, loop'[s] # "none", s \notin overlapped'
        PROVE  PublishedRight(s)' /\ CancelledRight(s)'
    <3>1. PublishedRight(s) /\ CancelledRight(s) /\ ~Underway(s)'
      BY <1>1, <1>5, <1>6, <2>4 DEF TextInv
    <3>2. InHand(s)' => InHand(s) \/ s = h
      BY <2>1, <2>2 DEF InHand
    <3>3. s = h => published[s] = 0
      BY <1>2, <3>1 DEF PublishedRight, Underway
    <3>4. Contains(partialText, s) => s = h
      <4> SUFFICES ASSUME Contains(partialText, s), s # h PROVE FALSE
        OBVIOUS
      <4>1. s = sessions
        BY <3>1 DEF PublishedRight
      <4>2. h \in 1..(sessions - 1)
        BY <1>4, <4>1 DEF TypeOK
      <4>3. s \in overlapped
        BY <1>4, <4>1, <4>2, EarlierOverlaps DEF ControlInv
      <4> QED BY <1>1, <2>4, <4>3
    <3>5. PublishedRight(s)'
      BY <1>1, <2>1, <2>2, <3>1, <3>2, <3>3, <3>4 DEF PublishedRight
    <3>6. CancelledRight(s)'
      BY <1>1, <1>9, <2>1, <2>2, <3>1 DEF CancelledRight
    <3> QED BY <3>5, <3>6
  <2> QED BY <2>3, <2>4 DEF TextInv, Unheard
<1> QED BY <1>7, <1>8, <1>9

(* What it sets is what it took: of its own session, once, and cancelled    *)
(* only since it took it.                                                   *)
LEMMA PublishText ==
  ASSUME TypeOK, PublisherInv, TextInv, NEW p \in publishing, Publish(p)
  PROVE  TextInv'
<1> USE DEF history, capture, status
<1>1. /\ publishing' = publishing \ {p} /\ finalResult' = p.text
      /\ UNCHANGED <<partialText, transcribed, cancelled, cancelPending, sessions, loop, main,
                     publishers, overlapped, late>>
  BY DEF Publish
<1>2. /\ p.text \in Seq(Session) /\ p.session \in Session
      /\ \A s \in Session : published'[s] = published[s] + Occurrences(p.text, s)
      /\ \A s \in Session : Occurrences(p.text, s) \in Nat /\ published[s] \in Nat
  <2>1. p.text \in Seq(Session) /\ p.session \in Session
    BY DEF TypeOK
  <2> QED BY <2>1, OccurrencesType DEF Publish, Publication, TypeOK
<1>3. ASSUME NEW s \in Session, Unheard(s)'
      PROVE  /\ ~Contains(partialText', s) /\ published'[s] = 0 /\ s \notin cancelled'
             /\ \A q \in publishing' : ~Contains(q.text, s)
  <2>1. /\ ~Contains(partialText, s) /\ published[s] = 0 /\ s \notin cancelled
        /\ \A q \in publishing : ~Contains(q.text, s)
    BY <1>1, <1>3 DEF TextInv, Unheard
  <2>2. Occurrences(p.text, s) = 0
    BY <1>2, <2>1, NoOccurrence
  <2> QED BY <1>1, <1>2, <2>1, <2>2
<1>4. ASSUME NEW s \in Session, loop'[s] # "none", s \notin overlapped'
      PROVE  PublishedRight(s)' /\ CancelledRight(s)'
  <2>1. PublishedRight(s) /\ CancelledRight(s)
    BY <1>1, <1>4 DEF TextInv
  <2>2. Underway(s)' <=> Underway(s)
    BY <1>1 DEF Underway, InLoop, Draining
  <2>3. InHand(s)' => InHand(s) /\ s # p.session
    BY <1>1 DEF InHand, PublisherInv
  <2>4. CASE s = p.session
    <3>1. InHand(s) /\ ~Underway(s)
      <4>1. InHand(s)
        BY <2>4 DEF InHand
      <4> QED BY <4>1 DEF PublisherInv, Delivering, Underway, InLoop, Draining
    <3>2. published[s] = 0 /\ published'[s] = Occurrences(p.text, s)
      BY <1>2, <2>1, <3>1 DEF PublishedRight
    <3>3. published'[s] <= transcribed[s]
      BY <2>1, <3>2 DEF PublishedRight
    <3> QED BY <1>1, <2>1, <2>2, <2>3, <2>4, <3>1, <3>3 DEF PublishedRight, CancelledRight
  <2>5. CASE s # p.session
    <3>1. ~Contains(p.text, s)
      BY <2>1, <2>5 DEF PublishedRight
    <3>2. published'[s] = published[s]
      BY <1>2, <3>1, NoOccurrence
    <3> QED BY <1>1, <2>1, <2>2, <2>3, <3>1, <3>2 DEF PublishedRight, CancelledRight
  <2> QED BY <2>4, <2>5
<1> QED BY <1>3, <1>4 DEF TextInv, Unheard

LEMMA QuietText ==
  ASSUME TypeOK, TextInv,
         \/ StartDenied \/ ShowListening \/ FallBack \/ StopListening
         \/ OnReadyForSpeech \/ OnRmsChanged \/ OnEndOfSpeech \/ OnError
         \/ Speak \/ OnTtsInit \/ OnUtteranceEnd \/ ConsumeError
         \/ (\E s \in Session : Hear(s)) \/ UNCHANGED vars
  PROVE  TextInv'
<1> USE DEF history, capture, publication, status, transcript
<1>1. /\ UNCHANGED <<transcript, transcribed, published, cancelled, cancelPending, sessions,
                     overlapped, loop, publishers, publishing, late>>
      /\ main' = "opening" => main = "opening"
  BY DEF StartDenied, ShowListening, FallBack, StopListening, OnReadyForSpeech, OnRmsChanged,
         OnEndOfSpeech, OnError, Speak, OnTtsInit, OnUtteranceEnd, ConsumeError, Hear, vars
<1>2. \A s \in Session : /\ loop'[s] # "none" => loop[s] # "none"
                         /\ Underway(s)' => Underway(s)
  BY <1>1 DEF Underway, InLoop, Draining
<1> QED BY <1>1, <1>2, TextKept

LEMMA TextStep ==
  ASSUME TypeOK, ControlInv, PublisherInv, TextInv, [Next]_vars
  PROVE  TextInv'
<1>1. CASE CancelListening \/ ClearFinalResult
  <2>1. /\ EmptyTranscript
        /\ UNCHANGED <<transcribed, published, loop, publishers, publishing, main, sessions,
                       overlapped>>
        /\ \/ UNCHANGED <<cancelled, cancelPending, late>>
           \/ /\ cancelPending' = TRUE /\ main = "ready"
              /\ cancelled' = cancelled \cup 1..sessions
              /\ late' = late \cup {s \in Session : \E p \in publishing : Contains(p.text, s)}
    BY <1>1 DEF CancelListening, ClearFinalResult, history, capture, publication
  <2> QED BY <2>1, TextEmptied
<1> QED BY <1>1, QuietText, WakeText, PublishText, PlatformText, LoopText, OpenText, StartText
        DEF Next, Recognition

-----------------------------------------------------------------------------
IInv == TypeOK /\ ControlInv /\ RecordingIsShown /\ PublisherInv /\ TextInv

LEMMA ShownStep ==
  ASSUME TypeOK, ControlInv, RecordingIsShown, [Next]_vars
  PROVE  TypeOK' /\ ControlInv' /\ RecordingIsShown'
<1>1. CASE StartDenied \/ StartListening \/ OpenCapture \/ ShowListening \/ FallBack
  <2>1. StartDenied => UNCHANGED control
    BY DEF StartDenied, control, history, capture, publication
  <2> QED BY <1>1, <2>1, ControlKept, MainTypes, OpeningControl, MainShown DEF ControlInv
<1>2. ASSUME NEW s \in Session, Hear(s) \/ LoopStep(s) \/ Fail(s)
      PROVE  TypeOK' /\ ControlInv' /\ RecordingIsShown'
  <2>1. Hear(s) => UNCHANGED control
    BY DEF Hear, control, history, publication
  <2> QED BY <1>2, <2>1, ControlKept, LoopTypes, LoopControl, LoopShown
<1>3. CASE \/ WakePublisher \/ (\E p \in publishing : Publish(p))
           \/ StopListening \/ CancelListening \/ Recognition
  <2>1. OnRmsChanged \/ OnPartialResults => UNCHANGED control
    BY DEF OnRmsChanged, OnPartialResults, control, history, capture, publication
  <2>2. TypeOK'
    BY <1>3, OtherTypes DEF ControlInv
  <2>3. ControlInv'
    BY <1>3, <2>1, ControlKept, SettlingControl DEF Recognition
  <2>4. RecordingIsShown'
    BY <1>3, RecognitionShown, OtherShown
  <2> QED BY <2>2, <2>3, <2>4
<1>4. CASE Speak \/ OnTtsInit \/ OnUtteranceEnd \/ ConsumeError \/ ClearFinalResult
  <2>1. UNCHANGED control
    BY <1>4 DEF Speak, OnTtsInit, OnUtteranceEnd, ConsumeError, ClearFinalResult, control,
                history, capture, publication
  <2> QED BY <1>4, <2>1, ControlKept, OtherTypes, OtherShown DEF ControlInv
<1>5. CASE UNCHANGED vars
  <2>1. UNCHANGED control
    BY <1>5 DEF vars, control, history, capture, publication
  <2>2. TypeOK' /\ RecordingIsShown'
    BY <1>5 DEF vars, status, transcript, capture, publication, history, TypeOK,
                RecordingIsShown, Dictating
  <2> QED BY <2>1, <2>2, ControlKept
<1> QED BY <1>1, <1>2, <1>3, <1>4, <1>5 DEF Next

LEMMA Inductive ==
  ASSUME IInv, [Next]_vars
  PROVE  IInv'
  BY ShownStep, PublisherStep, TextStep DEF IInv

LEMMA Initially == Init => IInv
<1> SUFFICES ASSUME Init PROVE IInv
  OBVIOUS
<1> USE SpeechAssumption
<1>1. TypeOK
  <2>1. recognizer \in Recognizer /\ tts \in Engine
    BY DEF Init, Idle, Recognizer, Engine
  <2>2. loop \in [Session -> LoopPhase] /\ sessions \in 0..MaxSessions
    BY DEF Init, LoopPhase
  <2>3. heard \in [Session -> 0..MaxUtterances]
    BY DEF Init
  <2> QED BY <2>1, <2>2, <2>3, EmptyText DEF Init, TypeOK, AssistantState
<1>2. ControlInv
  BY DEF Init, Idle, ControlInv, FreshInv, RecordInv, RefusedOnlyWhileDictating, OverlapInv
<1>3. RecordingIsShown
  BY DEF Init, RecordingIsShown
<1>4. PublisherInv
  BY DEF Init, PublisherInv, Delivering, InHand, Contains
<1>5. TextInv
  <2>1. \A s \in Session : ~Contains(partialText, s) /\ published[s] = 0 /\ cancelled = {}
    BY NobodySpoke DEF Init
  <2> QED BY <2>1 DEF Init, TextInv
<1> QED BY <1>1, <1>2, <1>3, <1>4, <1>5 DEF IInv

(* The inductive invariant holds in every reachable state.                  *)
THEOREM Invariance == Spec => []IInv
  BY Initially, Inductive, PTL DEF Spec

(* Every variable of SpeechManager keeps its type.                          *)
THEOREM TypeCorrect == Spec => []TypeOK
<1>1. IInv => TypeOK BY DEF IInv
<1> QED BY <1>1, Invariance, PTL

(* startListening refuses a tap only while the loop of the latest session   *)
(* reads the microphone, or has thrown.                                     *)
THEOREM RefusalMeansDictating == Spec => []RefusedOnlyWhileDictating
<1>1. IInv => RefusedOnlyWhileDictating BY DEF IInv, ControlInv, RecordInv
<1> QED BY <1>1, Invariance, PTL

(* A recording microphone is shown on screen, but for the three causes the  *)
(* property names, however many dictations overlap.                         *)
THEOREM MicrophoneIsShown == Spec => []RecordingIsShown
<1>1. IInv => RecordingIsShown BY DEF IInv
<1> QED BY <1>1, Invariance, PTL

(* A cancelled dictation that met no other one never becomes final, but for *)
(* a text its publisher had in hand when the cancel came.                   *)
THEOREM CancelIsKept == Spec => []CancelledNeverFinal
<1>1. ASSUME IInv PROVE CancelledNeverFinal
  <2> SUFFICES ASSUME NEW i \in DOMAIN finalResult, finalResult[i] \in cancelled,
                      finalResult[i] \notin overlapped \cup late, loop[finalResult[i]] # "none"
               PROVE  FALSE
    BY DEF CancelledNeverFinal
  <2>1. finalResult[i] \in Session /\ Contains(finalResult, finalResult[i])
    BY <1>1 DEF IInv, TypeOK, Contains
  <2> QED BY <1>1, <2>1 DEF IInv, TextInv, CancelledRight
<1> QED BY <1>1, Invariance, PTL

(* No utterance of a dictation that met no other one becomes final twice.   *)
THEOREM PublicationIsOnce == Spec => []PublishedOnce
<1>1. ASSUME IInv PROVE PublishedOnce
  <2> SUFFICES ASSUME NEW s \in Session, s \notin overlapped, loop[s] # "none"
               PROVE  ~(published[s] > transcribed[s])
    BY DEF PublishedOnce
  <2>1. published[s] \in Nat /\ transcribed[s] \in Nat /\ published[s] <= transcribed[s]
    BY <1>1 DEF IInv, TypeOK, TextInv, PublishedRight
  <2> QED BY <2>1
<1> QED BY <1>1, Invariance, PTL

(* A transcript becomes final after the state has left LISTENING and        *)
(* THINKING, as the clients' effects on IDLE rely on.                       *)
THEOREM StateIsSettled == Spec => StateSettlesFirst
<1>1. ASSUME IInv, NEW p \in publishing PROVE ~Dictating \/ p.session \in overlapped \cup failed
  <2>1. p.session \in Session /\ Delivering(p.session)
    BY <1>1 DEF IInv, TypeOK, Delivering, InHand
  <2> QED BY <1>1, <2>1 DEF IInv, PublisherInv
<1>2. IInv => \A p \in publishing :
        Publish(p) /\ finalResult' # finalResult /\ finalResult' # <<>>
          => ~Dictating \/ p.session \in overlapped \cup failed
  BY <1>1
<1> QED BY <1>2, Invariance, PTL DEF StateSettlesFirst
-----------------------------------------------------------------------------
(* The dictation flow.  Its steps are steps of SpeechManager.               *)

(* The platform engine says one thing of a session, if it serves it, and    *)
(* those it has refused have no capture loop either.                        *)
ServedInv ==
  /\ \A s \in recognizer.busy : loop[s] = "none"
  /\ \A s \in Session : loop[s] = "none" /\ s \notin overlapped =>
       /\ Contains(partialText, s) => s = sessions
       /\ published[s] <= 1
       /\ recognizer.session = s => published[s] = 0
       /\ \A p \in publishing : ~Contains(p.text, s)

(* What has been transcribed was heard, and the rest may be pending.        *)
HeardInv ==
  \A s \in Session :
    /\ transcribed[s] + (IF pending[s] THEN 1 ELSE 0) <= heard[s]
    /\ loop[s] \in {"transcribing", "tail"} => pending[s]

(* Only its own publisher takes the text of a session that met no other and *)
(* makes it final, and the platform engine that of the one it serves.       *)
LEMMA TakerOfText ==
  ASSUME IInv, ServedInv, WakePublisher, NEW s \in Session, Contains(partialText, s),
         s \notin overlapped
  PROVE  s = Head(publishers) /\ loop[s] = "done"
<1> DEFINE h == Head(publishers)
<1>1. publishers \in Seq(Session) /\ publishers # <<>>
  BY DEF IInv, TypeOK, WakePublisher
<1>2. h \in Session /\ Contains(publishers, h)
  BY <1>1 DEF Contains
<1>3. loop[h] = "done" /\ ~Settled(h) /\ h \in 1..sessions
  BY <1>2, LoopStarted DEF IInv, PublisherInv, Delivering, Settled
<1>4. s = sessions
  BY DEF IInv, TextInv, PublishedRight, ServedInv
<1>5. s = h
  <2> SUFFICES ASSUME s # h PROVE FALSE
    OBVIOUS
  <2>1. h \in 1..(sessions - 1)
    BY <1>3, <1>4 DEF IInv, TypeOK
  <2> QED BY <1>3, <1>4, <2>1, EarlierOverlaps DEF IInv, ControlInv
<1> QED BY <1>3, <1>5

LEMMA PublisherOfText ==
  ASSUME IInv, ServedInv, NEW p \in publishing, NEW s \in Session, Contains(p.text, s),
         s \notin overlapped
  PROVE  loop[s] # "none" /\ ~Settled(s) /\ published[s] = 0
<1>1. loop[s] # "none"
  BY DEF ServedInv
<1>2. PublishedRight(s)
  BY <1>1 DEF IInv, TextInv
<1>3. InHand(s)
  BY <1>2 DEF PublishedRight, InHand
<1>4. published[s] = 0
  BY <1>2, <1>3 DEF PublishedRight
<1> QED BY <1>1, <1>3, <1>4 DEF Settled

LEMMA ServedSession ==
  ASSUME IInv, ServedInv, OnPartialResults \/ OnResults
  PROVE  LET r == recognizer.session
         IN  /\ r \in Session /\ loop[r] = "none" /\ ~Settled(r)
             /\ r \notin overlapped => r = sessions /\ published[r] = 0
<1> DEFINE r == recognizer.session
<1>1. r \in 1..sessions /\ r \in Session /\ loop[r] = "none"
  BY SpeechAssumption DEF OnPartialResults, OnResults, Callback, IInv, ControlInv, FreshInv,
     TypeOK, Recognizer, Session
<1>2. ~Settled(r)
  BY DEF Settled
<1>3. ASSUME r \notin overlapped PROVE r = sessions
  <2> SUFFICES ASSUME r # sessions PROVE FALSE
    OBVIOUS
  <2>1. r \in 1..(sessions - 1)
    BY <1>1 DEF IInv, TypeOK
  <2> QED BY <1>2, <1>3, <2>1, EarlierOverlaps DEF IInv, ControlInv
<1>4. r \notin overlapped => published[r] = 0
  BY <1>1 DEF ServedInv
<1> QED BY <1>1, <1>2, <1>3, <1>4

LEMMA OneOccurrence ==
  ASSUME NEW t \in Session
  PROVE  /\ <<t>> \in Seq(Session) /\ Occurrences(<<t>>, t) = 1
         /\ \A s : s # t => ~Contains(<<t>>, s)
<1>1. {i \in DOMAIN <<t>> : <<t>>[i] = t} = {1}
  OBVIOUS
<1>2. Cardinality({1}) = 1
  BY FS_Singleton
<1> QED BY <1>1, <1>2 DEF Occurrences, Contains

(* A step that leaves the published counts and the platform's session alone.*)
LEMMA ServedKept ==
  ASSUME TypeOK, ServedInv, UNCHANGED published, overlapped \subseteq overlapped',
         recognizer'.busy \subseteq recognizer.busy, recognizer'.session \in {recognizer.session, 0},
         \A s \in Session : loop'[s] = "none" <=> loop[s] = "none",
         \A s \in Session : Contains(partialText', s) /\ loop[s] = "none" /\ s \notin overlapped' =>
           Contains(partialText, s) /\ sessions' = sessions,
         publishing' \subseteq publishing
  PROVE  ServedInv'
<1>1. \A s \in recognizer'.busy : loop'[s] = "none"
  <2>1. recognizer.busy \subseteq Session
    BY DEF TypeOK, Recognizer
  <2> QED BY <2>1 DEF ServedInv
<1>2. ASSUME NEW s \in Session, loop'[s] = "none", s \notin overlapped'
      PROVE  /\ Contains(partialText', s) => s = sessions'
             /\ published'[s] <= 1
             /\ recognizer'.session = s => published'[s] = 0
             /\ \A p \in publishing' : ~Contains(p.text, s)
  <2>1. loop[s] = "none" /\ s \notin overlapped
    BY <1>2
  <2>2. s # 0
    BY DEF Session
  <2> QED BY <1>2, <2>1, <2>2 DEF ServedInv
<1> QED BY <1>1, <1>2 DEF ServedInv

LEMMA ServedStep ==
  ASSUME IInv, ServedInv, [Next]_vars
  PROVE  ServedInv'
<1> USE DEF history, capture, publication, status, transcript
<1>0. TypeOK /\ ControlInv /\ PublisherInv /\ TextInv /\ recognizer \in Recognizer
  BY DEF IInv, TypeOK
<1>1. CASE StartListening
  <2>1. \A s : ~Contains(partialText', s)
    BY <1>1, NobodySpoke DEF StartListening, EmptyTranscript
  <2>2. UNCHANGED <<published, publishing, recognizer, loop>> /\ overlapped \subseteq overlapped'
    BY <1>1 DEF StartListening
  <2> QED BY <1>0, <2>1, <2>2, ServedKept
<1>2. CASE OpenCapture
  <2>1. /\ loop' = [loop EXCEPT ![sessions] = "reading"] /\ loop[sessions] = "none"
        /\ sessions \in Session /\ sessions \notin recognizer.busy
        /\ UNCHANGED <<published, publishing, recognizer, overlapped, partialText, sessions>>
    BY <1>0, <1>2 DEF OpenCapture, ControlInv, FreshInv, TypeOK, Session
  <2>2. recognizer.busy \subseteq Session /\ \A s \in recognizer.busy : loop'[s] = "none"
    BY <1>0, <2>1 DEF ServedInv, TypeOK, Recognizer
  <2>3. \A s \in Session : loop'[s] = "none" => loop[s] = "none"
    BY <1>0, <2>1 DEF TypeOK
  <2> QED BY <2>1, <2>2, <2>3 DEF ServedInv
<1>3. CASE FallBack
  <2>1. /\ main = "opening" /\ sessions \in Session /\ loop[sessions] = "none"
        /\ UNCHANGED <<published, publishing, overlapped, partialText, sessions, loop>>
    BY <1>0, <1>3 DEF FallBack, ControlInv, FreshInv, TypeOK, Session
  <2>2. published[sessions] = 0
    BY <1>0, <2>1 DEF TextInv
  <2>3. /\ recognizer'.busy \subseteq recognizer.busy \cup {sessions}
        /\ recognizer'.session \in {recognizer.session, sessions}
    BY <1>0, <1>3 DEF FallBack, Serve, Recognizer
  <2> QED BY <2>1, <2>2, <2>3 DEF ServedInv
<1>4. ASSUME NEW t \in Session, LoopStep(t) \/ Fail(t) PROVE ServedInv'
  <2>1. /\ loop[t] # "none" /\ loop'[t] # "none"
        /\ \A s \in Session : s # t => loop'[s] = loop[s]
        /\ UNCHANGED <<published, publishing, recognizer, overlapped, sessions>>
        /\ partialText' = partialText \/ partialText' = Append(partialText, t)
    BY <1>0, <1>4 DEF LoopStep, Flush, SeeStop, Transcribed, AfterFlush, Close, Fail, InLoop, TypeOK
  <2>2. ASSUME NEW s \in Session, Contains(partialText', s), loop[s] = "none"
        PROVE  Contains(partialText, s)
    <3>1. Contains(Append(partialText, t), s) => Contains(partialText, s) \/ s = t
      BY <1>0, AppendContains DEF TypeOK
    <3> QED BY <2>1, <2>2, <3>1
  <2> QED BY <1>0, <2>1, <2>2, ServedKept
<1>5. CASE WakePublisher
  <2>1. UNCHANGED <<published, recognizer, overlapped, sessions, loop>>
    BY <1>5 DEF WakePublisher
  <2>2. CASE recording \/ cancelPending
    <3>1. UNCHANGED publishing /\ (partialText' = partialText \/ partialText' = <<>>)
      BY <1>5, <2>2 DEF WakePublisher, CancelSeen, EmptyTranscript
    <3> QED BY <1>0, <2>1, <3>1, ServedKept, NobodySpoke
  <2>3. CASE ~recording /\ ~cancelPending
    <3> DEFINE taken == [session |-> Head(publishers), text |-> partialText]
    <3>1. UNCHANGED partialText /\ publishing' = publishing \cup {taken}
      BY <1>5, <2>3 DEF WakePublisher, CancelSeen
    <3>2. taken.text = partialText
      OBVIOUS
    <3> HIDE DEF taken
    <3>3. ASSUME NEW s \in Session, loop[s] = "none", s \notin overlapped
          PROVE  ~Contains(partialText, s)
      BY <1>5, <3>3, TakerOfText
    <3>4. \A s \in Session : loop[s] = "none" /\ s \notin overlapped =>
            \A p \in publishing' : ~Contains(p.text, s)
      BY <3>1, <3>2, <3>3 DEF ServedInv
    <3> QED BY <2>1, <3>1, <3>4 DEF ServedInv
  <2> QED BY <2>2, <2>3
<1>8. ASSUME NEW p \in publishing, Publish(p) PROVE ServedInv'
  <2>1. /\ UNCHANGED <<recognizer, overlapped, sessions, loop, partialText>>
        /\ publishing' \subseteq publishing /\ p.text \in Seq(Session)
        /\ \A s \in Session : published'[s] = published[s] + Occurrences(p.text, s)
    BY <1>0, <1>8 DEF Publish, Publication, TypeOK
  <2>2. ASSUME NEW s \in Session, loop[s] = "none", s \notin overlapped
        PROVE  published'[s] = published[s]
    <3>1. ~Contains(p.text, s)
      BY <2>2 DEF ServedInv
    <3>2. Occurrences(p.text, s) = 0 /\ published[s] \in Nat
      BY <1>0, <2>1, <3>1, NoOccurrence DEF TypeOK
    <3> QED BY <2>1, <3>2
  <2> QED BY <2>1, <2>2 DEF ServedInv
<1>6. CASE OnPartialResults \/ OnResults
  <2> DEFINE r == recognizer.session
  <2>1. /\ r \in Session /\ loop[r] = "none"
        /\ r \notin overlapped => r = sessions /\ published[r] = 0
    BY <1>6, ServedSession
  <2>2. UNCHANGED <<overlapped, sessions, loop, publishing>>
    BY <1>6 DEF OnPartialResults, OnResults
  <2>3. PICK text \in {<<>>, <<r>>} :
          /\ partialText' = text
          /\ \/ UNCHANGED <<published, recognizer>>
             \/ Publication(text) /\ recognizer' = [Idle EXCEPT !.busy = recognizer.busy]
    BY <1>6 DEF OnPartialResults, OnResults
  <2>4. text \in Seq(Session) /\ \A s : s # r => ~Contains(text, s)
    BY <2>1, <2>3, OneOccurrence, EmptyText, NobodySpoke
  <2>5. Occurrences(text, r) <= 1 /\ Occurrences(text, r) \in Nat
    BY <2>1, <2>3, <2>4, OneOccurrence, EmptyText, NobodySpoke, NoOccurrence, OccurrencesType
  <2>6. ASSUME NEW s \in Session, loop'[s] = "none", s \notin overlapped'
        PROVE  Contains(partialText', s) => s = sessions'
    BY <2>1, <2>2, <2>3, <2>4, <2>6
  <2>7. CASE UNCHANGED <<published, recognizer>>
    BY <2>2, <2>6, <2>7 DEF ServedInv
  <2>8. CASE Publication(text) /\ recognizer' = [Idle EXCEPT !.busy = recognizer.busy]
    <3>1. recognizer'.session = 0 /\ recognizer'.busy = recognizer.busy
      BY <2>8 DEF Idle
    <3>2. \A s \in Session : published'[s] = published[s] + Occurrences(text, s)
      BY <2>8 DEF Publication
    <3>3. ASSUME NEW s \in Session, loop[s] = "none", s \notin overlapped
          PROVE  published'[s] <= 1
      <4>1. CASE s = r
        BY <2>1, <2>5, <3>2, <3>3, <4>1
      <4>2. CASE s # r
        <5>1. Occurrences(text, s) = 0 /\ published[s] \in Nat
          BY <1>0, <2>4, <4>2, NoOccurrence DEF TypeOK
        <5> QED BY <3>2, <3>3, <5>1 DEF ServedInv
      <4> QED BY <4>1, <4>2
    <3>4. \A s \in Session : s # 0
      BY DEF Session
    <3> QED BY <2>2, <2>6, <3>1, <3>3, <3>4 DEF ServedInv
  <2> QED BY <2>3, <2>7, <2>8
<1>7. CASE \/ StartDenied \/ ShowListening \/ (\E s \in Session : Hear(s))
           \/ StopListening \/ CancelListening \/ ClearFinalResult
           \/ OnReadyForSpeech \/ OnRmsChanged \/ OnEndOfSpeech \/ OnError
           \/ Speak \/ OnTtsInit \/ OnUtteranceEnd \/ ConsumeError \/ UNCHANGED vars
  <2>1. /\ UNCHANGED <<published, publishing, overlapped, sessions, loop>>
        /\ partialText' = partialText \/ partialText' = <<>>
    BY <1>7 DEF StartDenied, ShowListening, Hear, StopListening, CancelListening, ClearFinalResult,
       EmptyTranscript, OnReadyForSpeech, OnRmsChanged, OnEndOfSpeech, OnError, Speak, OnTtsInit,
       OnUtteranceEnd, ConsumeError, vars
  <2>2. /\ recognizer'.busy \subseteq recognizer.busy
        /\ recognizer'.session \in {recognizer.session, 0}
    BY <1>0, <1>7 DEF StartDenied, ShowListening, Hear, StopListening, CancelListening, StopEngine,
       ClearFinalResult, OnReadyForSpeech, OnRmsChanged, OnEndOfSpeech, OnError, Idle, Speak,
       OnTtsInit, OnUtteranceEnd, ConsumeError, vars, Recognizer
  <2> QED BY <1>0, <2>1, <2>2, ServedKept, NobodySpoke
<1> QED BY <1>1, <1>2, <1>3, <1>4, <1>5, <1>6, <1>7, <1>8 DEF Next, Recognition

LEMMA HeardStep ==
  ASSUME IInv, HeardInv, [Next]_vars
  PROVE  HeardInv'
<1> USE DEF history, capture, publication, status, transcript
<1>0. TypeOK /\ ControlInv
  BY DEF IInv
<1>1. ASSUME NEW t \in Session, Hear(t) \/ LoopStep(t) \/ Fail(t) PROVE HeardInv'
  <2>1. \A s \in Session : s # t =>
          /\ loop'[s] = loop[s] /\ pending'[s] = pending[s]
          /\ heard'[s] = heard[s] /\ transcribed'[s] = transcribed[s]
    BY <1>0, <1>1 DEF LoopStep, Hear, Flush, SeeStop, Transcribed, Close, Fail, TypeOK
  <2>2. /\ heard[t] \in Nat /\ transcribed[t] \in Nat /\ pending[t] \in BOOLEAN
        /\ transcribed[t] + (IF pending[t] THEN 1 ELSE 0) <= heard[t]
        /\ loop[t] \in {"transcribing", "tail"} => pending[t]
    BY <1>0, SpeechAssumption DEF HeardInv, TypeOK
  <2>3. /\ transcribed'[t] + (IF pending'[t] THEN 1 ELSE 0) <= heard'[t]
        /\ loop'[t] \in {"transcribing", "tail"} => pending'[t]
    <3>1. CASE Hear(t)
      BY <1>0, <2>2, <3>1 DEF Hear, TypeOK
    <3>2. CASE Flush(t)
      BY <1>0, <2>2, <3>2 DEF Flush, TypeOK
    <3>3. CASE SeeStop(t)
      BY <1>0, <2>2, <3>3 DEF SeeStop, TypeOK
    <3>4. CASE Transcribed(t)
      <4>1. /\ loop'[t] \notin {"transcribing", "tail"} /\ pending'[t] = FALSE /\ pending[t]
            /\ heard'[t] = heard[t] /\ transcribed'[t] \in {transcribed[t], transcribed[t] + 1}
        BY <1>0, <2>2, <3>4 DEF Transcribed, AfterFlush, TypeOK
      <4> QED BY <2>2, <4>1
    <3>5. CASE Close(t)
      BY <1>0, <2>2, <3>5 DEF Close, TypeOK
    <3>6. CASE Fail(t)
      BY <1>0, <2>2, <3>6 DEF Fail, TypeOK
    <3> QED BY <1>1, <3>1, <3>2, <3>3, <3>4, <3>5, <3>6 DEF LoopStep
  <2> QED BY <2>1, <2>3 DEF HeardInv
<1>2. CASE OpenCapture
  <2>1. /\ \A s \in Session : loop'[s] \in {"transcribing", "tail"} => loop'[s] = loop[s]
        /\ UNCHANGED <<pending, heard, transcribed>>
    BY <1>0, <1>2 DEF OpenCapture, TypeOK
  <2> QED BY <2>1 DEF HeardInv
<1>3. CASE ~OpenCapture /\ ~(\E t \in Session : Hear(t) \/ LoopStep(t) \/ Fail(t))
  <2>1. UNCHANGED <<loop, pending, heard, transcribed>>
    BY <1>3 DEF Next, Recognition, StartDenied, StartListening, ShowListening, FallBack,
       WakePublisher, Publish, StopListening, CancelListening, ClearFinalResult, OnReadyForSpeech,
       OnRmsChanged,
       OnPartialResults, OnEndOfSpeech, OnResults, OnError, Speak, OnTtsInit, OnUtteranceEnd,
       ConsumeError, vars
  <2> QED BY <2>1 DEF HeardInv
<1> QED BY <1>1, <1>2, <1>3

(* The flow around it. A session is on its way from the tap that starts it  *)
(* until nothing of it can be delivered any more.                           *)
OnWay(s) == s \in Undelivered \/ (main # "ready" /\ s = sessions)

FlowTypes ==
  /\ screen \in Screen /\ visit \in 0..MaxVisits /\ (screen = "editor" => visit # 0)
  /\ sink \in DictationSink /\ seen \in Seq(Session)
  /\ saving \in [place : Place \cup {Nowhere}, text : Seq(Session)]
  /\ claim \in [Session -> DictationSink \cup {"none"}]
  /\ home \in [Session -> Place \cup {Nowhere}]
  /\ landed \in [Session -> [Place -> Nat]]
  /\ discarded \subseteq Session /\ crowded \subseteq Session /\ strayed \subseteq Session
  /\ overlapped \subseteq crowded

(* Nothing is delivered that was not published.                             *)
SaidInv ==
  \A s \in Session :
    InResult(s) \/ BeingSaved(s) \/ (\E p \in Place : landed[s][p] > 0) => published[s] > 0

(* While an undisturbed dictation is on its way, the sink is still the one  *)
(* its screen claimed, and an editor is open only if it is the one that     *)
(* waits for it.                                                            *)
SinkHome == IF sink = "EDITOR_CURSOR" THEN <<"editor", visit>> ELSE SinkPlace

RouteInv ==
  \A s \in Session : OnWay(s) /\ Undisturbed(s) =>
    /\ sink = claim[s] /\ (claim[s] = "EDITOR_CURSOR" <=> screen = "editor")
    /\ home[s] = SinkHome
    /\ BeingSaved(s) => saving.place = home[s] /\ screen # "editor"

(* No more has landed and is on its way together than was published: the    *)
(* result that is being saved is still in finalResult, but nobody else      *)
(* takes it from there.                                                     *)
InFlight(s) ==
  IF BeingSaved(s) THEN Occurrences(saving.text, s) ELSE Occurrences(finalResult, s)

LandInv ==
  \A s \in Session : Undisturbed(s) => \A p \in Place :
    IF p = home[s] THEN landed[s][p] + InFlight(s) <= published[s] ELSE landed[s][p] = 0

(* What has landed is gone from the result, so that a cancel discards what  *)
(* has not landed yet; from then on there is nothing left to land.          *)
DiscardInv ==
  /\ discarded \subseteq cancelled
  /\ \A s \in Session : s \notin crowded /\ loop[s] # "none" =>
       /\ \A p \in Place : landed[s][p] > 0 => ~InResult(s) /\ s \notin discarded
       /\ s \in discarded => ~InResult(s) /\ ~Taken(s)

DInv == /\ IInv /\ ServedInv /\ HeardInv
        /\ FlowTypes /\ SaidInv /\ RouteInv /\ LandInv /\ DiscardInv

-----------------------------------------------------------------------------
LEMMA SomeOccurrence ==
  ASSUME NEW text \in Seq(Session), NEW s, Contains(text, s)
  PROVE  Occurrences(text, s) > 0
<1>1. IsFiniteSet({i \in DOMAIN text : text[i] = s})
  <2>1. IsFiniteSet(1..Len(text))
    BY FS_Interval
  <2> QED BY <2>1, FS_Subset
<1>2. {i \in DOMAIN text : text[i] = s} # {}
  BY DEF Contains
<1>3. Occurrences(text, s) \in Nat /\ Occurrences(text, s) # 0
  BY <1>1, <1>2, FS_EmptySet, FS_CardinalityType DEF Occurrences
<1> QED BY <1>3

LEMMA PlaceTypes ==
  ASSUME FlowTypes
  PROVE  /\ SinkPlace \in Place \cup {Nowhere}
         /\ \A scr \in Screen : SinkOf[scr] \in DictationSink
         /\ PlaceOf(screen) \in Place \cup {Nowhere}
         /\ screen = "editor" => <<"editor", visit>> \in Place
         /\ Undelivered \subseteq 1..sessions
<1>1. screen = "editor" => <<"editor", visit>> \in Place
  BY VisitAssumption DEF FlowTypes, Place, EditorNote
<1>2. PlaceOf(screen) \in Place \cup {Nowhere}
  BY <1>1 DEF FlowTypes, PlaceOf, Screen, Place
<1>3. \A scr \in Screen : SinkOf[scr] \in DictationSink
  BY DEF Screen, SinkOf, DictationSink
<1> QED BY <1>1, <1>2, <1>3 DEF SinkPlace, Place, Undelivered

LEMMA Landing ==
  ASSUME FlowTypes, NEW text \in Seq(Session), NEW place, Land(text, place)
  PROVE  /\ landed' \in [Session -> [Place -> Nat]]
         /\ \A s \in Session, p \in Place :
              landed'[s][p] = IF p = place THEN landed[s][p] + Occurrences(text, s)
                                           ELSE landed[s][p]
<1>1. landed \in [Session -> [Place -> Nat]]
  BY DEF FlowTypes
<1>2. \A s \in Session : Occurrences(text, s) \in Nat
  BY OccurrencesType
<1>3. ASSUME NEW s \in Session
      PROVE  /\ landed'[s] \in [Place -> Nat]
             /\ \A p \in Place : landed'[s][p] = IF p = place THEN landed[s][p] + Occurrences(text, s)
                                                            ELSE landed[s][p]
  <2>1. landed'[s] = [landed[s] EXCEPT ![place] = @ + Occurrences(text, s)]
    BY DEF Land
  <2>2. landed[s] \in [Place -> Nat] /\ Occurrences(text, s) \in Nat
    BY <1>1, <1>2
  <2>3. CASE place \in Place
    BY <2>1, <2>2, <2>3
  <2>4. CASE place \notin Place
    <3>1. landed'[s] = landed[s]
      BY <2>1, <2>2, <2>4
    <3> QED BY <2>2, <2>4, <3>1
  <2> QED BY <2>3, <2>4
<1>4. landed' = [s \in Session |-> landed'[s]]
  BY DEF Land
<1> QED BY <1>3, <1>4

(* The steps of the flow as steps of SpeechManager.                         *)
LEMMA FlowSteps ==
  ASSUME [DNext]_dvars
  PROVE  [Next]_vars
<1>1. CASE \E scr \in Screen : TapStarts(scr) \/ TapRefused(scr) \/ Navigate(scr)
  BY <1>1 DEF TapStarts, TapRefused, Navigate, Next
<1>2. CASE TapStop \/ TapCancel \/ LeaveDictating \/ Collect \/ Saved \/ EditorInsert
  BY <1>2 DEF TapStop, TapCancel, LeaveDictating, Collect, Saved, EditorInsert, Next
<1>3. CASE Background
  BY <1>3 DEF Background, Next
<1> QED BY <1>1, <1>2, <1>3 DEF DNext, dvars

(* What the flow does not see: a step of SpeechManager by itself, or a stop.*)
Unseen == (Background \/ TapStop \/ UNCHANGED dvars) /\ UNCHANGED <<flow, flowHistory>>

(* It makes nothing final but what it counts as published; and where no     *)
(* other session was met, only a session that is under way and has          *)
(* published nothing becomes final, and none gets on its way.               *)
LEMMA UnseenTexts ==
  ASSUME IInv, ServedInv, Unseen
  PROVE  /\ UNCHANGED <<overlapped, sessions, cancelled>>
         /\ \/ finalResult' \in {finalResult, <<>>} /\ published' = published
            \/ Publication(finalResult')
         /\ \A s \in Session : s \notin overlapped /\ InResult(s)' =>
              InResult(s) \/ (~Settled(s) /\ published[s] = 0)
         /\ \A s \in Session : loop[s] # "none" => loop'[s] # "none"
<1> USE DEF history, capture, publication, status, transcript
<1>0. TypeOK
  BY DEF IInv
<1>1. UNCHANGED <<overlapped, sessions, cancelled>>
  BY DEF Unseen, Background, TapStop, dvars, vars, OpenCapture, ShowListening, FallBack, Hear,
     LoopStep, Flush, SeeStop, Transcribed, Close, Fail, WakePublisher, Publish, Recognition, OnReadyForSpeech,
     OnRmsChanged, OnPartialResults, OnEndOfSpeech, OnResults, OnError, StopListening
<1>2. \A s \in Session : loop[s] # "none" => loop'[s] # "none"
  <2>1. CASE OpenCapture
    BY <1>0, <2>1 DEF OpenCapture, TypeOK
  <2>2. ASSUME NEW t \in Session, LoopStep(t) \/ Fail(t)
        PROVE  \A s \in Session : loop[s] # "none" => loop'[s] # "none"
    BY <1>0, <2>2 DEF LoopStep, Flush, SeeStop, Transcribed, AfterFlush, Close, Fail, TypeOK
  <2>3. CASE ~OpenCapture /\ ~(\E t \in Session : LoopStep(t) \/ Fail(t))
    <3>1. UNCHANGED loop
      BY <2>3 DEF Unseen, Background, TapStop, dvars, vars, ShowListening, FallBack, Hear, WakePublisher, Publish,
         Recognition, OnReadyForSpeech, OnRmsChanged, OnPartialResults, OnEndOfSpeech, OnResults,
         OnError, StopListening
    <3> QED BY <3>1
  <2> QED BY <2>1, <2>2, <2>3
<1>3. ASSUME NEW p \in publishing, Publish(p)
      PROVE  /\ Publication(finalResult')
             /\ \A s \in Session : s \notin overlapped /\ InResult(s)' =>
                  ~Settled(s) /\ published[s] = 0
  <2>1. finalResult' = p.text /\ Publication(p.text)
    BY <1>3 DEF Publish
  <2>2. \A s \in Session : s \notin overlapped /\ InResult(s)' => ~Settled(s) /\ published[s] = 0
    BY <2>1, PublisherOfText DEF InResult
  <2> QED BY <2>1, <2>2
<1>6. CASE WakePublisher
  <2>1. finalResult' \in {finalResult, <<>>} /\ published' = published
    BY <1>6 DEF WakePublisher, EmptyTranscript
  <2>2. \A s \in Session : InResult(s)' => InResult(s)
    BY <2>1, NobodySpoke DEF InResult, Contains
  <2> QED BY <1>1, <1>2, <2>1, <2>2
<1>4. CASE OnResults
  <2> DEFINE r == recognizer.session
  <2>1. /\ r \in Session /\ ~Settled(r)
        /\ r \notin overlapped => r = sessions /\ published[r] = 0
    BY <1>4, ServedSession
  <2>2. PICK text \in {<<>>, <<r>>} : finalResult' = text /\ Publication(text)
    BY <1>4 DEF OnResults
  <2>3. \A s : s # r => ~Contains(text, s)
    BY <2>1, <2>2, OneOccurrence, NobodySpoke
  <2>4. ASSUME NEW s \in Session, s \notin overlapped, InResult(s)'
        PROVE  ~Settled(s) /\ published[s] = 0
    <3>1. s = r
      BY <2>2, <2>3, <2>4 DEF InResult
    <3> QED BY <2>1, <2>4, <3>1
  <2> QED BY <1>1, <1>2, <2>2, <2>4
<1>5. CASE ~(\E p \in publishing : Publish(p)) /\ ~WakePublisher /\ ~OnResults
  <2>1. finalResult' = finalResult /\ published' = published
    BY <1>5 DEF Unseen, Background, TapStop, dvars, vars, OpenCapture, ShowListening, FallBack,
       Hear, LoopStep, Flush, SeeStop, Transcribed, Close, Fail, Recognition, OnReadyForSpeech,
       OnRmsChanged, OnPartialResults, OnEndOfSpeech, OnError, StopListening
  <2>2. \A s \in Session : InResult(s)' => InResult(s)
    BY <2>1 DEF InResult, Contains
  <2> QED BY <1>1, <1>2, <2>1, <2>2
<1> QED BY <1>1, <1>2, <1>3, <1>4, <1>5, <1>6

(* A session that has settled stays settled.                                *)
LEMMA UnseenWay ==
  ASSUME IInv, ServedInv, FlowTypes, Unseen, NEW s \in Session, s \notin overlapped, OnWay(s)'
  PROVE  OnWay(s)
<1> USE DEF history, capture, publication, status, transcript
<1>0. TypeOK /\ ControlInv /\ recognizer \in Recognizer
  BY DEF IInv, TypeOK
<1>1. /\ UNCHANGED <<sessions, saving, claim>>
      /\ InResult(s)' => InResult(s) \/ ~Settled(s)
  BY UnseenTexts DEF Unseen, flow, flowHistory
<1>2. main' # "ready" => main # "ready"
  BY DEF Unseen, Background, TapStop, dvars, vars, OpenCapture, ShowListening, FallBack, Hear,
     LoopStep, Flush, SeeStop, Transcribed, Close, Fail, WakePublisher, Publish, Recognition, OnReadyForSpeech,
     OnRmsChanged, OnPartialResults, OnEndOfSpeech, OnResults, OnError, StopListening
<1>3. ~Settled(s)' => ~Settled(s) \/ (main # "ready" /\ s = sessions)
  <2> SUFFICES ASSUME Settled(s), main = "ready" \/ s # sessions PROVE Settled(s)'
    OBVIOUS
  <2>1. CASE OpenCapture \/ FallBack
    <3>1. s # sessions /\ UNCHANGED <<publishers, publishing>>
      BY <2>1 DEF OpenCapture, FallBack
    <3>2. loop'[s] = loop[s]
      BY <1>0, <2>1, <3>1 DEF OpenCapture, FallBack, TypeOK
    <3>3. recognizer'.session # s /\ s \notin recognizer'.busy
      <4>1. recognizer.session # s /\ s \notin recognizer.busy
        BY DEF Settled
      <4>2. /\ recognizer'.session \in {recognizer.session, sessions}
            /\ recognizer'.busy \subseteq recognizer.busy \cup {sessions}
        BY <1>0, <2>1 DEF OpenCapture, FallBack, Serve, Recognizer
      <4> QED BY <3>1, <4>1, <4>2
    <3> QED BY <3>1, <3>2, <3>3 DEF Settled, InLoop, Draining, InHand
  <2>2. ASSUME NEW t \in Session, LoopStep(t) \/ Fail(t) PROVE Settled(s)'
    <3>1. t # s
      BY <2>2 DEF LoopStep, Flush, SeeStop, Transcribed, Close, Fail, Settled, InLoop, Draining
    <3>2. /\ loop'[s] = loop[s] /\ UNCHANGED <<recognizer, publishing>>
          /\ publishers' = publishers \/ publishers' = Append(publishers, t)
      BY <1>0, <2>2, <3>1 DEF LoopStep, Flush, SeeStop, Transcribed, Close, LaunchPublisher, Fail, TypeOK
    <3>3. Contains(Append(publishers, t), s) => Contains(publishers, s)
      BY <1>0, <3>1, AppendContains DEF TypeOK
    <3> QED BY <3>2, <3>3 DEF Settled, InLoop, Draining, InHand
  <2>3. CASE \/ WakePublisher \/ (\E p \in publishing : Publish(p)) \/ TapStop \/ ShowListening
             \/ (\E t \in Session : Hear(t)) \/ Recognition \/ UNCHANGED dvars
    <3>1. UNCHANGED loop
      BY <2>3 DEF WakePublisher, Publish, TapStop, StopListening, ShowListening, Hear, Recognition,
         OnReadyForSpeech, OnRmsChanged, OnPartialResults, OnEndOfSpeech, OnResults, OnError,
         dvars, vars
    <3>2. Delivering(s)' => Delivering(s)
      <4>1. CASE WakePublisher
        <5>1. /\ Contains(publishers, Head(publishers))
              /\ Contains(publishers', s) => Contains(publishers, s)
          BY <1>0, <4>1, WakePublishers DEF IInv
        <5>2. \A p \in publishing' : \/ p \in publishing
                                    \/ p = [session |-> Head(publishers), text |-> partialText]
          BY <4>1 DEF WakePublisher
        <5>3. InHand(s)' => InHand(s) \/ s = Head(publishers)
          BY <5>2 DEF InHand
        <5> QED BY <5>1, <5>3 DEF Delivering
      <4>2. CASE ~WakePublisher
        <5>1. publishers' = publishers /\ publishing' \subseteq publishing
          BY <2>3, <4>2 DEF Publish, TapStop, StopListening, ShowListening, Hear, Recognition,
             OnReadyForSpeech, OnRmsChanged, OnPartialResults, OnEndOfSpeech, OnResults, OnError,
             dvars, vars
        <5> QED BY <5>1 DEF Delivering, InHand
      <4> QED BY <4>1, <4>2
    <3>3. /\ recognizer'.session \in {recognizer.session, 0}
          /\ recognizer'.busy \subseteq recognizer.busy
      BY <1>0, <2>3 DEF WakePublisher, Publish, TapStop, StopListening, StopEngine, ShowListening, Hear,
         Recognition, OnReadyForSpeech, OnRmsChanged, OnPartialResults, OnEndOfSpeech, OnResults,
         OnError, Idle, dvars, vars, Recognizer
    <3>4. s # 0
      BY DEF Session
    <3> QED BY <3>1, <3>2, <3>3, <3>4 DEF Settled, InLoop, Draining, Delivering
  <2> QED BY <2>1, <2>2, <2>3 DEF Unseen, Background
<1>4. s \in 1..sessions \/ s \notin Undelivered'
  BY <1>1 DEF Undelivered
<1>5. CASE s \in Undelivered'
  <2>1. \/ ~Settled(s)' \/ BeingSaved(s)'
        \/ (InResult(s)' /\ claim'[s] # "ASSISTANT_REVIEW")
    BY <1>5 DEF Undelivered
  <2>2. BeingSaved(s)' <=> BeingSaved(s)
    BY <1>1 DEF BeingSaved
  <2> QED BY <1>1, <1>3, <1>4, <1>5, <2>1, <2>2 DEF OnWay, Undelivered
<1>6. CASE main' # "ready" /\ s = sessions'
  BY <1>1, <1>2, <1>6 DEF OnWay
<1> QED BY <1>5, <1>6 DEF OnWay

LEMMA FlowTypesStep ==
  ASSUME IInv, FlowTypes, [DNext]_dvars
  PROVE  FlowTypes'
<1>0. /\ TypeOK /\ PlaceOf(screen) \in Place \cup {Nowhere} /\ SinkPlace \in Place \cup {Nowhere}
      /\ Undelivered \subseteq Session /\ 1..sessions \subseteq Session
      /\ \A scr \in Screen : SinkOf[scr] \in DictationSink
  <2>1. TypeOK /\ 1..sessions \subseteq Session
    <3>1. TypeOK
      BY DEF IInv
    <3>2. sessions \in 0..MaxSessions
      BY <3>1 DEF TypeOK
    <3> QED BY <3>1, <3>2, SpeechAssumption DEF Session
  <2> QED BY <2>1, PlaceTypes
<1> USE DEF FlowTypes, history
<1>1. ASSUME NEW scr \in Screen, TapStarts(scr) PROVE FlowTypes'
  <2>1. sink' \in DictationSink
    BY <1>0, <1>1 DEF TapStarts, OrbStarts, ClaimSink
  <2>2. sessions + 1 \in Session /\ scr = screen
    <3>1. sessions \in 0..MaxSessions /\ sessions < MaxSessions
      BY <1>0, <1>1 DEF TapStarts, StartListening, TypeOK
    <3>2. scr = screen
      BY <1>1 DEF TapStarts, OrbStarts
    <3> QED BY <3>1, <3>2, SpeechAssumption DEF Session
  <2>3. claim' \in [Session -> DictationSink \cup {"none"}] /\ home' \in [Session -> Place \cup {Nowhere}]
    BY <1>0, <1>1, <2>2 DEF TapStarts
  <2>4. /\ crowded' = IF Undelivered = {} THEN crowded ELSE crowded \cup Undelivered \cup {sessions + 1}
        /\ UNCHANGED <<screen, visit, seen, saving, landed, discarded, strayed>>
    BY <1>1 DEF TapStarts
  <2>5. overlapped' \subseteq crowded'
    <3> DEFINE U == {s \in 1..sessions : ~Settled(s)}
    <3>1. U \subseteq Undelivered
      BY DEF Undelivered
    <3>2. overlapped' = IF U = {} THEN overlapped ELSE overlapped \cup U \cup {sessions + 1}
      BY <1>1 DEF TapStarts, StartListening
    <3> QED BY <2>4, <3>1, <3>2
  <2>6. crowded' \subseteq Session
    BY <1>0, <2>2, <2>4
  <2> QED BY <2>1, <2>3, <2>4, <2>5, <2>6
<1>2. ASSUME NEW scr \in Screen, TapRefused(scr) PROVE FlowTypes'
  <2>1. sink' \in DictationSink
    BY <1>0, <1>2 DEF TapRefused, OrbStarts, ClaimSink
  <2>2. /\ crowded' = crowded \cup Undelivered /\ UNCHANGED overlapped
        /\ UNCHANGED <<screen, visit, seen, saving, claim, home, landed, discarded, strayed>>
    BY <1>2 DEF TapRefused, StartDenied, vars
  <2> QED BY <1>0, <2>1, <2>2
<1>3. ASSUME NEW to \in Screen, Navigate(to) PROVE FlowTypes'
  <2>1. /\ screen' \in Screen /\ visit' \in 0..MaxVisits /\ (screen' = "editor" => visit' # 0)
    BY <1>3, VisitAssumption DEF Navigate
  <2>2. strayed' \subseteq Session
    <3>1. Adrift \subseteq Session
      BY <1>0 DEF Adrift
    <3> QED BY <1>3, <3>1 DEF Navigate
  <2>3. UNCHANGED <<overlapped, sink, seen, saving, claim, home, landed, discarded, crowded>>
    BY <1>3 DEF Navigate, vars
  <2> QED BY <2>1, <2>2, <2>3
<1>4. CASE TapCancel
  <2>1. discarded' \subseteq Session
    BY <1>0, <1>4 DEF TapCancel
  <2>2. UNCHANGED <<overlapped, screen, visit, sink, seen, saving, claim, home, landed, crowded, strayed>>
    BY <1>4 DEF TapCancel, CancelListening, flow
  <2> QED BY <2>1, <2>2
<1>5. CASE Collect
  <2>1. finalResult \in Seq(Session)
    BY <1>0 DEF TypeOK
  <2>2. seen' \in Seq(Session) /\ saving' \in [place : Place \cup {Nowhere}, text : Seq(Session)]
    BY <1>0, <1>5, <2>1, EmptyText DEF Collect, NotSaving
  <2>3. UNCHANGED <<overlapped, screen, visit, sink, claim, home, landed, discarded, crowded, strayed>>
    BY <1>5 DEF Collect, vars, flowHistory
  <2> QED BY <2>2, <2>3
<1>6. CASE Saved
  <2>1. saving.text \in Seq(Session)
    OBVIOUS
  <2>2. landed' \in [Session -> [Place -> Nat]]
    BY <1>6, <2>1, Landing DEF Saved
  <2>3. saving' \in [place : Place \cup {Nowhere}, text : Seq(Session)]
    BY <1>6, EmptyText DEF Saved, NotSaving
  <2>4. UNCHANGED <<overlapped, screen, visit, sink, seen, claim, home, discarded, crowded, strayed>>
    BY <1>6 DEF Saved, ClearFinalResult
  <2> QED BY <2>2, <2>3, <2>4
<1>7. CASE EditorInsert
  <2>1. finalResult \in Seq(Session)
    BY <1>0 DEF TypeOK
  <2>2. landed' \in [Session -> [Place -> Nat]]
    BY <1>7, <2>1, Landing DEF EditorInsert
  <2>3. UNCHANGED <<overlapped, screen, visit, sink, seen, saving, claim, home, discarded, crowded, strayed>>
    BY <1>7 DEF EditorInsert, ClearFinalResult, flow
  <2> QED BY <2>2, <2>3
<1>9. CASE LeaveDictating
  <2>1. Adrift \subseteq Session
    BY <1>0 DEF Adrift
  <2>2. screen' \in Screen /\ screen' # "editor" /\ strayed' \subseteq Session
    BY <1>9, <2>1 DEF LeaveDictating, Screen
  <2>3. UNCHANGED <<overlapped, visit, sink, seen, saving, claim, home, landed, discarded, crowded>>
    BY <1>9 DEF LeaveDictating, StopListening
  <2> QED BY <2>2, <2>3
<1>8. CASE Background \/ TapStop \/ UNCHANGED dvars
  <2>1. UNCHANGED <<screen, visit, sink, seen, saving, claim, home, landed, discarded, crowded, strayed>>
    BY <1>8 DEF Background, TapStop, dvars, flow, flowHistory
  <2>2. UNCHANGED overlapped
    BY <1>8 DEF Background, TapStop, dvars, vars, OpenCapture, ShowListening, FallBack, Hear,
       LoopStep, Flush, SeeStop, Transcribed, Close, Fail, WakePublisher, Publish, Recognition, OnReadyForSpeech,
       OnRmsChanged, OnPartialResults, OnEndOfSpeech, OnResults, OnError, StopListening
  <2> QED BY <2>1, <2>2
<1> QED BY <1>1, <1>2, <1>3, <1>4, <1>5, <1>6, <1>7, <1>8, <1>9 DEF DNext

(* What a tap, a move between screens or a consumer leaves alone.           *)
LEMMA UnseenCase ==
  ASSUME [DNext]_dvars
  PROVE  \/ \E scr \in Screen : TapStarts(scr) \/ TapRefused(scr) \/ Navigate(scr)
         \/ TapCancel \/ LeaveDictating \/ Collect \/ Saved \/ EditorInsert \/ Unseen
<1>1. Background \/ TapStop \/ UNCHANGED dvars => UNCHANGED <<flow, flowHistory>>
  BY DEF Background, TapStop, dvars
<1> QED BY <1>1 DEF DNext, Unseen

LEMMA SaidStep ==
  ASSUME IInv, ServedInv, FlowTypes, SaidInv, [DNext]_dvars
  PROVE  SaidInv'
<1> USE DEF history, capture, publication, status, transcript, flow, flowHistory
<1>0. TypeOK /\ finalResult \in Seq(Session) /\ published \in [Session -> Nat]
  BY DEF IInv, TypeOK
<1>1. CASE LeaveDictating \/ \E scr \in Screen : TapStarts(scr) \/ TapRefused(scr) \/ Navigate(scr)
  <2>1. /\ UNCHANGED <<published, saving, landed>>
        /\ finalResult' = finalResult \/ finalResult' = <<>>
    BY <1>1 DEF TapStarts, StartListening, EmptyTranscript, TapRefused, StartDenied, Navigate, LeaveDictating,
       StopListening, vars
  <2>2. \A s \in Session : /\ InResult(s)' => InResult(s)
                           /\ BeingSaved(s)' => BeingSaved(s)
    BY <2>1, NobodySpoke DEF InResult, BeingSaved
  <2> QED BY <2>1, <2>2 DEF SaidInv
<1>2. CASE TapCancel
  <2>1. UNCHANGED <<published, saving, landed>> /\ finalResult' = <<>>
    BY <1>2 DEF TapCancel, CancelListening, EmptyTranscript
  <2>2. \A s \in Session : ~InResult(s)' /\ (BeingSaved(s)' => BeingSaved(s))
    BY <2>1, NobodySpoke DEF InResult, BeingSaved
  <2> QED BY <2>1, <2>2 DEF SaidInv
<1>3. CASE Collect
  <2>1. /\ UNCHANGED <<published, finalResult, landed>>
        /\ saving'.text = finalResult \/ saving'.text = <<>>
    BY <1>3 DEF Collect, vars, NotSaving
  <2>2. \A s \in Session : /\ InResult(s)' => InResult(s)
                           /\ BeingSaved(s)' => InResult(s)
    BY <2>1, NobodySpoke DEF InResult, BeingSaved
  <2> QED BY <2>1, <2>2 DEF SaidInv
<1>4. CASE Saved
  <2>1. /\ UNCHANGED published /\ finalResult' = <<>> /\ saving'.text = <<>>
        /\ Land(saving.text, saving.place) /\ saving.text \in Seq(Session)
    BY <1>4 DEF Saved, ClearFinalResult, EmptyTranscript, NotSaving, FlowTypes
  <2>2. \A s \in Session : ~InResult(s)' /\ ~BeingSaved(s)'
    BY <2>1, NobodySpoke DEF InResult, BeingSaved
  <2>3. ASSUME NEW s \in Session, NEW p \in Place, landed'[s][p] > 0 PROVE published[s] > 0
    <3>1. CASE BeingSaved(s)
      BY <3>1 DEF SaidInv
    <3>2. CASE ~BeingSaved(s)
      <4>1. Occurrences(saving.text, s) = 0 /\ landed[s][p] \in Nat
        BY <2>1, <3>2, NoOccurrence DEF BeingSaved, FlowTypes
      <4>2. landed'[s][p] = landed[s][p]
        BY <2>1, <4>1, Landing
      <4> QED BY <2>3, <4>2 DEF SaidInv
    <3> QED BY <3>1, <3>2
  <2> QED BY <2>1, <2>2, <2>3 DEF SaidInv
<1>5. CASE EditorInsert
  <2>1. /\ UNCHANGED <<published, saving>> /\ finalResult' = <<>>
        /\ Land(finalResult, <<"editor", visit>>)
    BY <1>5 DEF EditorInsert, ClearFinalResult, EmptyTranscript
  <2>2. \A s \in Session : ~InResult(s)' /\ (BeingSaved(s)' => BeingSaved(s))
    BY <2>1, NobodySpoke DEF InResult, BeingSaved
  <2>3. ASSUME NEW s \in Session, NEW p \in Place, landed'[s][p] > 0 PROVE published[s] > 0
    <3>1. CASE InResult(s)
      BY <3>1 DEF SaidInv
    <3>2. CASE ~InResult(s)
      <4>1. Occurrences(finalResult, s) = 0 /\ landed[s][p] \in Nat
        BY <1>0, <3>2, NoOccurrence DEF InResult, FlowTypes
      <4>2. landed'[s][p] = landed[s][p]
        BY <1>0, <2>1, <4>1, Landing
      <4> QED BY <2>3, <4>2 DEF SaidInv
    <3> QED BY <3>1, <3>2
  <2> QED BY <2>1, <2>2, <2>3 DEF SaidInv
<1>6. CASE Unseen
  <2>1. UNCHANGED <<saving, landed>>
    BY <1>6 DEF Unseen
  <2>2. \A s \in Session : BeingSaved(s)' => BeingSaved(s)
    BY <2>1 DEF BeingSaved
  <2>3. \/ finalResult' \in {finalResult, <<>>} /\ published' = published
        \/ Publication(finalResult')
    BY <1>6, UnseenTexts
  <2>4. CASE finalResult' \in {finalResult, <<>>} /\ published' = published
    <3>1. \A s \in Session : InResult(s)' => InResult(s)
      BY <2>4, NobodySpoke DEF InResult
    <3> QED BY <2>1, <2>2, <2>4, <3>1 DEF SaidInv
  <2>5. CASE Publication(finalResult')
    <3>0. finalResult' \in Seq(Session)
      BY <1>6, Inductive, FlowSteps DEF Unseen, DNext, IInv, TypeOK
    <3>1. \A s \in Session : published'[s] = published[s] + Occurrences(finalResult', s)
      BY <2>5 DEF Publication
    <3>2. ASSUME NEW s \in Session
          PROVE  /\ published[s] \in Nat /\ published'[s] \in Nat
                 /\ published'[s] >= published[s]
                 /\ InResult(s)' => published'[s] > 0
      <4>1. Occurrences(finalResult', s) \in Nat /\ published[s] \in Nat
        BY <1>0, <3>0, OccurrencesType
      <4>2. InResult(s)' => Occurrences(finalResult', s) > 0
        BY <3>0, SomeOccurrence DEF InResult
      <4> QED BY <3>1, <4>1, <4>2
    <3>3. ASSUME NEW s \in Session, BeingSaved(s)' \/ (\E p \in Place : landed'[s][p] > 0)
          PROVE  published'[s] > 0
      <4>1. published[s] > 0
        BY <2>1, <2>2, <3>3 DEF SaidInv
      <4> QED BY <3>2, <4>1
    <3> QED BY <3>2, <3>3 DEF SaidInv
  <2> QED BY <2>3, <2>4, <2>5
<1> QED BY <1>1, <1>2, <1>3, <1>4, <1>5, <1>6, UnseenCase

(* Whatever was published is of a session that has started.                 *)
LEMMA SaidStarted ==
  ASSUME IInv, SaidInv, NEW s \in Session
  PROVE  /\ published[s] = 0 => ~InResult(s) /\ ~BeingSaved(s) /\ \A p \in Place : ~(landed[s][p] > 0)
         /\ Unheard(s) => published[s] = 0 /\ s \notin cancelled
         /\ InResult(s) \/ BeingSaved(s) => s \in 1..sessions
<1>1. Unheard(s) => published[s] = 0 /\ s \notin cancelled
  BY DEF IInv, TextInv, Unheard
<1>2. s \notin 1..sessions => Unheard(s)
  BY DEF IInv, TypeOK, Session, Unheard
<1> QED BY <1>1, <1>2 DEF SaidInv

(* A step that only takes from what is under way, or saves a result, starts *)
(* nothing.                                                                 *)
LEMMA WayLeft ==
  ASSUME UNCHANGED <<main, sessions, loop, publishers, publishing, claim>>,
         recognizer'.session = recognizer.session, recognizer'.busy = recognizer.busy,
         NEW s \in Session, InResult(s)' => InResult(s),
         BeingSaved(s)' => BeingSaved(s) \/ (InResult(s) /\ claim[s] # "ASSISTANT_REVIEW"),
         OnWay(s)'
  PROVE  OnWay(s)
<1>1. Settled(s)' <=> Settled(s)
  BY DEF Settled, InLoop, Draining, InHand
<1> QED BY <1>1 DEF OnWay, Undelivered

LEMMA RouteStep ==
  ASSUME IInv, ServedInv, FlowTypes, SaidInv, RouteInv, [DNext]_dvars
  PROVE  RouteInv'
<1> USE DEF history, capture, publication, status, transcript
<1> DEFINE Routed(s) == /\ sink = claim[s] /\ (claim[s] = "EDITOR_CURSOR" <=> screen = "editor")
                        /\ home[s] = SinkHome
                        /\ BeingSaved(s) => saving.place = home[s] /\ screen # "editor"
<1>0. TypeOK /\ recognizer \in Recognizer /\ sessions \in Nat
  BY DEF IInv, TypeOK
<1> SUFFICES ASSUME NEW s \in Session, OnWay(s)', Undisturbed(s)' PROVE Routed(s)'
  BY DEF RouteInv
<1>1. ASSUME NEW scr \in Screen, TapStarts(scr) PROVE Routed(s)'
  <2> DEFINE n == sessions + 1
  <2>1. /\ main = "ready" /\ screen = scr /\ n \in Session
        /\ finalResult' = <<>> /\ sessions' = n
        /\ UNCHANGED <<screen, visit, saving, strayed, loop, publishers, publishing, recognizer>>
    <3>1. sessions \in 0..MaxSessions /\ sessions < MaxSessions
      BY <1>0, <1>1 DEF TapStarts, StartListening, TypeOK
    <3> QED BY <1>1, <3>1, SpeechAssumption
            DEF TapStarts, OrbStarts, StartListening, EmptyTranscript, Session
  <2>2. /\ claim' = [claim EXCEPT ![n] = SinkOf[scr]]
        /\ home' = [home EXCEPT ![n] = PlaceOf(scr)]
        /\ sink' = IF scr = "assistant" THEN sink ELSE SinkOf[scr]
        /\ crowded' = IF Undelivered = {} THEN crowded ELSE crowded \cup Undelivered \cup {n}
    BY <1>1 DEF TapStarts, OrbStarts, ClaimSink
  <2>3. CASE s = n
    <3>1. claim'[s] = SinkOf[scr] /\ home'[s] = PlaceOf(scr)
      BY <2>1, <2>2, <2>3 DEF FlowTypes
    <3>2. scr # "assistant"
      BY <3>1 DEF Undisturbed, SinkOf
    <3>3. sink' = SinkOf[scr]
      BY <2>2, <3>2
    <3>4. scr \in {"home", "journal", "editor"}
      BY <3>2 DEF Screen
    <3>5. SinkOf["home"] = "HOME_NOTE" /\ SinkOf["journal"] = "JOURNAL_APPEND"
          /\ SinkOf["editor"] = "EDITOR_CURSOR"
      BY DEF SinkOf
    <3>6. claim'[s] = "EDITOR_CURSOR" <=> screen' = "editor"
      BY <2>1, <3>1, <3>4, <3>5
    <3>7. home'[s] = SinkHome'
      BY <2>1, <3>1, <3>3, <3>4, <3>5 DEF PlaceOf, SinkHome, SinkPlace
    <3>8. ~BeingSaved(s)'
      <4>1. ~BeingSaved(s)
        BY <1>0, <2>3, SaidStarted DEF Unheard
      <4> QED BY <2>1, <4>1 DEF BeingSaved
    <3> QED BY <3>1, <3>3, <3>6, <3>7, <3>8
  <2>4. CASE s # n
    <3>1. s \in Undelivered'
      BY <2>1, <2>4 DEF OnWay
    <3>2. ~InResult(s)' /\ (BeingSaved(s)' => BeingSaved(s)) /\ (Settled(s) => Settled(s)')
      BY <2>1, NobodySpoke DEF InResult, BeingSaved, Settled, InLoop, Draining, InHand
    <3>3. s \in 1..n
      BY <2>1, <3>1 DEF Undelivered
    <3>4. s \in 1..sessions
      BY <1>0, <2>4, <3>3
    <3>5. s \in Undelivered
      BY <3>1, <3>2, <3>4 DEF Undelivered
    <3> QED BY <2>2, <3>5 DEF Undisturbed
  <2> QED BY <2>3, <2>4
<1>2. ASSUME NEW scr \in Screen, TapRefused(scr) PROVE Routed(s)'
  <2>1. /\ UNCHANGED <<main, sessions, loop, publishers, publishing, recognizer, claim, finalResult, saving>>
        /\ main = "ready" /\ crowded' = crowded \cup Undelivered
    BY <1>2 DEF TapRefused, OrbStarts, StartDenied, vars
  <2>2. OnWay(s)
    BY <2>1, WayLeft DEF InResult, BeingSaved
  <2> QED BY <2>1, <2>2 DEF OnWay, Undisturbed
<1>3. ASSUME NEW to \in Screen, Navigate(to) PROVE Routed(s)'
  <2>1. /\ UNCHANGED <<main, sessions, loop, publishers, publishing, recognizer, claim, finalResult, saving,
                       sink, home, crowded>>
        /\ main = "ready" /\ screen' = to /\ visit' = IF to = "editor" THEN visit + 1 ELSE visit
        /\ strayed' = IF "editor" \in {screen, to}
                      THEN strayed \cup Adrift ELSE strayed
    BY <1>3 DEF Navigate, vars
  <2>2. OnWay(s)
    BY <2>1, WayLeft DEF InResult, BeingSaved
  <2>3. s \in Undelivered /\ s \in 1..sessions
    BY <2>1, <2>2 DEF OnWay, Undelivered
  <2>4. screen # "editor" /\ to # "editor"
    BY <2>1, <2>3 DEF Undisturbed, Adrift
  <2>5. Routed(s)
    BY <2>1, <2>2, <2>4 DEF RouteInv, Undisturbed
  <2> QED BY <2>1, <2>4, <2>5 DEF SinkHome, SinkPlace, BeingSaved
<1>9. CASE LeaveDictating
  <2>1. /\ UNCHANGED <<main, sessions, loop, publishers, publishing, claim, finalResult, saving>>
        /\ main = "ready" /\ strayed' = strayed \cup Adrift
        /\ recognizer'.session = recognizer.session /\ recognizer'.busy = recognizer.busy
    BY <1>0, <1>9 DEF LeaveDictating, StopListening, StopEngine, Recognizer
  <2>2. OnWay(s)
    BY <2>1, WayLeft DEF InResult, BeingSaved
  <2>3. s \in Adrift
    BY <2>1, <2>2 DEF OnWay, Undelivered, Adrift
  <2> QED BY <2>1, <2>3 DEF Undisturbed
<1>4. CASE TapCancel
  <2>1. /\ UNCHANGED <<main, sessions, loop, publishers, publishing, claim, screen, visit, sink, saving, home,
                       crowded, strayed>>
        /\ finalResult' = <<>>
        /\ recognizer'.session = recognizer.session /\ recognizer'.busy = recognizer.busy
    BY <1>0, <1>4 DEF TapCancel, CancelListening, EmptyTranscript, StopEngine, flow, Recognizer
  <2>2. OnWay(s)
    BY <2>1, WayLeft, NobodySpoke DEF InResult, BeingSaved
  <2>3. Routed(s)
    BY <2>1, <2>2 DEF RouteInv, Undisturbed
  <2> QED BY <2>1, <2>3 DEF SinkHome, SinkPlace, BeingSaved
<1>5. CASE Collect
  <2>1. /\ UNCHANGED <<main, sessions, loop, publishers, publishing, recognizer, claim, finalResult, screen,
                       visit, sink, home, crowded, strayed>>
        /\ \/ saving'.text = <<>>
           \/ saving'.text = finalResult /\ saving'.place = SinkPlace /\ SinkPlace # Nowhere
    BY <1>5 DEF Collect, vars, flowHistory, NotSaving
  <2>2. claim[s] # "ASSISTANT_REVIEW"
    BY <2>1 DEF Undisturbed
  <2>3. /\ InResult(s)' => InResult(s)
        /\ BeingSaved(s)' => InResult(s) /\ saving'.place = SinkPlace /\ SinkPlace # Nowhere
    BY <2>1, NobodySpoke DEF InResult, BeingSaved
  <2>4. OnWay(s)
    BY <2>1, <2>2, <2>3, WayLeft
  <2>5. Routed(s)
    BY <2>1, <2>4 DEF RouteInv, Undisturbed
  <2>6. SinkPlace # Nowhere => sink # "EDITOR_CURSOR"
    BY DEF SinkPlace
  <2>7. BeingSaved(s)' => saving'.place = home[s] /\ screen # "editor"
    BY <2>3, <2>5, <2>6 DEF SinkHome
  <2> QED BY <2>1, <2>5, <2>7 DEF SinkHome, SinkPlace
<1>6. CASE Saved
  <2>1. /\ UNCHANGED <<main, sessions, loop, publishers, publishing, recognizer, claim, screen, visit, sink,
                       home, crowded, strayed>>
        /\ finalResult' = <<>> /\ saving'.text = <<>>
    BY <1>6 DEF Saved, ClearFinalResult, EmptyTranscript, NotSaving
  <2>2. ~InResult(s)' /\ ~BeingSaved(s)'
    BY <2>1, NobodySpoke DEF InResult, BeingSaved
  <2>3. OnWay(s)
    BY <2>1, <2>2, WayLeft
  <2>4. Routed(s)
    BY <2>1, <2>3 DEF RouteInv, Undisturbed
  <2> QED BY <2>1, <2>2, <2>4 DEF SinkHome, SinkPlace
<1>7. CASE EditorInsert
  <2>1. /\ UNCHANGED <<main, sessions, loop, publishers, publishing, recognizer, claim, screen, visit, sink,
                       saving, home, crowded, strayed>>
        /\ finalResult' = <<>>
    BY <1>7 DEF EditorInsert, ClearFinalResult, EmptyTranscript, flow
  <2>2. OnWay(s)
    BY <2>1, WayLeft, NobodySpoke DEF InResult, BeingSaved
  <2>3. Routed(s)
    BY <2>1, <2>2 DEF RouteInv, Undisturbed
  <2> QED BY <2>1, <2>3 DEF SinkHome, SinkPlace, BeingSaved
<1>8. CASE Unseen
  <2>1. UNCHANGED <<screen, visit, sink, saving, claim, home, crowded, strayed>>
    BY <1>8 DEF Unseen, flow, flowHistory
  <2>2. Undisturbed(s) /\ s \notin overlapped
    BY <2>1 DEF Undisturbed, FlowTypes
  <2>3. OnWay(s)
    BY <1>8, <2>2, UnseenWay
  <2>4. Routed(s)
    BY <2>2, <2>3 DEF RouteInv
  <2> QED BY <2>1, <2>4 DEF SinkHome, SinkPlace, BeingSaved
<1> QED BY <1>1, <1>2, <1>3, <1>4, <1>5, <1>6, <1>7, <1>8, <1>9, UnseenCase

LEMMA FlightTypes ==
  ASSUME IInv, FlowTypes, NEW s \in Session
  PROVE  /\ finalResult \in Seq(Session) /\ saving.text \in Seq(Session)
         /\ Occurrences(finalResult, s) \in Nat /\ Occurrences(saving.text, s) \in Nat
         /\ Occurrences(<<>>, s) = 0
         /\ ~InResult(s) => Occurrences(finalResult, s) = 0
         /\ ~BeingSaved(s) => Occurrences(saving.text, s) = 0
         /\ published[s] \in Nat /\ \A p \in Place : landed[s][p] \in Nat
<1>1. finalResult \in Seq(Session) /\ saving.text \in Seq(Session)
  BY DEF IInv, TypeOK, FlowTypes
<1>2. published[s] \in Nat /\ \A p \in Place : landed[s][p] \in Nat
  BY DEF IInv, TypeOK, FlowTypes
<1>3. Occurrences(<<>>, s) = 0
  BY EmptyText, NobodySpoke, NoOccurrence
<1> QED BY <1>1, <1>2, <1>3, OccurrencesType, NoOccurrence DEF InResult, BeingSaved

(* Each consumer takes what it lands out of what is on its way: the         *)
(* collector for a sink of its own, the editor only when the collector has  *)
(* left the result to it.                                                   *)
LEMMA LandStep ==
  ASSUME IInv, ServedInv, FlowTypes, SaidInv, RouteInv, LandInv, [DNext]_dvars
  PROVE  LandInv'
<1> USE DEF history, capture, publication, status, transcript
<1> DEFINE Right(s) == \A p \in Place :
             IF p = home[s] THEN landed[s][p] + InFlight(s) <= published[s] ELSE landed[s][p] = 0
<1> SUFFICES ASSUME NEW s \in Session, Undisturbed(s)' PROVE Right(s)'
  BY DEF LandInv
<1>0. /\ finalResult \in Seq(Session) /\ saving.text \in Seq(Session)
      /\ Occurrences(finalResult, s) \in Nat /\ Occurrences(saving.text, s) \in Nat
      /\ Occurrences(<<>>, s) = 0
      /\ ~InResult(s) => Occurrences(finalResult, s) = 0
      /\ ~BeingSaved(s) => Occurrences(saving.text, s) = 0
      /\ published[s] \in Nat /\ \A p \in Place : landed[s][p] \in Nat
  BY FlightTypes
\* A step that lands nothing and publishes nothing.
<1>1. ASSUME Undisturbed(s), UNCHANGED <<published, landed, home, saving>>,
             finalResult' \in {finalResult, <<>>}
      PROVE  Right(s)'
  <2>1. BeingSaved(s)' <=> BeingSaved(s)
    BY <1>1 DEF BeingSaved
  <2>2. InFlight(s)' <= InFlight(s) /\ InFlight(s)' \in Nat /\ InFlight(s) \in Nat
    BY <1>0, <1>1, <2>1 DEF InFlight
  <2>3. Right(s)
    BY <1>1 DEF LandInv
  <2>4. ASSUME NEW p \in Place, p = home[s] PROVE landed[s][p] + InFlight(s)' <= published[s]
    BY <1>0, <2>2, <2>3, <2>4
  <2> QED BY <1>1, <2>3, <2>4
<1>2. ASSUME NEW scr \in Screen, TapStarts(scr) PROVE Right(s)'
  <2> DEFINE n == sessions + 1
  <2>1. /\ finalResult' = <<>> /\ UNCHANGED <<published, landed, saving, strayed>>
        /\ crowded \subseteq crowded'
    BY <1>2 DEF TapStarts, StartListening, EmptyTranscript
  <2>2. claim' = [claim EXCEPT ![n] = SinkOf[scr]] /\ home' = [home EXCEPT ![n] = PlaceOf(scr)]
    BY <1>2 DEF TapStarts
  <2>3. CASE s = n
    <3>1. published[s] = 0 /\ ~BeingSaved(s) /\ \A p \in Place : ~(landed[s][p] > 0)
      <4>1. s > sessions
        <5>1. sessions \in Nat
          BY SpeechAssumption DEF IInv, TypeOK
        <5> QED BY <2>3, <5>1
      <4>2. Unheard(s)
        BY <4>1 DEF Unheard
      <4> QED BY <4>2, SaidStarted
    <3>2. InFlight(s)' = 0
      BY <1>0, <2>1, <3>1 DEF InFlight, BeingSaved
    <3> QED BY <1>0, <2>1, <3>1, <3>2
  <2>4. CASE s # n
    <3>1. claim'[s] = claim[s] /\ home'[s] = home[s]
      BY <2>2, <2>4 DEF FlowTypes
    <3>2. Undisturbed(s)
      BY <2>1, <3>1 DEF Undisturbed
    <3>3. Right(s)
      BY <3>2 DEF LandInv
    <3>4. InFlight(s)' <= InFlight(s) /\ InFlight(s)' \in Nat /\ InFlight(s) \in Nat
      BY <1>0, <2>1 DEF InFlight, BeingSaved
    <3>5. ASSUME NEW p \in Place, p = home[s] PROVE landed[s][p] + InFlight(s)' <= published[s]
      BY <1>0, <3>3, <3>4, <3>5
    <3> QED BY <2>1, <3>1, <3>3, <3>5
  <2> QED BY <2>3, <2>4
<1>3. CASE \E scr \in Screen : TapRefused(scr) \/ Navigate(scr)
  <2>1. /\ UNCHANGED <<finalResult, published, landed, claim, home, saving>>
        /\ crowded \subseteq crowded' /\ strayed \subseteq strayed'
    BY <1>3 DEF TapRefused, StartDenied, Navigate, vars
  <2>2. Undisturbed(s)
    BY <2>1 DEF Undisturbed
  <2> QED BY <1>1, <2>1, <2>2
<1>4. CASE TapCancel
  <2>1. /\ finalResult' = <<>>
        /\ UNCHANGED <<published, landed, claim, home, saving, crowded, strayed>>
    BY <1>4 DEF TapCancel, CancelListening, EmptyTranscript, flow
  <2>2. Undisturbed(s)
    BY <2>1 DEF Undisturbed
  <2> QED BY <1>1, <2>1, <2>2
<1>5. CASE Collect
  <2>1. /\ UNCHANGED <<finalResult, published, landed, claim, home, crowded, strayed>>
        /\ saving = NotSaving /\ (saving'.text = <<>> \/ saving'.text = finalResult)
    BY <1>5 DEF Collect, vars, flowHistory, NotSaving
  <2>2. Undisturbed(s)
    BY <2>1 DEF Undisturbed
  <2>3. ~BeingSaved(s)
    BY <2>1, NobodySpoke DEF BeingSaved, NotSaving
  <2>4. InFlight(s)' = InFlight(s)
    <3>1. CASE saving'.text = <<>>
      <4>1. ~BeingSaved(s)'
        BY <3>1, NobodySpoke DEF BeingSaved
      <4> QED BY <2>1, <2>3, <4>1 DEF InFlight
    <3>2. CASE saving'.text = finalResult
      BY <2>1, <2>3, <3>2 DEF InFlight
    <3> QED BY <2>1, <3>1, <3>2
  <2>5. Right(s)
    BY <2>2 DEF LandInv
  <2> QED BY <2>1, <2>4, <2>5
<1>6. CASE Saved
  <2>1. /\ UNCHANGED <<published, claim, home, crowded, strayed>>
        /\ Land(saving.text, saving.place) /\ finalResult' = <<>> /\ saving'.text = <<>>
    BY <1>6 DEF Saved, ClearFinalResult, EmptyTranscript, NotSaving
  <2>2. Undisturbed(s)
    BY <2>1 DEF Undisturbed
  <2>3. Right(s)
    BY <2>2 DEF LandInv
  <2>4. InFlight(s)' = 0
    BY <1>0, <2>1 DEF InFlight
  <2>5. \A p \in Place : landed'[s][p] = IF p = saving.place
                                         THEN landed[s][p] + Occurrences(saving.text, s)
                                         ELSE landed[s][p]
    BY <1>0, <2>1, Landing
  <2>6. CASE BeingSaved(s)
    <3>1. OnWay(s)
      <4>1. s \in 1..sessions
        BY <2>6, SaidStarted
      <4> QED BY <2>6, <4>1 DEF OnWay, Undelivered
    <3>2. saving.place = home[s]
      BY <2>2, <2>6, <3>1 DEF RouteInv
    <3>3. InFlight(s) = Occurrences(saving.text, s)
      BY <2>6 DEF InFlight
    <3>4. \A p \in Place : IF p = home[s] THEN landed'[s][p] + 0 <= published[s] ELSE landed'[s][p] = 0
      BY <1>0, <2>3, <2>5, <3>2, <3>3
    <3> QED BY <2>1, <2>4, <3>4
  <2>7. CASE ~BeingSaved(s)
    <3>1. \A p \in Place : landed'[s][p] = landed[s][p]
      BY <1>0, <2>5, <2>7
    <3>2. InFlight(s) \in Nat
      BY <1>0 DEF InFlight
    <3>3. \A p \in Place : IF p = home[s] THEN landed[s][p] + 0 <= published[s] ELSE landed[s][p] = 0
      BY <1>0, <2>3, <3>2
    <3> QED BY <2>1, <2>4, <3>1, <3>3
  <2> QED BY <2>6, <2>7
<1>7. CASE EditorInsert
  <2>0. PICK place : place = <<"editor", visit>>
    OBVIOUS
  <2>1. /\ UNCHANGED <<published, claim, home, saving, crowded, strayed>>
        /\ Land(finalResult, place) /\ finalResult' = <<>> /\ screen = "editor"
    BY <1>7, <2>0 DEF EditorInsert, ClearFinalResult, EmptyTranscript, flow
  <2>2. Undisturbed(s)
    BY <2>1 DEF Undisturbed
  <2>3. CASE ~InResult(s)
    <3>1. \A p \in Place : landed'[s][p] = landed[s][p]
      <4>1. \A p \in Place : landed'[s][p] = IF p = place
                                             THEN landed[s][p] + Occurrences(finalResult, s)
                                             ELSE landed[s][p]
        BY <1>0, <2>1, Landing
      <4> QED BY <1>0, <2>3, <4>1
    <3>2. Right(s)
      BY <2>2 DEF LandInv
    <3>3. InFlight(s)' = InFlight(s)
      <4>1. BeingSaved(s)' <=> BeingSaved(s)
        BY <2>1 DEF BeingSaved
      <4> QED BY <1>0, <2>1, <2>3, <4>1 DEF InFlight
    <3> QED BY <2>1, <3>1, <3>2, <3>3
  <2>4. CASE InResult(s)
    <3>1. OnWay(s)
      <4>1. s \in 1..sessions
        BY <2>4, SaidStarted
      <4> QED BY <2>2, <2>4, <4>1 DEF OnWay, Undelivered, Undisturbed
    <3>2. home[s] = place /\ ~BeingSaved(s)
      BY <2>0, <2>1, <2>2, <3>1 DEF RouteInv, SinkHome
    <3>3. InFlight(s) = Occurrences(finalResult, s)
      BY <3>2 DEF InFlight
    <3>4. InFlight(s)' = 0
      BY <1>0, <2>1, <3>2 DEF InFlight, BeingSaved
    <3>5. \A p \in Place : landed'[s][p] = IF p = home[s]
                                           THEN landed[s][p] + Occurrences(finalResult, s)
                                           ELSE landed[s][p]
      BY <1>0, <2>1, <3>2, Landing
    <3>6. Right(s)
      BY <2>2 DEF LandInv
    <3>7. \A p \in Place : IF p = home[s] THEN landed'[s][p] + 0 <= published[s] ELSE landed'[s][p] = 0
      BY <1>0, <3>3, <3>5, <3>6
    <3> QED BY <2>1, <3>4, <3>7
  <2> QED BY <2>3, <2>4
<1>9. CASE LeaveDictating
  <2>1. UNCHANGED <<published, landed, home, saving, finalResult, claim, crowded>> /\ strayed \subseteq strayed'
    BY <1>9 DEF LeaveDictating, StopListening
  <2>2. Undisturbed(s)
    BY <2>1 DEF Undisturbed
  <2> QED BY <1>1, <2>1, <2>2
<1>8. CASE Unseen
  <2>1. UNCHANGED <<saving, claim, home, landed, crowded, strayed>>
    BY <1>8 DEF Unseen, flow, flowHistory
  <2>2. Undisturbed(s)
    BY <2>1 DEF Undisturbed
  <2>3. CASE finalResult' \in {finalResult, <<>>} /\ published' = published
    BY <1>1, <2>1, <2>2, <2>3
  <2>4. CASE Publication(finalResult')
    <3>1. finalResult' \in Seq(Session)
      BY <1>8, Inductive, FlowSteps DEF Unseen, DNext, IInv, TypeOK
    <3>2. Occurrences(finalResult', s) \in Nat
      BY <3>1, OccurrencesType
    <3>3. published'[s] = published[s] + Occurrences(finalResult', s)
      BY <2>4 DEF Publication
    <3>4. BeingSaved(s)' <=> BeingSaved(s)
      BY <2>1 DEF BeingSaved
    <3>5. /\ InFlight(s)' <= InFlight(s) + Occurrences(finalResult', s)
          /\ InFlight(s)' \in Nat /\ InFlight(s) \in Nat
      BY <1>0, <2>1, <3>2, <3>4 DEF InFlight
    <3>6. Right(s)
      BY <2>2 DEF LandInv
    <3>7. ASSUME NEW p \in Place, p = home[s] PROVE landed[s][p] + InFlight(s)' <= published'[s]
      <4>1. landed[s][p] + InFlight(s) <= published[s]
        BY <3>6, <3>7
      <4>2. landed[s][p] \in Nat /\ published[s] \in Nat
        BY <1>0
      <4> QED BY <3>2, <3>3, <3>5, <4>1, <4>2
    <3> QED BY <2>1, <3>6, <3>7
  <2> QED BY <1>8, <2>3, <2>4, UnseenTexts
<1> QED BY <1>2, <1>3, <1>4, <1>5, <1>6, <1>7, <1>8, <1>9, UnseenCase

(* What a cancel has discarded is neither published nor taken by a          *)
(* publisher afterwards: the flag it raised is up as long as it could be.   *)
LEMMA DiscardedStays ==
  ASSUME IInv, ServedInv, FlowTypes, DiscardInv, Unseen,
         NEW s \in Session, s \notin crowded, loop[s] # "none", s \in discarded
  PROVE  ~InResult(s)' /\ ~Taken(s)'
<1> USE DEF history, capture, publication, status, transcript
<1>1. /\ ~InResult(s) /\ ~BeingSaved(s) /\ s \in cancelled /\ s \notin overlapped
      /\ \A p \in publishing : ~Contains(p.text, s)
  BY DEF DiscardInv, Taken, FlowTypes
<1>2. ~BeingSaved(s)'
  <2>1. UNCHANGED saving
    BY DEF Unseen, flow
  <2> QED BY <1>1, <2>1 DEF BeingSaved
<1>3. CASE WakePublisher
  <2>1. finalResult' \in {finalResult, <<>>}
    BY <1>3 DEF WakePublisher, EmptyTranscript
  <2>2. ~InResult(s)'
    BY <1>1, <2>1, NobodySpoke DEF InResult
  <2>3. Contains(partialText, s) => cancelPending
    BY <1>1 DEF IInv, TextInv, CancelledRight
  <2>4. cancelPending => UNCHANGED publishing
    BY <1>3 DEF WakePublisher, CancelSeen
  <2>5. \A p \in publishing' : \/ p \in publishing
                              \/ p = [session |-> Head(publishers), text |-> partialText]
    BY <1>3 DEF WakePublisher
  <2>6. \A p \in publishing' : ~Contains(p.text, s)
    BY <1>1, <2>3, <2>4, <2>5
  <2> QED BY <1>2, <2>2, <2>6 DEF Taken
<1>4. ASSUME NEW p \in publishing, Publish(p) PROVE ~InResult(s)' /\ ~Taken(s)'
  <2>1. finalResult' = p.text /\ publishing' \subseteq publishing
    BY <1>4 DEF Publish
  <2> QED BY <1>1, <1>2, <2>1 DEF InResult, Taken
<1>5. CASE OnResults
  <2>1. loop[recognizer.session] = "none"
    BY <1>5, ServedSession
  <2>2. finalResult' \in {<<>>, <<recognizer.session>>} /\ UNCHANGED publishing
    BY <1>5 DEF OnResults
  <2>3. ~Contains(<<recognizer.session>>, s)
    BY <2>1 DEF Contains
  <2> QED BY <1>1, <1>2, <2>2, <2>3, NobodySpoke DEF InResult, Taken
<1>6. CASE ~WakePublisher /\ ~(\E p \in publishing : Publish(p)) /\ ~OnResults
  <2>1. UNCHANGED <<finalResult, publishing>>
    BY <1>6 DEF Unseen, Background, TapStop, dvars, vars, OpenCapture, ShowListening, FallBack,
       Hear, LoopStep, Flush, SeeStop, Transcribed, Close, Fail, Recognition, OnReadyForSpeech,
       OnRmsChanged, OnPartialResults, OnEndOfSpeech, OnError, StopListening
  <2> QED BY <1>1, <1>2, <2>1 DEF InResult, Taken
<1> QED BY <1>3, <1>4, <1>5, <1>6

LEMMA DiscardStep ==
  ASSUME IInv, ServedInv, FlowTypes, SaidInv, DiscardInv, [DNext]_dvars
  PROVE  DiscardInv'
<1> USE DEF history, capture, publication, status, transcript
<1>0. TypeOK
  BY DEF IInv
<1>1. CASE LeaveDictating \/ \E scr \in Screen : TapStarts(scr) \/ TapRefused(scr) \/ Navigate(scr)
  <2>1. /\ UNCHANGED <<loop, publishing, saving, landed, discarded, cancelled>>
        /\ crowded \subseteq crowded'
        /\ finalResult' = finalResult \/ finalResult' = <<>>
    BY <1>1 DEF TapStarts, StartListening, EmptyTranscript, TapRefused, StartDenied, Navigate,
       LeaveDictating, StopListening, vars
  <2>2. \A s \in Session : /\ InResult(s)' => InResult(s)
                           /\ Taken(s)' => Taken(s)
    BY <2>1, NobodySpoke DEF InResult, BeingSaved, Taken
  <2> QED BY <2>1, <2>2 DEF DiscardInv
<1>2. CASE TapCancel
  <2>1. /\ UNCHANGED <<loop, publishing, saving, landed, crowded>> /\ finalResult' = <<>>
        /\ discarded' = discarded \cup {s \in Undelivered : ~Taken(s)}
        /\ cancelled' = cancelled \cup 1..sessions
    BY <1>2 DEF TapCancel, CancelListening, EmptyTranscript, flow
  <2>2. Undelivered \subseteq 1..sessions
    BY DEF Undelivered
  <2>3. \A s \in Session : ~InResult(s)' /\ (Taken(s)' => Taken(s))
    BY <2>1, NobodySpoke DEF InResult, BeingSaved, Taken
  <2>4. ASSUME NEW s \in Session, s \notin crowded, loop[s] # "none",
               s \in Undelivered, ~Taken(s), NEW p \in Place
        PROVE  ~(landed[s][p] > 0)
    <3>1. CASE InResult(s)
      BY <2>4, <3>1 DEF DiscardInv
    <3>2. CASE ~InResult(s)
      <4>1. ~Settled(s) /\ s \notin overlapped
        BY <2>4, <3>2 DEF Undelivered, Taken, FlowTypes
      <4>2. recognizer.session # s /\ s \notin recognizer.busy
        BY <2>4 DEF IInv, ControlInv, FreshInv, ServedInv, Session
      <4>3. Underway(s) \/ InHand(s)
        BY <4>1, <4>2 DEF Settled, Underway
      <4>4. published[s] = 0
        BY <2>4, <4>1, <4>3 DEF IInv, TextInv, PublishedRight
      <4> QED BY <4>4, SaidStarted
    <3> QED BY <3>1, <3>2
  <2> QED BY <2>1, <2>2, <2>3, <2>4 DEF DiscardInv
<1>3. CASE Collect
  <2>1. /\ UNCHANGED <<loop, publishing, finalResult, landed, discarded, cancelled, crowded>>
        /\ saving'.text = <<>> \/ saving'.text = finalResult
    BY <1>3 DEF Collect, vars, flowHistory, NotSaving
  <2>2. \A s \in Session : /\ InResult(s)' => InResult(s)
                           /\ Taken(s)' => Taken(s) \/ InResult(s)
    BY <2>1, NobodySpoke DEF InResult, BeingSaved, Taken
  <2> QED BY <2>1, <2>2 DEF DiscardInv
<1>4. CASE Saved
  <2>1. /\ UNCHANGED <<loop, publishing, discarded, cancelled, crowded>>
        /\ Land(saving.text, saving.place) /\ finalResult' = <<>> /\ saving'.text = <<>>
    BY <1>4 DEF Saved, ClearFinalResult, EmptyTranscript, NotSaving
  <2>2. \A s \in Session : ~InResult(s)' /\ (Taken(s)' => Taken(s))
    BY <2>1, NobodySpoke DEF InResult, BeingSaved, Taken
  <2>3. ASSUME NEW s \in Session, ~BeingSaved(s), NEW p \in Place PROVE landed'[s][p] = landed[s][p]
    <3>1. Occurrences(saving.text, s) = 0 /\ landed[s][p] \in Nat /\ saving.text \in Seq(Session)
      BY <2>3, FlightTypes
    <3> QED BY <2>1, <3>1, Landing
  <2>4. \A s \in Session : BeingSaved(s) => Taken(s)
    BY DEF Taken
  <2> QED BY <2>1, <2>2, <2>3, <2>4 DEF DiscardInv
<1>5. CASE EditorInsert
  <2>1. /\ UNCHANGED <<loop, publishing, saving, discarded, cancelled, crowded>>
        /\ Land(finalResult, <<"editor", visit>>) /\ finalResult' = <<>>
    BY <1>5 DEF EditorInsert, ClearFinalResult, EmptyTranscript, flow
  <2>2. \A s \in Session : ~InResult(s)' /\ (Taken(s)' => Taken(s))
    BY <2>1, NobodySpoke DEF InResult, BeingSaved, Taken
  <2>3. ASSUME NEW s \in Session, ~InResult(s), NEW p \in Place PROVE landed'[s][p] = landed[s][p]
    <3>1. Occurrences(finalResult, s) = 0 /\ landed[s][p] \in Nat /\ finalResult \in Seq(Session)
      BY <2>3, FlightTypes
    <3> QED BY <2>1, <3>1, Landing
  <2> QED BY <2>1, <2>2, <2>3 DEF DiscardInv
<1>6. CASE Unseen
  <2>1. UNCHANGED <<saving, landed, discarded, crowded, cancelled>>
    BY <1>6, UnseenTexts DEF Unseen, flow, flowHistory
  <2>2. ASSUME NEW s \in Session, s \notin crowded, loop[s] # "none", s \in discarded
        PROVE  ~InResult(s)' /\ ~Taken(s)'
    BY <1>6, <2>2, DiscardedStays
  <2>3. ASSUME NEW s \in Session, s \notin crowded, loop[s] = "none", loop'[s] # "none"
        PROVE  s \notin cancelled /\ \A p \in Place : ~(landed[s][p] > 0)
    <3>1. s = sessions /\ main = "opening"
      BY <1>0, <1>6, <2>3 DEF Unseen, Background, TapStop, dvars, vars, OpenCapture, ShowListening,
         FallBack, Hear, LoopStep, Flush, SeeStop, Transcribed, Close, Fail, InLoop, WakePublisher,
         Publish, Recognition, OnReadyForSpeech, OnRmsChanged, OnPartialResults, OnEndOfSpeech,
         OnResults, OnError, StopListening, TypeOK
    <3> QED BY <3>1, SaidStarted DEF Unheard
  <2>4. ASSUME NEW s \in Session, s \notin crowded, loop[s] # "none", NEW p \in Place, landed[s][p] > 0
        PROVE  ~InResult(s)'
    <3>1. published[s] # 0 /\ ~InResult(s) /\ s \notin overlapped
      BY <2>4, SaidStarted DEF DiscardInv, FlowTypes
    <3> QED BY <1>6, <3>1, UnseenTexts
  <2>5. ASSUME NEW s \in Session, s \notin crowded', loop'[s] # "none"
        PROVE  /\ \A p \in Place : landed'[s][p] > 0 => ~InResult(s)' /\ s \notin discarded'
               /\ s \in discarded' => ~InResult(s)' /\ ~Taken(s)'
    <3>1. CASE loop[s] = "none"
      BY <2>1, <2>3, <2>5, <3>1 DEF DiscardInv
    <3>2. CASE loop[s] # "none"
      BY <2>1, <2>2, <2>4, <2>5, <3>2 DEF DiscardInv
    <3> QED BY <3>1, <3>2
  <2> QED BY <2>1, <2>5 DEF DiscardInv
<1> QED BY <1>1, <1>2, <1>3, <1>4, <1>5, <1>6, UnseenCase

LEMMA FlowInductive ==
  ASSUME DInv, [DNext]_dvars
  PROVE  DInv'
<1>1. [Next]_vars
  BY FlowSteps
<1> QED BY <1>1, Inductive, ServedStep, HeardStep, FlowTypesStep, SaidStep, RouteStep,
           LandStep, DiscardStep DEF DInv

LEMMA FlowInitially == DInit => DInv
<1> SUFFICES ASSUME DInit PROVE DInv
  OBVIOUS
<1> USE SpeechAssumption, VisitAssumption
<1>1. IInv
  BY Initially DEF DInit
<1>2. \A s : ~Contains(partialText, s) /\ ~InResult(s) /\ ~BeingSaved(s)
  BY NobodySpoke DEF DInit, Init, InResult, BeingSaved, NotSaving
<1>3. ServedInv
  BY <1>2 DEF DInit, Init, ServedInv, Idle
<1>4. HeardInv
  BY DEF DInit, Init, HeardInv
<1>5. FlowTypes
  BY EmptyText DEF DInit, Init, FlowTypes, Screen, DictationSink, NotSaving
<1>6. SaidInv
  BY <1>2 DEF DInit, SaidInv
<1>7. RouteInv
  BY DEF DInit, Init, RouteInv, OnWay, Undelivered
<1>8. LandInv
  <2>1. \A s \in Session : InFlight(s) = 0
    BY <1>2, EmptyText, NobodySpoke, NoOccurrence DEF InFlight, DInit, Init
  <2> QED BY <2>1 DEF DInit, Init, LandInv
<1>9. DiscardInv
  BY DEF DInit, Init, DiscardInv
<1> QED BY <1>1, <1>3, <1>4, <1>5, <1>6, <1>7, <1>8, <1>9 DEF DInv

THEOREM FlowInvariance == DSpec => []DInv
  BY FlowInitially, FlowInductive, PTL DEF DSpec

(* Every variable of the flow keeps its type, and those of SpeechManager    *)
(* under it.                                                                *)
THEOREM FlowTypeCorrect == DSpec => []FlowTypeOK
<1>1. DInv => FlowTypeOK
  BY DEF DInv, IInv, FlowTypes, FlowTypeOK
<1> QED BY <1>1, FlowInvariance, PTL

(* A dictation that met no other tap and no other editor lands only at the  *)
(* place of the screen that started it, whichever consumer delivers it.     *)
THEOREM ResultIsRouted == DSpec => []LandsWhereClaimed
<1>1. DInv => LandsWhereClaimed
  BY DEF DInv, LandInv, LandsWhereClaimed
<1> QED BY <1>1, FlowInvariance, PTL

(* Nothing of it lands twice, at one place or at two: the consumers and     *)
(* finalResult together never hold more than was published, and no more is  *)
(* published than was heard.                                                *)
THEOREM ResultLandsOnce == DSpec => []LandsOnce
<1>1. ASSUME DInv PROVE LandsOnce
  <2> SUFFICES ASSUME NEW s \in Session, NEW p \in Place, NEW q \in Place,
                      landed[s][p] > 0, Undisturbed(s)
               PROVE  landed[s][p] <= Spoken(s) /\ (q # p => landed[s][q] = 0)
    BY DEF LandsOnce
  <2>1. IInv /\ FlowTypes
    BY <1>1 DEF DInv
  <2>2. /\ Occurrences(finalResult, s) \in Nat /\ Occurrences(saving.text, s) \in Nat
        /\ published[s] \in Nat /\ landed[s][p] \in Nat
    BY <2>1, FlightTypes
  <2>3. InFlight(s) \in Nat
    BY <2>2 DEF InFlight
  <2>4. p = home[s] /\ landed[s][p] + InFlight(s) <= published[s] /\ (q # p => landed[s][q] = 0)
    BY <1>1 DEF DInv, LandInv
  <2>5. s \notin overlapped
    BY <2>1 DEF FlowTypes, Undisturbed
  <2>6. published[s] <= Spoken(s)
    <3>1. CASE loop[s] = "none"
      BY <1>1, <2>5, <3>1 DEF DInv, ServedInv, Spoken
    <3>2. CASE loop[s] # "none"
      <4>1. published[s] <= transcribed[s]
        BY <2>1, <2>5, <3>2 DEF IInv, TextInv, PublishedRight
      <4>2. transcribed[s] \in Nat /\ heard[s] \in Nat
        BY <2>1, SpeechAssumption DEF IInv, TypeOK
      <4>3. transcribed[s] <= heard[s]
        BY <1>1, <4>2 DEF DInv, HeardInv
      <4> QED BY <2>2, <3>2, <4>1, <4>2, <4>3 DEF Spoken
    <3> QED BY <3>1, <3>2
  <2>7. Spoken(s) \in Nat
    BY <2>1, SpeechAssumption DEF IInv, TypeOK, Spoken
  <2> QED BY <2>2, <2>3, <2>4, <2>6, <2>7
<1> QED BY <1>1, FlowInvariance, PTL

(* What a cancel found undelivered and in nobody's hands is delivered by    *)
(* nobody: it was either in finalResult, which the cancel empties, or       *)
(* behind the flag it raises.                                               *)
THEOREM CancelDiscardsUnsaved == DSpec => []CancelledNeverLands
<1>1. ASSUME DInv PROVE CancelledNeverLands
  BY <1>1 DEF DInv, DiscardInv, CancelledNeverLands
<1> QED BY <1>1, FlowInvariance, PTL

=============================================================================
