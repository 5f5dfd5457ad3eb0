---------------------------- MODULE SpeechManager ----------------------------
(* SpeechManager: on-device dictation and text to speech, shared by every   *)
(* screen as a singleton.                                                   *)
(*                                                                          *)
(* Threads: the main thread runs the public operations, the platform        *)
(* recognizer's callbacks and the clients; every capture loop and every     *)
(* delayed publisher is a coroutine of Dispatchers.Default.  An action runs *)
(* from one blocking or suspending point of its thread to the next: opening *)
(* the microphone, reading a frame, whisper.transcribe, delay.              *)
(*                                                                          *)
(* A session is one startListening that got past its guards.  Text is a     *)
(* sequence of session numbers, one per transcribed utterance: whose speech *)
(* it is, not what was said.  The audio of a loop is abstracted to whether  *)
(* enough of it is pending (CaptureGate says when that is).                 *)
EXTENDS Integers, Sequences, FiniteSets, SequencesExt

CONSTANTS
  MaxSessions,       \* bound on the dictations started
  MaxUtterances,     \* bound on the utterances spoken in one of them
  CaptureOpens,      \* outcomes of modelPresent() && startWhisperCapture()
  PlatformAvailable, \* SpeechRecognizer.isRecognitionAvailable
  FailingLoops       \* sessions in whose capture loop an exception is considered

ASSUME SpeechAssumption ==
  /\ MaxSessions \in Nat \ {0}
  /\ MaxUtterances \in Nat \ {0}
  /\ CaptureOpens \subseteq BOOLEAN
  /\ PlatformAvailable \in BOOLEAN
  /\ FailingLoops \subseteq 1..MaxSessions

VARIABLES
  state,         \* AssistantState, what every orb shows
  partialText,   \* live transcript
  finalResult,   \* settled transcript, for the sinks
  lastError,     \* an error message is set
  micLevel,      \* pinnedMicLevel is not null
  recording,     \* the AtomicBoolean every capture loop polls
  cancelPending, \* drops the pending final publish
  main,          \* where the main thread is inside startListening
  sessions,      \* dictations started so far
  loop,          \* position of each session's capture loop
  pending,       \* the loop holds enough voiced audio for whisper
  publishers,    \* sessions whose delayed publisher has not run, oldest first
  publishing,    \* publishers that have taken their text: [session, text]
  recognizer,    \* the platform engine: its phase, the session it serves, those refused
  tts            \* the TextToSpeech engine and whether it holds an utterance

VARIABLES
  heard,         \* history: utterances spoken in each session
  transcribed,   \* history: those that reached partialText
  published,     \* history: how often an utterance of it entered finalResult
  cancelled,     \* history: sessions a cancelListening was meant for
  overlapped,    \* history: sessions that met another one still draining
  failed,        \* history: sessions whose capture loop threw
  spokenOver,    \* history: sessions recording while speak was called
  late,          \* history: sessions a publisher had the text of when a cancel came
  wiped          \* history: sessions under way whose text a client cleared

status      == <<state, lastError, micLevel>>
transcript  == <<partialText, finalResult>>
publication == <<publishers, publishing>>
capture     == <<loop, pending, heard, transcribed>>
history     == <<published, cancelled, overlapped, failed, spokenOver, late, wiped>>
vars == <<status, transcript, recording, cancelPending, main, sessions, capture,
          publication, recognizer, tts, history>>

Session        == 1..MaxSessions
AssistantState == {"IDLE", "LISTENING", "THINKING", "SPEAKING", "SLEEPING"}
LoopPhase      == {"none", "reading", "transcribing", "tail", "closing", "done"}
Recognizer     == [phase : {"off", "starting", "listening", "stopping", "ended"},
                   session : 0..MaxSessions, busy : SUBSET Session]
Engine         == [engine : {"none", "binding", "ready", "failed"}, speaking : BOOLEAN]
Dictating      == state \in {"LISTENING", "THINKING"}

(* In the body of the while loop, or inside a transcription started there.  *)
InLoop(s)   == loop[s] \in {"reading", "transcribing"}
Draining(s) == loop[s] \in {"tail", "closing"}
(* Its publisher has taken the transcript and not set the result yet.       *)
InHand(s)   == \E p \in publishing : p.session = s
(* A session has settled when nothing of it can touch the transcript again. *)
Settled(s)  ==
  /\ ~InLoop(s) /\ ~Draining(s) /\ ~Contains(publishers, s) /\ ~InHand(s)
  /\ recognizer.session # s /\ s \notin recognizer.busy

Idle == [phase |-> "off", session |-> 0, busy |-> {}]

Init ==
  /\ state = "SLEEPING" /\ lastError = FALSE /\ micLevel = FALSE
  /\ partialText = <<>> /\ finalResult = <<>>
  /\ recording = FALSE /\ cancelPending = FALSE
  /\ main = "ready" /\ sessions = 0
  /\ loop = [s \in Session |-> "none"]
  /\ pending = [s \in Session |-> FALSE]
  /\ publishers = <<>> /\ publishing = {}
  /\ recognizer = Idle
  /\ tts = [engine |-> "none", speaking |-> FALSE]
  /\ heard = [s \in Session |-> 0]
  /\ transcribed = [s \in Session |-> 0]
  /\ published = [s \in Session |-> 0]
  /\ cancelled = {} /\ overlapped = {} /\ failed = {} /\ spokenOver = {}
  /\ late = {} /\ wiped = {}

(* Mutant: the state is left as it was.                                     *)
Unsettled == state

(* if (state == LISTENING || state == THINKING) state = IDLE                *)
Settle == IF Dictating THEN "IDLE" ELSE state

(* Mutant: the old partial text stays.                                      *)
EmptyResult == finalResult' = <<>> /\ UNCHANGED partialText

(* Both texts are emptied together, by start, cancel, publisher and client. *)
EmptyTranscript == partialText' = <<>> /\ finalResult' = <<>>

-----------------------------------------------------------------------------
(* startListening, on the main thread.  Called while recording it returns   *)
(* at once and changes nothing.                                             *)

(* Without the permission it only reports.                                  *)
StartDenied ==
  /\ main = "ready" /\ ~recording
  /\ lastError' = TRUE
  /\ UNCHANGED <<state, micLevel, transcript, recording, cancelPending, main, sessions,
                 capture, publication, recognizer, tts, history>>

(* The resets, up to opening the microphone.                                *)
StartListening ==
  LET unsettled == {s \in 1..sessions : ~Settled(s)}
      s == sessions + 1
  IN  /\ main = "ready" /\ ~recording
      /\ sessions < MaxSessions
      /\ sessions' = s
      /\ cancelPending' = FALSE
      /\ state' = IF state = "SPEAKING" THEN "IDLE" ELSE state
      /\ tts' = [tts EXCEPT !.speaking = FALSE]
      /\ lastError' = FALSE
      /\ EmptyTranscript
      /\ micLevel' = TRUE
      /\ main' = "opening"
      /\ overlapped' = IF unsettled = {} THEN overlapped
                       ELSE overlapped \cup unsettled \cup {s}
      /\ UNCHANGED <<recording, capture, publication, recognizer,
                     published, cancelled, failed, spokenOver, late, wiped>>

(* startWhisperCapture succeeds and launches captureLoop.                   *)
OpenCapture ==
  /\ main = "opening" /\ TRUE \in CaptureOpens
  /\ recording' = TRUE
  /\ loop' = [loop EXCEPT ![sessions] = "reading"]
  /\ main' = "opened"
  /\ UNCHANGED <<status, transcript, cancelPending, sessions, pending, heard, transcribed,
                 publication, recognizer, tts, history>>

(* ... and only then the main thread shows that it is listening.            *)
ShowListening ==
  /\ main = "opened"
  /\ state' = "LISTENING"
  /\ main' = "ready"
  /\ UNCHANGED <<lastError, micLevel, transcript, recording, cancelPending, sessions,
                 capture, publication, recognizer, tts, history>>

(* recognizer.startListening(intent) for the current session.               *)
Serve == [recognizer EXCEPT !.phase = "starting", !.session = sessions]

(* No model or no microphone: startPlatformRecognition.  A recognizer that  *)
(* is still serving a session refuses the new one with ERROR_BUSY later.    *)
FallBack ==
  /\ main = "opening" /\ FALSE \in CaptureOpens
  /\ main' = "ready"
  /\ \/ /\ ~PlatformAvailable
        /\ lastError' = TRUE
        /\ UNCHANGED <<state, recognizer>>
     \/ /\ PlatformAvailable
        /\ state' = "LISTENING"
        /\ recognizer' = IF recognizer.phase = "off"
                         THEN Serve
                         ELSE [recognizer EXCEPT !.busy = @ \cup {sessions}]
        /\ UNCHANGED lastError
  /\ UNCHANGED <<micLevel, transcript, recording, cancelPending, sessions, capture,
                 publication, tts, history>>

-----------------------------------------------------------------------------
(* captureLoop, one coroutine per session.                                  *)

(* Frames of an utterance arrive while the loop is recording.               *)
Hear(s) ==
  /\ loop[s] = "reading" /\ recording
  /\ heard[s] < MaxUtterances
  /\ ~pending[s]
  /\ pending' = [pending EXCEPT ![s] = TRUE]
  /\ heard' = [heard EXCEPT ![s] = @ + 1]
  /\ micLevel' = TRUE
  /\ UNCHANGED <<state, lastError, transcript, recording, cancelPending, main, sessions,
                 loop, transcribed, publication, recognizer, tts, history>>

(* A pause or LIVE_FLUSH ends in flushUtterance: dropped after a cancel,    *)
(* else handed to whisper.  The frame that triggers it may have been read   *)
(* before a stop, so the flag is not looked at again.                       *)
Flush(s) ==
  /\ loop[s] = "reading" /\ pending[s]
  /\ \/ /\ cancelPending
        /\ pending' = [pending EXCEPT ![s] = FALSE]
        /\ UNCHANGED <<state, loop>>
     \/ /\ ~cancelPending
        /\ state' = "THINKING"
        /\ loop' = [loop EXCEPT ![s] = "transcribing"]
        /\ UNCHANGED pending
  /\ UNCHANGED <<lastError, micLevel, transcript, recording, cancelPending, main, sessions,
                 heard, transcribed, publication, recognizer, tts, history>>

(* The loop sees recording = false and flushes the tail, if there is one    *)
(* and no cancel landed.                                                    *)
SeeStop(s) ==
  /\ loop[s] = "reading" /\ ~recording
  /\ \/ /\ pending[s] /\ ~cancelPending
        /\ state' = "THINKING"
        /\ loop' = [loop EXCEPT ![s] = "tail"]
     \/ /\ ~pending[s] \/ cancelPending
        /\ loop' = [loop EXCEPT ![s] = "closing"]
        /\ UNCHANGED state
  /\ UNCHANGED <<lastError, micLevel, transcript, recording, cancelPending, main, sessions,
                 pending, heard, transcribed, publication, recognizer, tts, history>>

(* Mutant: after a transcription the loop shows nobody is dictating.        *)
IdleAfterFlush == "IDLE"

(* if (recording) state = LISTENING, at the end of flushUtterance.          *)
StateAfterFlush == IF recording THEN "LISTENING" ELSE state

(* Mutant: the loop leaves after its first transcription.                   *)
LeaveAfterFlush(phase) == "closing"

(* Where flushUtterance returns to: the while loop, or the finally block.   *)
AfterFlush(phase) == IF phase = "tail" THEN "closing" ELSE "reading"

(* whisper.transcribe returns text or null; the rest of flushUtterance, and *)
(* the reset that follows it in the loop.                                   *)
Transcribed(s) ==
  /\ loop[s] \in {"transcribing", "tail"}
  /\ \/ /\ partialText' = Append(partialText, s)
        /\ transcribed' = [transcribed EXCEPT ![s] = @ + 1]
        /\ UNCHANGED lastError
     \/ /\ lastError' = TRUE
        /\ UNCHANGED <<partialText, transcribed>>
  /\ state' = StateAfterFlush
  /\ pending' = [pending EXCEPT ![s] = FALSE]
  /\ loop' = [loop EXCEPT ![s] = AfterFlush(@)]
  /\ UNCHANGED <<micLevel, finalResult, recording, cancelPending, main, sessions, heard,
                 publication, recognizer, tts, history>>

(* An exception inside the loop: reported, and recording stays as it is.    *)
Fail(s) ==
  /\ s \in FailingLoops
  /\ InLoop(s) \/ loop[s] = "tail"
  /\ lastError' = TRUE
  /\ loop' = [loop EXCEPT ![s] = "closing"]
  /\ failed' = failed \cup {s}
  /\ UNCHANGED <<state, micLevel, transcript, recording, cancelPending, main, sessions,
                 pending, heard, transcribed, publication, recognizer, tts,
                 published, cancelled, overlapped, spokenOver, late, wiped>>

(* Mutant: the publisher is never launched.                                 *)
LaunchNone(s) == UNCHANGED publishers

(* scope.launch of the publisher, which starts with its delay.              *)
LaunchPublisher(s) == publishers' = Append(publishers, s)

(* The finally block: the state settles and the publisher is launched.      *)
Close(s) ==
  /\ loop[s] = "closing"
  /\ loop' = [loop EXCEPT ![s] = "done"]
  /\ micLevel' = FALSE
  /\ state' = Settle
  /\ LaunchPublisher(s)
  /\ UNCHANGED <<lastError, transcript, recording, cancelPending, main, sessions, pending,
                 heard, transcribed, publishing, recognizer, tts, history>>

(* The utterances of a session in a text, and what publishing one adds to   *)
(* the history.                                                             *)
Occurrences(text, s) == Cardinality({i \in DOMAIN text : text[i] = s})

Publication(text) == published' = [s \in Session |-> published[s] + Occurrences(text, s)]

(* Mutant: a cancel in the drain window is not looked at.                   *)
CancelUnseen == FALSE

(* if (cancelPending), in the publisher.                                    *)
CancelSeen == cancelPending

(* The publisher, FINAL_AFTER_STOP_S later.  All delays are equal, so they  *)
(* end in the order they were launched.  A recording in progress, and a     *)
(* cancel that landed meanwhile, make it drop the transcript; else it takes *)
(* it.  What another thread does between the tests and the read leaves the  *)
(* same behind as when it comes after the write.                            *)
WakePublisher ==
  /\ publishers # <<>>
  /\ publishers' = Tail(publishers)
  /\ \/ /\ recording
        /\ UNCHANGED <<cancelPending, transcript, publishing>>
     \/ /\ ~recording /\ CancelSeen
        /\ cancelPending' = FALSE
        /\ EmptyTranscript
        /\ UNCHANGED publishing
     \/ /\ ~recording /\ ~CancelSeen
        /\ publishing' = publishing \cup
             {[session |-> Head(publishers), text |-> partialText]}
        /\ UNCHANGED <<cancelPending, transcript>>
  /\ UNCHANGED <<status, recording, main, sessions, capture, recognizer, tts, history>>

(* ... and sets the result, on its own thread: a start, a cancel or a clear *)
(* of the main thread may have come in between.                             *)
Publish(p) ==
  /\ p \in publishing
  /\ publishing' = publishing \ {p}
  /\ finalResult' = p.text
  /\ Publication(p.text)
  /\ UNCHANGED <<status, partialText, recording, cancelPending, main, sessions, capture,
                 publishers, recognizer, tts,
                 cancelled, overlapped, failed, spokenOver, late, wiped>>

-----------------------------------------------------------------------------
(* stopListening and cancelListening, on the main thread.                   *)

(* The capture loop is left to drain and settle the state itself; the       *)
(* platform engine is told to stop and the state is settled here.           *)
StopEngine ==
  \/ /\ recording
     /\ recording' = FALSE
     /\ UNCHANGED <<micLevel, recognizer>>
  \/ /\ ~recording
     /\ recognizer' = IF recognizer.phase \in {"starting", "listening"}
                      THEN [recognizer EXCEPT !.phase = "stopping"] ELSE recognizer
     /\ micLevel' = FALSE
     /\ UNCHANGED recording

StopListening ==
  /\ main = "ready"
  /\ StopEngine
  /\ state' = IF recording THEN state ELSE Settle
  /\ UNCHANGED <<lastError, transcript, cancelPending, main, sessions, capture, publication,
                 tts, history>>

(* A cancel is meant for everything started and not yet consumed; it comes  *)
(* too late for a text that a publisher has taken.                          *)
CancelListening ==
  /\ main = "ready"
  /\ cancelPending' = TRUE
  /\ StopEngine
  /\ EmptyTranscript
  /\ state' = Settle
  /\ cancelled' = cancelled \cup 1..sessions
  /\ late' = late \cup {s \in Session : \E p \in publishing : Contains(p.text, s)}
  /\ UNCHANGED <<lastError, main, sessions, capture, publication, tts,
                 published, overlapped, failed, spokenOver, wiped>>

-----------------------------------------------------------------------------
(* The platform recognizer's callbacks, on the main thread.                 *)

Callback(phases) == main = "ready" /\ recognizer.phase \in phases

OnReadyForSpeech ==
  /\ Callback({"starting"})
  /\ recognizer' = [recognizer EXCEPT !.phase = "listening"]
  /\ state' = "LISTENING"
  /\ UNCHANGED <<lastError, micLevel, transcript, recording, cancelPending, main, sessions,
                 capture, publication, tts, history>>

OnRmsChanged ==
  /\ Callback({"listening"})
  /\ state = "LISTENING"
  /\ micLevel' = TRUE
  /\ UNCHANGED <<state, lastError, transcript, recording, cancelPending, main, sessions,
                 capture, publication, recognizer, tts, history>>

OnPartialResults ==
  /\ Callback({"listening", "stopping", "ended"})
  /\ partialText' = <<recognizer.session>>
  /\ UNCHANGED <<status, finalResult, recording, cancelPending, main, sessions, capture,
                 publication, recognizer, tts, history>>

OnEndOfSpeech ==
  /\ Callback({"listening", "stopping"})
  /\ recognizer' = [recognizer EXCEPT !.phase = "ended"]
  /\ state' = "THINKING"
  /\ UNCHANGED <<lastError, micLevel, transcript, recording, cancelPending, main, sessions,
                 capture, publication, tts, history>>

(* The result may be empty; nothing here asks whether a cancel landed.      *)
OnResults ==
  /\ Callback({"listening", "stopping", "ended"})
  /\ \E text \in {<<>>, <<recognizer.session>>} :
       partialText' = text /\ finalResult' = text /\ Publication(text)
  /\ state' = "IDLE"
  /\ recognizer' = [Idle EXCEPT !.busy = recognizer.busy]
  /\ UNCHANGED <<lastError, micLevel, recording, cancelPending, main, sessions, capture,
                 publication, tts, cancelled, overlapped, failed, spokenOver, late, wiped>>

(* An error ends the session it is about; ERROR_BUSY is about a later one.  *)
OnError ==
  /\ \/ /\ Callback({"starting", "listening", "stopping", "ended"})
        /\ recognizer' = [Idle EXCEPT !.busy = recognizer.busy]
     \/ /\ main = "ready"
        /\ \E s \in recognizer.busy : recognizer' = [recognizer EXCEPT !.busy = @ \ {s}]
  /\ lastError' = TRUE
  /\ state' = "IDLE"
  /\ UNCHANGED <<micLevel, transcript, recording, cancelPending, main, sessions, capture,
                 publication, tts, history>>

-----------------------------------------------------------------------------
(* Text to speech.                                                          *)

(* speak, with a text that is not blank.  The engine accepts an utterance   *)
(* only once it is bound; speak does not look at ttsReady or at the result. *)
Speak ==
  /\ main = "ready"
  /\ state' = "SPEAKING"
  /\ tts' = IF tts.engine = "none" THEN [engine |-> "binding", speaking |-> FALSE]
            ELSE [tts EXCEPT !.speaking = (tts.engine = "ready")]
  /\ spokenOver' = IF recording THEN spokenOver \cup {sessions} ELSE spokenOver
  /\ UNCHANGED <<lastError, micLevel, transcript, recording, cancelPending, main, sessions,
                 capture, publication, recognizer,
                 published, cancelled, overlapped, failed, late, wiped>>

(* The OnInitListener of ensureTts.                                         *)
OnTtsInit ==
  /\ tts.engine = "binding"
  /\ \E status2 \in {"ready", "failed"} : tts' = [tts EXCEPT !.engine = status2]
  /\ UNCHANGED <<status, transcript, recording, cancelPending, main, sessions, capture,
                 publication, recognizer, history>>

(* onDone and onError of the utterance.                                     *)
OnUtteranceEnd ==
  /\ tts.speaking
  /\ tts' = [tts EXCEPT !.speaking = FALSE]
  /\ state' = IF state = "SPEAKING" THEN "IDLE" ELSE state
  /\ UNCHANGED <<lastError, micLevel, transcript, recording, cancelPending, main, sessions,
                 capture, publication, recognizer, history>>

(* The client has shown the error.                                          *)
ConsumeError ==
  /\ main = "ready" /\ lastError
  /\ lastError' = FALSE
  /\ UNCHANGED <<state, micLevel, transcript, recording, cancelPending, main, sessions,
                 capture, publication, recognizer, tts, history>>

(* A client acknowledges a result it has handled, whatever the result and   *)
(* the partial text have become meanwhile.                                  *)
ClearFinalResult ==
  /\ main = "ready"
  /\ EmptyTranscript
  /\ wiped' = wiped \cup {s \in 1..sessions : ~Settled(s) /\ Contains(partialText, s)}
  /\ UNCHANGED <<status, recording, cancelPending, main, sessions, capture, publication,
                 recognizer, tts,
                 published, cancelled, overlapped, failed, spokenOver, late>>

-----------------------------------------------------------------------------
LoopStep(s) == Flush(s) \/ SeeStop(s) \/ Transcribed(s) \/ Close(s)

Recognition == OnReadyForSpeech \/ OnRmsChanged \/ OnPartialResults \/ OnEndOfSpeech
               \/ OnResults \/ OnError

Next ==
  \/ StartDenied \/ StartListening \/ OpenCapture \/ ShowListening \/ FallBack
  \/ \E s \in Session : Hear(s) \/ LoopStep(s) \/ Fail(s)
  \/ WakePublisher \/ \E p \in publishing : Publish(p)
  \/ StopListening \/ CancelListening
  \/ Recognition
  \/ Speak \/ OnTtsInit \/ OnUtteranceEnd
  \/ ConsumeError \/ ClearFinalResult

(* Coroutines and the main thread are scheduled; a transcription, a delay   *)
(* and the opening of the microphone end.  Nobody has to speak or to tap.   *)
Fairness ==
  /\ \A s \in Session : WF_vars(LoopStep(s))
  /\ WF_vars(WakePublisher) /\ WF_vars(\E p \in publishing : Publish(p))
  /\ WF_vars(OpenCapture \/ FallBack) /\ WF_vars(ShowListening)

Spec == Init /\ [][Next]_vars /\ Fairness

-----------------------------------------------------------------------------
(* Every variable holds a value of its type.                                *)
TypeOK ==
  /\ state \in AssistantState
  /\ lastError \in BOOLEAN /\ micLevel \in BOOLEAN
  /\ partialText \in Seq(Session) /\ finalResult \in Seq(Session)
  /\ recording \in BOOLEAN /\ cancelPending \in BOOLEAN
  /\ main \in {"ready", "opening", "opened"}
  /\ sessions \in 0..MaxSessions
  /\ loop \in [Session -> LoopPhase]
  /\ pending \in [Session -> BOOLEAN]
  /\ publishers \in Seq(Session)
  /\ publishing \subseteq [session : Session, text : Seq(Session)]
  /\ recognizer \in Recognizer /\ tts \in Engine
  /\ heard \in [Session -> 0..MaxUtterances]
  /\ transcribed \in [Session -> Nat]
  /\ published \in [Session -> Nat]
  /\ cancelled \in SUBSET Session /\ overlapped \in SUBSET Session
  /\ failed \in SUBSET Session /\ spokenOver \in SUBSET Session
  /\ late \in SUBSET Session /\ wiped \in SUBSET Session

(* "already dictating": startListening turns a tap away only while the loop *)
(* of the latest session really is reading the microphone, unless that loop *)
(* threw.  Every other path that ends a loop must have cleared recording.   *)
RefusedOnlyWhileDictating ==
  recording => InLoop(sessions) \/ sessions \in failed

(* The screens show a recording microphone: while it records and the main   *)
(* thread is not inside startListening, the state is LISTENING or THINKING, *)
(* unless the loop threw, speak was called meanwhile or an older session    *)
(* was still settling when this one started.                                *)
RecordingIsShown ==
  recording /\ main = "ready" =>
    Dictating \/ sessions \in failed \cup spokenOver \cup overlapped

(* A cancelled dictation never enters finalResult, however the cancel fell  *)
(* between stop, tail transcription, state settling and the publisher's     *)
(* tests, as long as no other dictation was started before it had settled.  *)
(* Only the publisher's last step is out of a cancel's reach.               *)
CancelledNeverFinal ==
  \A i \in DOMAIN finalResult :
    LET s == finalResult[i]
    IN  s \in cancelled => s \in overlapped \cup late \/ loop[s] = "none"

(* No utterance enters finalResult twice, whatever was stopped, restarted,  *)
(* published and cleared in between, in sessions that did not overlap.      *)
PublishedOnce ==
  \A s \in Session : published[s] > transcribed[s] => s \in overlapped \/ loop[s] = "none"

(* "so UI built around state == IDLE sees the settled value first": a       *)
(* transcript becomes final only when the state has left LISTENING and      *)
(* THINKING, if its loop did not throw and no other session is under way.   *)
StateSettlesFirst ==
  [][\A p \in publishing :
       Publish(p) /\ finalResult' # finalResult /\ finalResult' # <<>>
         => ~Dictating \/ p.session \in overlapped \cup failed]_vars

(* What was said is not lost: once a loop has been told to stop, it settles *)
(* and every utterance it had transcribed has come out in finalResult,      *)
(* unless the session was cancelled, another one overlapped it, or a client *)
(* cleared an earlier result while it was under way.                        *)
TranscriptSettles ==
  \A s \in Session :
    (InLoop(s) /\ ~recording) ~>
      \/ s \in overlapped \cup wiped
      \/ Settled(s) /\ (s \in cancelled \/ published[s] = transcribed[s])

-----------------------------------------------------------------------------
(* What the comments say without the exceptions above; TLC refutes these.   *)

(* cancelListening "discards everything transcribed so far".                *)
CancelDiscards == \A i \in DOMAIN finalResult : finalResult[i] \notin cancelled

(* speak "speaks [text] through TTS; the SPEAKING state drives the orb": in *)
(* SPEAKING the engine holds an utterance.                                  *)
SpeakingIsAudible == state = "SPEAKING" => tts.speaking
=============================================================================
