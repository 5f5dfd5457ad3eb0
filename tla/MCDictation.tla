---------------------------- MODULE MCDictation ----------------------------
(* Dictation with the whisper engine alone, and with either engine.         *)
EXTENDS Dictation

MCWhisperOnly  == {TRUE}
MCEither       == {TRUE, FALSE}

(* What the steps of Dictation and its three invariants read: states that   *)
(* differ in nothing else behave alike.  Left out are the error message,    *)
(* the microphone level and the history of SpeechManager's own properties.  *)
MCRead == <<state, transcript, recording, cancelPending, main, sessions, loop, pending,
            heard, publication, recognizer, tts, flow, flowHistory>>
=============================================================================
