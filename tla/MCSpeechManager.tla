-------------------------- MODULE MCSpeechManager --------------------------
(* SpeechManager with two dictations: the smallest number that lets one     *)
(* start while the other is still draining.                                 *)
EXTENDS SpeechManager

MCWhisperOnly  == {TRUE}
MCEither       == {TRUE, FALSE}
=============================================================================
