--------------------------- MODULE MCCaptureGate ---------------------------
(* CaptureGate with the shipped frame counts and five energies: silence,    *)
(* the starting noise floor, a fan, speech, and speech into the microphone. *)
EXTENDS CaptureGate

MCRmsLevels == {0, 4, 13, 40, 100}
=============================================================================
