----------------------------- MODULE CaptureGate -----------------------------
(* The segmentation of the microphone stream: the body of                   *)
(* SpeechManager.captureLoop, with speechThreshold, appendFrame and the     *)
(* eligibility test of flushUtterance.                                      *)
(*                                                                          *)
(* Audio is counted in frames of FRAME_SAMPLES samples (READ_BLOCKING fills *)
(* the frame; a short read counts as a whole one, which only makes the      *)
(* buffer fuller).  The energy of a frame is one of RmsLevels, integers in  *)
(* thousandths of full scale.  What cancelling does to a flush is modelled  *)
(* in SpeechManager; here a flush either reaches whisper or is ignored.     *)
EXTENDS Integers

CONSTANTS
  RmsLevels,             \* the energies a frame can have
  NOISE_FLOOR,           \* starting estimate of the room
  SPEECH_RMS,            \* the gate never opens at or below this energy
  CALIBRATION_FRAMES,    \* frames that only measure the room
  END_SILENCE,           \* quiet frames that close an utterance
  LIVE_FLUSH,            \* voiced frames that force a flush mid-speech
  MIN_VOICED_FRAMES,     \* fewer voiced frames than this are a blip
  LEAD_IN_FRAMES,        \* quiet frames kept from before the speech
  MAX_UTTERANCE          \* capacity of pendingBuf, in frames

ASSUME LevelsAssumption ==
  /\ RmsLevels \subseteq Nat
  /\ NOISE_FLOOR \in RmsLevels
  /\ SPEECH_RMS \in Nat

ASSUME FramesAssumption ==
  /\ CALIBRATION_FRAMES \in Nat
  /\ END_SILENCE \in Nat \ {0}
  /\ LIVE_FLUSH \in Nat \ {0}
  /\ MIN_VOICED_FRAMES \in 1..LIVE_FLUSH
  /\ LEAD_IN_FRAMES \in Nat
  /\ MAX_UTTERANCE \in Nat

(* The largest buffer an utterance can need: the lead-in, LIVE_FLUSH voiced *)
(* frames, and between two of them one quiet frame less than closes it.     *)
LongestUtterance ==
  LEAD_IN_FRAMES + LIVE_FLUSH + (LIVE_FLUSH - 1) * (END_SILENCE - 1)

(* The shipped constants satisfy this: 74 frames in a buffer of 100.        *)
ASSUME CapacityAssumption == LongestUtterance <= MAX_UTTERANCE

VARIABLES
  phase,         \* "reading" until the loop has left its body
  recording,     \* the AtomicBoolean the loop polls
  calibFrames,   \* frames measured so far, up to CALIBRATION_FRAMES
  roomLevel,     \* running estimate of the room
  pendingLen,    \* frames in pendingBuf
  pendingVoiced, \* voiced frames among them
  leadIn,        \* frames in the rolling lead-in window
  voicedFrames,  \* voiced frames of the current utterance
  quietFrames,   \* trailing quiet frames of the current utterance
  outcome,       \* what the latest flush did with the buffer
  burst,         \* history: voiced frames of this burst of speech, saturated
  hush,          \* history: quiet frames since the last voiced one, saturated
  sent           \* history: a part of this burst has reached whisper

buffer  == <<pendingLen, pendingVoiced, leadIn, voicedFrames, quietFrames>>
history == <<burst, hush, sent>>
vars    == <<phase, recording, calibFrames, roomLevel, buffer, outcome, history>>

Outcome == {"none", "transcribed", "ignored"}

Least(a, b)    == IF a <= b THEN a ELSE b
Greatest(a, b) == IF a <= b THEN b ELSE a

(* Mutant: a fixed gate instead of one above the room.                      *)
FixedGate(rms, room) == rms > SPEECH_RMS

(* rms > speechThreshold(roomLevel), the threshold being the larger of      *)
(* SPEECH_RMS and two and a half times the room.                            *)
AboveGate(rms, room) == rms > SPEECH_RMS /\ 2 * rms > 5 * room

(* appendFrame: copies what fits and returns the new length.                *)
Append(len, frames) == len + Least(frames, MAX_UTTERANCE - len)

(* Mutant: the shortest utterance worth a transcription is dropped.         *)
EligibleAbove(len, voiced) == voiced > MIN_VOICED_FRAMES /\ len >= MIN_VOICED_FRAMES

(* The guard of flushUtterance: short blips are not worth a transcription.  *)
Eligible(len, voiced) == voiced >= MIN_VOICED_FRAMES /\ len >= MIN_VOICED_FRAMES

Calibrating == calibFrames < CALIBRATION_FRAMES

Init ==
  /\ phase = "reading" /\ recording = TRUE
  /\ calibFrames = 0 /\ roomLevel = NOISE_FLOOR
  /\ pendingLen = 0 /\ pendingVoiced = 0 /\ leadIn = 0
  /\ voicedFrames = 0 /\ quietFrames = 0
  /\ outcome = "none"
  /\ burst = 0 /\ hush = END_SILENCE /\ sent = FALSE

(* The weighted mean of the room and a quiet frame lies between the two;    *)
(* where exactly is left open.                                              *)
Drift(rms) == {r \in RmsLevels : Least(roomLevel, rms) <= r
                                 /\ r <= Greatest(roomLevel, rms)}

(* One frame read and measured: the room follows the loudest frame while    *)
(* calibrating, then drifts on quiet frames outside an utterance.           *)
Measure(rms) ==
  /\ phase = "reading" /\ recording
  /\ calibFrames' = IF Calibrating THEN calibFrames + 1 ELSE calibFrames
  /\ roomLevel' \in IF Calibrating THEN {Greatest(roomLevel, rms)}
                    ELSE IF ~AboveGate(rms, roomLevel) /\ voicedFrames = 0
                    THEN Drift(rms)
                    ELSE {roomLevel}
  /\ UNCHANGED <<phase, recording>>

(* flushUtterance as far as the buffer is concerned.                        *)
Flush(len, voiced) ==
  outcome' = IF Eligible(len, voiced) THEN "transcribed" ELSE "ignored"

(* Mutant: the flushed audio stays in the buffer.                           *)
ResetCounters ==
  pendingVoiced' = 0 /\ voicedFrames' = 0 /\ quietFrames' = 0 /\ UNCHANGED pendingLen

ResetUtterance ==
  pendingLen' = 0 /\ pendingVoiced' = 0 /\ voicedFrames' = 0 /\ quietFrames' = 0

(* History of the speech itself, kept apart from the loop's own counters: a *)
(* burst lasts until END_SILENCE quiet frames in a row.                     *)
HearVoice ==
  /\ burst' = IF hush >= END_SILENCE THEN 1 ELSE Least(burst + 1, MIN_VOICED_FRAMES)
  /\ hush' = 0
  /\ sent' = ((hush < END_SILENCE /\ sent) \/ outcome' = "transcribed")

HearQuiet ==
  /\ hush' = Least(hush + 1, END_SILENCE)
  /\ burst' = burst

(* A frame above the gate: it joins the buffer, behind the lead-in when it  *)
(* opens the utterance, and enough of them are flushed mid-speech.          *)
VoicedFrame(rms) ==
  LET onset  == voicedFrames = 0
      len    == Append(Append(pendingLen, IF onset THEN leadIn ELSE 0), 1)
      voiced == pendingVoiced + 1
  IN  /\ Measure(rms)
      /\ AboveGate(rms, roomLevel')
      /\ leadIn' = IF onset THEN 0 ELSE leadIn
      /\ \/ /\ voiced >= LIVE_FLUSH
            /\ Flush(len, voiced)
            /\ ResetUtterance
         \/ /\ voiced < LIVE_FLUSH
            /\ pendingLen' = len /\ pendingVoiced' = voiced
            /\ voicedFrames' = voicedFrames + 1 /\ quietFrames' = 0
            /\ outcome' = "none"
      /\ HearVoice

(* quietFrames * FRAME_SECONDS >= END_SILENCE_S, after counting this frame. *)
SilentLongEnough == quietFrames + 1 >= END_SILENCE

(* A quiet frame inside an utterance is buffered too; enough of them in a   *)
(* row close the utterance.                                                 *)
TrailingFrame(rms) ==
  LET len == Append(pendingLen, 1)
  IN  /\ Measure(rms)
      /\ ~AboveGate(rms, roomLevel')
      /\ voicedFrames > 0
      /\ leadIn' = leadIn
      /\ \/ /\ SilentLongEnough
            /\ Flush(len, pendingVoiced)
            /\ ResetUtterance
         \/ /\ ~SilentLongEnough
            /\ pendingLen' = len /\ quietFrames' = quietFrames + 1
            /\ outcome' = "none"
            /\ UNCHANGED <<pendingVoiced, voicedFrames>>
      /\ HearQuiet
      /\ sent' = (sent \/ outcome' = "transcribed")

(* A quiet frame before any speech rolls through the lead-in window.        *)
LeadInFrame(rms) ==
  /\ Measure(rms)
  /\ ~AboveGate(rms, roomLevel')
  /\ voicedFrames = 0
  /\ leadIn' = Least(leadIn + 1, LEAD_IN_FRAMES)
  /\ outcome' = "none"
  /\ UNCHANGED <<pendingLen, pendingVoiced, voicedFrames, quietFrames>>
  /\ HearQuiet
  /\ sent' = sent

(* Stop or cancel, from another thread.                                     *)
Stop ==
  /\ recording
  /\ recording' = FALSE
  /\ UNCHANGED <<phase, calibFrames, roomLevel, buffer, outcome, history>>

(* The loop sees the stop and flushes the tail.                             *)
Leave ==
  /\ phase = "reading" /\ ~recording
  /\ phase' = "closed"
  /\ \/ pendingLen >= MIN_VOICED_FRAMES /\ Flush(pendingLen, pendingVoiced)
     \/ pendingLen < MIN_VOICED_FRAMES /\ outcome' = "none"
  /\ sent' = (sent \/ outcome' = "transcribed")
  /\ UNCHANGED <<recording, calibFrames, roomLevel, buffer, burst, hush>>

Next ==
  \/ \E rms \in RmsLevels : VoicedFrame(rms) \/ TrailingFrame(rms) \/ LeadInFrame(rms)
  \/ Stop
  \/ Leave

Spec == Init /\ [][Next]_vars

-----------------------------------------------------------------------------
(* Every variable holds a value of its type.                                *)
TypeOK ==
  /\ phase \in {"reading", "closed"}
  /\ recording \in BOOLEAN
  /\ calibFrames \in 0..CALIBRATION_FRAMES
  /\ roomLevel \in RmsLevels
  /\ pendingLen \in 0..MAX_UTTERANCE
  /\ pendingVoiced \in 0..(LIVE_FLUSH - 1)
  /\ leadIn \in 0..LEAD_IN_FRAMES
  /\ voicedFrames \in 0..(LIVE_FLUSH - 1)
  /\ quietFrames \in 0..(END_SILENCE - 1)
  /\ outcome \in Outcome
  /\ burst \in 0..MIN_VOICED_FRAMES
  /\ hush \in 0..END_SILENCE
  /\ sent \in BOOLEAN

(* The ten-second buffer never truncates an utterance: whatever the next    *)
(* frame is, it fits, with the lead-in before it when it opens one, so the  *)
(* silent clipping of appendFrame is never what the user gets.              *)
NoAudioTruncated ==
  LET waiting == IF voicedFrames = 0 THEN leadIn ELSE 0
  IN  phase = "reading" => pendingLen + waiting + 1 <= MAX_UTTERANCE

(* Speech long enough to matter is never lost whole: once a burst of at     *)
(* least MIN_VOICED_FRAMES voiced frames is over, by silence or by the user *)
(* stopping, some of it has been handed to whisper, however its frames were *)
(* spread over live flushes, pauses and the tail.                           *)
SpeechReachesWhisper ==
  (hush = END_SILENCE \/ phase = "closed") /\ burst >= MIN_VOICED_FRAMES => sent

(* While the room is being calibrated no frame can open the gate, however   *)
(* loud: the estimate is raised to the frame before the frame is compared   *)
(* with two and a half times the estimate.                                  *)
CalibrationIsDeaf ==
  Calibrating => burst = 0 /\ pendingLen = 0
=============================================================================
