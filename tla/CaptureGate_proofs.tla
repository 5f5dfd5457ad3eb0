------------------------- MODULE CaptureGate_proofs -------------------------
(* Proofs about CaptureGate for every value of its constants that meets the *)
(* assumptions: types, the buffer bound, and that speech reaches whisper.   *)
EXTENDS CaptureGate, TLAPS

(* The most frames v voiced frames and the pauses between them can need.    *)
Budget(v) == LEAD_IN_FRAMES + v * END_SILENCE - (END_SILENCE - 1)

(* The two voiced counters of the loop always agree, an empty utterance has *)
(* an empty buffer, and an open one has not outgrown its budget.            *)
BufferInv ==
  /\ pendingVoiced = voicedFrames
  /\ voicedFrames = 0 => pendingLen = 0 /\ quietFrames = 0
  /\ voicedFrames > 0 => /\ pendingVoiced <= pendingLen
                         /\ pendingLen <= Budget(voicedFrames) + quietFrames

(* How the loop's counters follow the speech: an open utterance has the     *)
(* pause of the burst, and a burst of which nothing was sent is all pending.*)
SpeechInv ==
  /\ voicedFrames > 0 => quietFrames = hush /\ hush < END_SILENCE
  /\ hush < END_SILENCE /\ ~sent =>
       voicedFrames > 0 /\ burst = Least(voicedFrames, MIN_VOICED_FRAMES)
  /\ SpeechReachesWhisper

IInv == TypeOK /\ BufferInv /\ SpeechInv

(* One more voiced frame adds at most END_SILENCE to the budget, which      *)
(* never exceeds the capacity up to LIVE_FLUSH voiced frames.               *)
LEMMA BudgetStep ==
  ASSUME NEW v \in Nat, v <= LIVE_FLUSH
  PROVE  /\ Budget(v) \in Int
         /\ Budget(v + 1) = Budget(v) + END_SILENCE
         /\ Budget(v) <= MAX_UTTERANCE
         /\ Budget(1) = LEAD_IN_FRAMES + 1
<1>1. v * END_SILENCE <= LIVE_FLUSH * END_SILENCE
  BY FramesAssumption
<1>2. LongestUtterance = LEAD_IN_FRAMES + LIVE_FLUSH * END_SILENCE - (END_SILENCE - 1)
  BY FramesAssumption DEF LongestUtterance
<1>3. (v + 1) * END_SILENCE = v * END_SILENCE + END_SILENCE
  BY FramesAssumption
<1>4. LIVE_FLUSH * END_SILENCE \in Int /\ v * END_SILENCE \in Int
  BY FramesAssumption
<1> QED
  BY <1>1, <1>2, <1>3, <1>4, FramesAssumption, CapacityAssumption DEF Budget

(* Appending what fits adds all of it.                                      *)
LEMMA AppendFits ==
  ASSUME NEW len \in Nat, NEW frames \in Nat, len + frames <= MAX_UTTERANCE
  PROVE  Append(len, frames) = len + frames
  BY FramesAssumption DEF Append, Least

(* What any frame leaves of the room estimate and the calibration count.    *)
LEMMA MeasureType ==
  ASSUME TypeOK, NEW rms \in RmsLevels, Measure(rms)
  PROVE  /\ calibFrames' \in 0..CALIBRATION_FRAMES
         /\ roomLevel' \in RmsLevels
         /\ phase' = "reading" /\ recording' \in BOOLEAN
<1>1. calibFrames' \in 0..CALIBRATION_FRAMES
  BY FramesAssumption DEF TypeOK, Measure, Calibrating
<1>2. roomLevel' \in RmsLevels
  <2>1. CASE Calibrating
    BY <2>1 DEF TypeOK, Measure, Greatest
  <2>2. CASE ~Calibrating
    BY <2>2 DEF TypeOK, Measure, Drift
  <2> QED BY <2>1, <2>2
<1> QED BY <1>1, <1>2 DEF TypeOK, Measure

LEMMA VoicedStep ==
  ASSUME IInv, NEW rms \in RmsLevels, VoicedFrame(rms)
  PROVE  IInv'
<1> DEFINE onset == voicedFrames = 0
           lead == IF onset THEN leadIn ELSE 0
           len == Append(Append(pendingLen, lead), 1)
           voiced == pendingVoiced + 1
<1> USE FramesAssumption DEF IInv
<1>0. /\ calibFrames' \in 0..CALIBRATION_FRAMES /\ roomLevel' \in RmsLevels
      /\ phase' = "reading" /\ recording' \in BOOLEAN
  BY MeasureType DEF VoicedFrame
<1>1. /\ pendingLen + lead + 1 <= Budget(voiced) /\ Budget(voiced) \in Int
      /\ pendingLen + lead + 1 <= MAX_UTTERANCE
      /\ voiced \in 1..LIVE_FLUSH /\ lead \in Nat /\ pendingLen \in Nat
      /\ voiced <= pendingLen + lead + 1
  <2>1. voicedFrames \in Nat /\ voicedFrames < LIVE_FLUSH
    BY DEF TypeOK
  <2>2. voicedFrames + 1 \in Nat /\ voicedFrames + 1 <= LIVE_FLUSH
    BY <2>1
  <2>3. /\ Budget(voicedFrames + 1) = Budget(voicedFrames) + END_SILENCE
        /\ Budget(voicedFrames) \in Int /\ Budget(1) = LEAD_IN_FRAMES + 1
    BY <2>1, BudgetStep
  <2>4. Budget(voicedFrames + 1) <= MAX_UTTERANCE /\ Budget(voicedFrames + 1) \in Int
    BY <2>2, BudgetStep
  <2>5. voiced = voicedFrames + 1
    BY DEF BufferInv
  <2> QED BY <2>1, <2>2, <2>3, <2>4, <2>5 DEF TypeOK, BufferInv
<1>2. len = pendingLen + lead + 1
  <2>1. Append(pendingLen, lead) = pendingLen + lead
    BY <1>1, AppendFits DEF TypeOK
  <2> QED BY <2>1, <1>1, AppendFits DEF TypeOK
<1>3. leadIn' \in 0..LEAD_IN_FRAMES
  BY DEF VoicedFrame, TypeOK
<1>4. burst' \in 0..MIN_VOICED_FRAMES /\ hush' = 0 /\ sent' \in BOOLEAN
  BY DEF VoicedFrame, HearVoice, TypeOK, Least
<1>5. CASE voiced >= LIVE_FLUSH
  <2>1. /\ outcome' = "transcribed"
        /\ pendingLen' = 0 /\ pendingVoiced' = 0 /\ voicedFrames' = 0 /\ quietFrames' = 0
    BY <1>1, <1>2, <1>5 DEF VoicedFrame, Flush, Eligible, ResetUtterance, TypeOK
  <2>2. sent' = TRUE
    BY <2>1 DEF VoicedFrame, HearVoice
  <2> QED
    BY <1>0, <1>3, <1>4, <2>1, <2>2
    DEF TypeOK, BufferInv, SpeechInv, SpeechReachesWhisper, Outcome
<1>6. CASE voiced < LIVE_FLUSH
  <2>1. /\ outcome' = "none" /\ pendingLen' = len /\ pendingVoiced' = voiced
        /\ voicedFrames' = voicedFrames + 1 /\ quietFrames' = 0
    BY <1>1, <1>6 DEF VoicedFrame
  <2>2. TypeOK'
    BY <1>0, <1>1, <1>2, <1>3, <1>4, <1>6, <2>1 DEF TypeOK, BufferInv, Outcome
  <2>3. BufferInv'
    <3>1. Budget(voicedFrames') = Budget(voiced)
      BY <2>1 DEF BufferInv
    <3>2. Budget(voicedFrames)' = Budget(voicedFrames')
      BY DEF Budget
    <3> QED BY <1>1, <1>2, <2>1, <3>1, <3>2 DEF BufferInv, TypeOK
  <2>4. SpeechInv'
    BY <1>0, <1>1, <1>4, <2>1
    DEF SpeechInv, SpeechReachesWhisper, VoicedFrame, HearVoice, Least, TypeOK, BufferInv
  <2> QED BY <2>2, <2>3, <2>4
<1> QED BY <1>1, <1>5, <1>6

LEMMA TrailingStep ==
  ASSUME IInv, NEW rms \in RmsLevels, TrailingFrame(rms)
  PROVE  IInv'
<1> DEFINE len == Append(pendingLen, 1)
<1> USE FramesAssumption DEF IInv
<1>0. /\ calibFrames' \in 0..CALIBRATION_FRAMES /\ roomLevel' \in RmsLevels
      /\ phase' = "reading" /\ recording' \in BOOLEAN
  BY MeasureType DEF TrailingFrame
<1>1. /\ voicedFrames \in 1..(LIVE_FLUSH - 1) /\ quietFrames = hush /\ leadIn' = leadIn
      /\ burst' = burst /\ hush' = Least(hush + 1, END_SILENCE)
      /\ sent' = (sent \/ outcome' = "transcribed")
  BY DEF TrailingFrame, HearQuiet, TypeOK, SpeechInv
<1>2. /\ len = pendingLen + 1 /\ len <= MAX_UTTERANCE
      /\ len <= Budget(voicedFrames) + quietFrames + 1
  <2>1. /\ Budget(voicedFrames + 1) = Budget(voicedFrames) + END_SILENCE
        /\ Budget(voicedFrames) \in Int
    BY <1>1, BudgetStep
  <2>2. Budget(voicedFrames + 1) <= MAX_UTTERANCE
    BY <1>1, BudgetStep
  <2>3. pendingLen + 1 <= MAX_UTTERANCE
    BY <1>1, <2>1, <2>2 DEF BufferInv, TypeOK
  <2>4. len = pendingLen + 1
    BY <2>3, AppendFits DEF TypeOK
  <2> QED BY <1>1, <2>1, <2>3, <2>4 DEF BufferInv, TypeOK
<1>3. CASE quietFrames + 1 >= END_SILENCE
  <2>1. /\ outcome' = IF Eligible(len, pendingVoiced) THEN "transcribed" ELSE "ignored"
        /\ pendingLen' = 0 /\ pendingVoiced' = 0 /\ voicedFrames' = 0 /\ quietFrames' = 0
    BY <1>3 DEF TrailingFrame, SilentLongEnough, Flush, ResetUtterance, TypeOK
  <2>2. burst >= MIN_VOICED_FRAMES => sent'
    <3> SUFFICES ASSUME burst >= MIN_VOICED_FRAMES, ~sent PROVE outcome' = "transcribed"
      BY <1>1
    <3>1. voicedFrames >= MIN_VOICED_FRAMES
      BY <1>1 DEF SpeechInv, Least, TypeOK
    <3> QED BY <3>1, <1>2, <2>1 DEF Eligible, BufferInv, TypeOK
  <2>3. hush' = END_SILENCE
    BY <1>1, <1>3 DEF Least, TypeOK
  <2> QED
    BY <1>0, <1>1, <2>1, <2>2, <2>3
    DEF TypeOK, BufferInv, SpeechInv, SpeechReachesWhisper, Outcome
<1>4. CASE quietFrames + 1 < END_SILENCE
  <2>1. /\ outcome' = "none" /\ pendingLen' = len /\ quietFrames' = quietFrames + 1
        /\ pendingVoiced' = pendingVoiced /\ voicedFrames' = voicedFrames
    BY <1>4 DEF TrailingFrame, SilentLongEnough, TypeOK
  <2>2. hush' = hush + 1 /\ hush' < END_SILENCE /\ sent' = sent
    BY <1>1, <1>4, <2>1 DEF Least, TypeOK
  <2>3. TypeOK'
    BY <1>0, <1>1, <1>2, <1>4, <2>1, <2>2 DEF TypeOK, Outcome
  <2>4. BufferInv'
    <3>1. Budget(voicedFrames)' = Budget(voicedFrames) /\ Budget(voicedFrames) \in Int
      BY <1>1, <2>1, BudgetStep DEF Budget
    <3> QED BY <1>1, <1>2, <2>1, <3>1 DEF BufferInv, TypeOK
  <2>5. SpeechInv'
    BY <1>0, <1>1, <2>1, <2>2 DEF SpeechInv, SpeechReachesWhisper, TypeOK, Least
  <2> QED BY <2>3, <2>4, <2>5
<1> QED BY <1>3, <1>4 DEF TypeOK

LEMMA LeadInStep ==
  ASSUME IInv, NEW rms \in RmsLevels, LeadInFrame(rms)
  PROVE  IInv'
<1> USE FramesAssumption DEF IInv
<1>0. /\ calibFrames' \in 0..CALIBRATION_FRAMES /\ roomLevel' \in RmsLevels
      /\ phase' = "reading" /\ recording' \in BOOLEAN
  BY MeasureType DEF LeadInFrame
<1>1. /\ voicedFrames = 0 /\ outcome' = "none"
      /\ leadIn' = Least(leadIn + 1, LEAD_IN_FRAMES)
      /\ UNCHANGED <<pendingLen, pendingVoiced, voicedFrames, quietFrames, burst, sent>>
      /\ hush' = Least(hush + 1, END_SILENCE)
  BY DEF LeadInFrame, HearQuiet
<1>2. TypeOK'
  BY <1>0, <1>1 DEF TypeOK, Least, Outcome
<1>3. BufferInv'
  BY <1>1 DEF BufferInv
<1>4. SpeechInv'
  BY <1>0, <1>1 DEF SpeechInv, SpeechReachesWhisper, TypeOK, Least
<1> QED BY <1>2, <1>3, <1>4

LEMMA LeaveStep ==
  ASSUME IInv, Leave
  PROVE  IInv'
<1> USE FramesAssumption DEF IInv
<1>1. /\ phase' = "closed" /\ outcome' \in Outcome
      /\ sent' = (sent \/ outcome' = "transcribed")
      /\ UNCHANGED <<recording, calibFrames, roomLevel, pendingLen, pendingVoiced,
                     leadIn, voicedFrames, quietFrames, burst, hush>>
  BY DEF Leave, Flush, Outcome, buffer
<1>2. TypeOK'
  BY <1>1 DEF TypeOK
<1>3. BufferInv'
  BY <1>1 DEF BufferInv, Budget
<1>4. burst >= MIN_VOICED_FRAMES => sent'
  <2> SUFFICES ASSUME burst >= MIN_VOICED_FRAMES, ~sent PROVE outcome' = "transcribed"
    BY <1>1
  <2>1. hush < END_SILENCE
    BY DEF SpeechInv, SpeechReachesWhisper, TypeOK
  <2>2. voicedFrames >= MIN_VOICED_FRAMES /\ voicedFrames > 0
    BY <2>1 DEF SpeechInv, Least, TypeOK
  <2>3. pendingLen >= MIN_VOICED_FRAMES /\ pendingVoiced >= MIN_VOICED_FRAMES
    BY <2>2 DEF BufferInv, TypeOK
  <2> QED BY <2>3 DEF Leave, Flush, Eligible, TypeOK
<1>5. SpeechInv'
  BY <1>1, <1>4 DEF SpeechInv, SpeechReachesWhisper
<1> QED BY <1>2, <1>3, <1>5

LEMMA Inductive ==
  ASSUME IInv, [Next]_vars
  PROVE  IInv'
<1>1. CASE \E rms \in RmsLevels : VoicedFrame(rms) \/ TrailingFrame(rms) \/ LeadInFrame(rms)
  BY <1>1, VoicedStep, TrailingStep, LeadInStep
<1>2. CASE Stop
  <2>1. /\ recording' = FALSE
        /\ UNCHANGED <<phase, calibFrames, roomLevel, pendingLen, pendingVoiced, leadIn,
                       voicedFrames, quietFrames, outcome, burst, hush, sent>>
    BY <1>2 DEF Stop, buffer, history
  <2> QED
    BY <2>1 DEF IInv, TypeOK, BufferInv, SpeechInv, SpeechReachesWhisper, Budget
<1>3. CASE Leave
  BY <1>3, LeaveStep
<1>4. CASE UNCHANGED vars
  BY <1>4 DEF vars, buffer, history, IInv, TypeOK, BufferInv, SpeechInv,
              SpeechReachesWhisper, Budget
<1> QED BY <1>1, <1>2, <1>3, <1>4 DEF Next

LEMMA Initially == Init => IInv
<1> SUFFICES ASSUME Init PROVE IInv
  OBVIOUS
<1>1. TypeOK
  <2>1. /\ phase \in {"reading", "closed"} /\ outcome \in Outcome
        /\ recording \in BOOLEAN /\ sent \in BOOLEAN
    BY DEF Init, Outcome
  <2>2. /\ calibFrames \in 0..CALIBRATION_FRAMES /\ roomLevel \in RmsLevels
        /\ pendingLen \in 0..MAX_UTTERANCE /\ leadIn \in 0..LEAD_IN_FRAMES
    BY LevelsAssumption, FramesAssumption DEF Init
  <2>3. /\ pendingVoiced \in 0..(LIVE_FLUSH - 1) /\ voicedFrames \in 0..(LIVE_FLUSH - 1)
        /\ quietFrames \in 0..(END_SILENCE - 1)
        /\ burst \in 0..MIN_VOICED_FRAMES /\ hush \in 0..END_SILENCE
    BY FramesAssumption DEF Init
  <2> QED BY <2>1, <2>2, <2>3 DEF TypeOK
<1>2. BufferInv
  BY DEF Init, BufferInv
<1>3. SpeechInv
  BY FramesAssumption DEF Init, SpeechInv, SpeechReachesWhisper
<1> QED BY <1>1, <1>2, <1>3 DEF IInv

(* The inductive invariant holds in every reachable state.                  *)
THEOREM Invariance == Spec => []IInv
  BY Initially, Inductive, PTL DEF Spec

(* captureLoop keeps every counter and level in its range.                  *)
THEOREM TypeCorrect == Spec => []TypeOK
<1>1. IInv => TypeOK BY DEF IInv
<1> QED BY <1>1, Invariance, PTL

(* appendFrame never clips: an utterance fits the buffer for every choice   *)
(* of the frame counts with LongestUtterance <= MAX_UTTERANCE.              *)
THEOREM BufferNeverClips == Spec => []NoAudioTruncated
<1>1. IInv => NoAudioTruncated
  <2> SUFFICES ASSUME IInv PROVE NoAudioTruncated
    OBVIOUS
  <2> USE FramesAssumption DEF IInv
  <2>1. CASE voicedFrames = 0
    <3>1. Budget(1) <= MAX_UTTERANCE /\ Budget(1) = LEAD_IN_FRAMES + 1
      BY BudgetStep, 1 \in Nat, 1 <= LIVE_FLUSH
    <3> QED BY <2>1, <3>1 DEF NoAudioTruncated, BufferInv, TypeOK
  <2>2. CASE voicedFrames > 0
    <3>1. voicedFrames \in Nat /\ voicedFrames + 1 \in Nat /\ voicedFrames + 1 <= LIVE_FLUSH
      BY DEF TypeOK
    <3>2. /\ Budget(voicedFrames + 1) = Budget(voicedFrames) + END_SILENCE
          /\ Budget(voicedFrames) \in Int
      BY <3>1, BudgetStep
    <3>3. Budget(voicedFrames + 1) <= MAX_UTTERANCE
      BY <3>1, BudgetStep
    <3> QED BY <2>2, <3>2, <3>3 DEF NoAudioTruncated, BufferInv, TypeOK
  <2> QED BY <2>1, <2>2 DEF TypeOK
<1> QED BY <1>1, Invariance, PTL

(* A burst of speech of MIN_VOICED_FRAMES or more is never lost whole.      *)
THEOREM SpeechIsSent == Spec => []SpeechReachesWhisper
<1>1. IInv => SpeechReachesWhisper BY DEF IInv, SpeechInv
<1> QED BY <1>1, Invariance, PTL

(* While it calibrates the loop has heard nothing, not even an open         *)
(* utterance: what CalibrationIsDeaf needs to be inductive.                 *)
DeafInv == CalibrationIsDeaf /\ (Calibrating => voicedFrames = 0)

LEMMA DeafStep ==
  ASSUME IInv, DeafInv, [Next]_vars
  PROVE  DeafInv'
<1> USE FramesAssumption, LevelsAssumption DEF IInv
<1> SUFFICES ASSUME Calibrating'
             PROVE  burst' = 0 /\ pendingLen' = 0 /\ voicedFrames' = 0
  BY DEF DeafInv, CalibrationIsDeaf
<1>1. ASSUME NEW rms \in RmsLevels, Measure(rms)
      PROVE  Calibrating /\ ~AboveGate(rms, roomLevel')
  <2>1. Calibrating
    BY <1>1 DEF Measure, Calibrating, TypeOK
  <2>2. roomLevel' = Greatest(roomLevel, rms)
    BY <1>1, <2>1 DEF Measure
  <2> QED BY <2>1, <2>2 DEF AboveGate, Greatest, TypeOK
<1>2. ASSUME NEW rms \in RmsLevels,
             VoicedFrame(rms) \/ TrailingFrame(rms) \/ LeadInFrame(rms)
      PROVE  burst' = 0 /\ pendingLen' = 0 /\ voicedFrames' = 0
  <2>1. Measure(rms)
    BY <1>2 DEF VoicedFrame, TrailingFrame, LeadInFrame
  <2>2. burst = 0 /\ pendingLen = 0 /\ voicedFrames = 0 /\ ~VoicedFrame(rms)
    BY <2>1, <1>1 DEF DeafInv, CalibrationIsDeaf, VoicedFrame
  <2>3. LeadInFrame(rms)
    BY <1>2, <2>2 DEF TrailingFrame
  <2> QED BY <2>2, <2>3 DEF LeadInFrame, HearQuiet
<1>3. CASE Stop \/ Leave \/ UNCHANGED vars
  BY <1>3 DEF Stop, Leave, vars, buffer, history, DeafInv, CalibrationIsDeaf, Calibrating
<1> QED BY <1>2, <1>3 DEF Next

(* Whatever is said in the first CALIBRATION_FRAMES frames goes unheard:    *)
(* captureLoop raises the room to a frame before it compares the two.       *)
THEOREM NothingHeardWhileCalibrating == Spec => []CalibrationIsDeaf
<1>1. Init => DeafInv
  BY DEF Init, DeafInv, CalibrationIsDeaf
<1>2. IInv /\ DeafInv /\ [Next]_vars => DeafInv'
  BY DeafStep
<1>3. DeafInv => CalibrationIsDeaf
  BY DEF DeafInv
<1> QED BY <1>1, <1>2, <1>3, Invariance, PTL DEF Spec
=============================================================================
