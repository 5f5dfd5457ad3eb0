\* The shipped constants: 100 ms frames, thousandths of full scale.
CONSTANTS
  RmsLevels <- MCRmsLevels
  NOISE_FLOOR = 4
  SPEECH_RMS = 12
  CALIBRATION_FRAMES = 10
  END_SILENCE = 5
  LIVE_FLUSH = 15
  MIN_VOICED_FRAMES = 3
  LEAD_IN_FRAMES = 3
  MAX_UTTERANCE = 100
SPECIFICATION Spec
INVARIANTS NoAudioTruncated SpeechReachesWhisper CalibrationIsDeaf
\* The loop ends when the user stops.
CHECK_DEADLOCK FALSE
