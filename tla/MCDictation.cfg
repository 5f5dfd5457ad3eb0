CONSTANTS
  MaxSessions = 2
  MaxUtterances = 1
  MaxVisits = 1
  CaptureOpens <- MCWhisperOnly
  PlatformAvailable = FALSE
  FailingLoops = {}
SPECIFICATION DSpec
INVARIANTS LandsWhereClaimed LandsOnce CancelledNeverLands
VIEW MCRead
