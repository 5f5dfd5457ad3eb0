CONSTANTS
  MaxSessions = 1
  MaxUtterances = 2
  MaxVisits = 1
  CaptureOpens <- MCEither
  PlatformAvailable = TRUE
  FailingLoops = {1}
SPECIFICATION DSpec
PROPERTY StopSaves
