\* Both engines; the loop of the first dictation may throw.
CONSTANTS
  MaxSessions = 2
  MaxUtterances = 1
  CaptureOpens <- MCEither
  PlatformAvailable = TRUE
  FailingLoops = {1}
SPECIFICATION Spec
INVARIANTS RefusedOnlyWhileDictating RecordingIsShown CancelledNeverFinal PublishedOnce
PROPERTY StateSettlesFirst TranscriptSettles
