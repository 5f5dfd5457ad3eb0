CONSTANTS
  WhisperCalls = {"transcribe", "warmUp"}
  LlmCalls = {"summary"}
  Size = 2
  MinValid = 0
  Rooms = {4}
  MaxFaults = 2
SPECIFICATION FairSpec
INVARIANTS OneContext NoOldGeneration NullIsExplained
PROPERTIES StagesWhole Answered
