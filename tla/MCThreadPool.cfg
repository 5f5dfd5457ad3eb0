SPECIFICATION FairSpec
CONSTANTS
  N = 3
  MaxGraphs = 2
  Graph <- MCGraph
INVARIANTS
  WorkBufferIsWhole
  CallerOwnsParameters
PROPERTIES
  EvaluatesGraphs
  CallReturns
