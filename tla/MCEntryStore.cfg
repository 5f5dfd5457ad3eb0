CONSTANTS
  j1 = j1
  j2 = j2
  j3 = j3
  j4 = j4
  Job <- MCJob
  None = None
  MaxDay = 1
SYMMETRY JobsAlike
SPECIFICATION Spec
INVARIANTS SecondPageOnlyByRace DeletedStaysDeleted
PROPERTY KeepsBook
\* The bounded number of calls comes to an end.
CHECK_DEADLOCK FALSE
