CONSTANTS
  Flushes = {f1, f2}
  f1 = f1
  f2 = f2
  Marks = {"mark"}
  MaxEdits = 2
  MaxMarks = 1
  MaxSelects = 2
  MaxActs = 4
  MaxJobs = 2
  LastDay = 1
VIEW PageRead
SYMMETRY FlushSymmetry
SPECIFICATION Spec
INVARIANTS TextUnderItsDay ScreenSettles
PROPERTIES PageKeepsText
\* The bounded number of edits comes to an end.
CHECK_DEADLOCK FALSE
