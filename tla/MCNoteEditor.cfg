CONSTANTS
  MaxEdits = 3
  MaxVisits = 2
SPECIFICATION FairSpec
INVARIANTS OneRowPerNote ScreenIsStored DeletedIsGone
PROPERTY TypedIsStored
\* The bounded number of visits comes to an end.
CHECK_DEADLOCK FALSE
