CONSTANTS
  MaxEdits = 3
  MaxVisits = 2
SPECIFICATION Spec
\* The bounded number of visits comes to an end.
CHECK_DEADLOCK FALSE
INVARIANT DeleteDeletes
