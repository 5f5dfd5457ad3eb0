SPECIFICATION FieldSpec
CONSTANTS
  Keys = {"a", "*", "space", "newline"}
  Notes <- MCNotes
  MaxChanges = 1
INVARIANTS PreviewIsAnchored PressTakesBack PrefixKeepsLine
CHECK_DEADLOCK FALSE
