\* Two accounts, two requests at a time.
SPECIFICATION Spec
CONSTANTS
  Emails = {e1, e2}
  None = None
  Slots = {q1, q2}
  MaxDepth = 7
SYMMETRY Symmetry
INVARIANTS
  UpdatesVerified
CHECK_DEADLOCK FALSE
