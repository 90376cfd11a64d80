\* Two e-mails, two requests at a time, eight pages; only as long as the
\* shopper waits.
SPECIFICATION Spec
CONSTANTS
  Emails = {e1, e2}
  None = None
  Slots = {q1, q2}
  MaxDepth = 8
SYMMETRY Symmetry
CONSTRAINT Waiting
INVARIANTS
  CodeForAccount
  ResendReachesShown
CHECK_DEADLOCK FALSE
