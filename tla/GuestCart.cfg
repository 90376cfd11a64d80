\* Any shopper: adds may overlap, sessions expire, sign-outs happen any time.
SPECIFICATION Spec
CONSTANTS
  Calls = {c1, c2, c3}
  Sessions = {s1, s2, s3}
  Users = {u1}
  None = None
SYMMETRY Symmetry
INVARIANTS
  TypeOK
  AcknowledgedAddsKept
  DroppedStaysDropped
PROPERTIES
  SettledCookie
  BasketSpec
CHECK_DEADLOCK FALSE
