\* Two customers who sign in one after the other, one request at a time, three
\* of: a field typed in, a save, a password change, a sign-in, a fault.
SPECIFICATION Spec
CONSTANTS
  Customers = {c1, c2}
  Others = {v1}
  None = None
  Slots = {q1}
  MaxDepth = 7
  MaxActs = 3
SYMMETRY Symmetry
CONSTRAINT DialogSoon
INVARIANTS
  TypeOK
  PasswordByOwnEmail
  FormOfSession
  AsMeant
