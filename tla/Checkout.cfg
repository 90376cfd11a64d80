\* Two requests at a time, guests who become customers and customers guests
\* (two sign-ins or sign-outs).
SPECIFICATION Spec
CONSTANTS
  Users = {u1}
  Sessions = {g1}
  None = None
  Slots = {q1, q2}
  MaxDepth = 6
  MaxGen = 1
  MaxMoves = 2
SYMMETRY Symmetry
INVARIANTS
  TypeOK
  WizardCompletes
  NoChoiceNoPayment
  OrderedAsShown
CHECK_DEADLOCK FALSE
