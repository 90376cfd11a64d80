\* One order of one line, two requests at a time, four pages, so that a
\* refund's list comes to lie over its form, two requests of the shopper's
\* that change something, one fault; fairness of Spec.
SPECIFICATION Spec
CONSTANTS
  Orders = {o1}
  None = None
  Lines <- TheLines
  Slots = {q1, q2}
  MaxQty = 1
  MaxPages = 4
  MaxTaps = 2
  MaxFaults = 1
INVARIANTS
  ReordersCount
  RefundMatchesOrder
PROPERTIES
  NeverGoesBack
  CancelIsSettled
