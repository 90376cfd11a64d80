\* Two addresses, two requests at a time, four pages (a form, a list, an edit
\* form and the list it leads to), two changes, or one and a fault.
SPECIFICATION Spec
CONSTANTS
  Values = {v1, v2}
  Blank = Blank
  Slots = {q1, q2}
  MaxIds = 2
  MaxPages = 4
  MaxEvents = 2
SYMMETRY Symmetry
INVARIANTS
  TypeOK
  NewListIsFresh
  AsMeant
