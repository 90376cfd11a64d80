\* Two products, two requests at a time, three pages, three changes, one fault.
SPECIFICATION WishSpec
CONSTANTS
  Products = {p1, p2}
  Slots = {q1, q2}
  MaxPages = 3
  MaxTaps = 3
  MaxFaults = 1
SYMMETRY Symmetry
CONSTRAINT Bounded
INVARIANTS
  WishTypeOK
  AsMeant
  ToldIsTrue
  NoPageLost
PROPERTIES
  NothingVanishes
