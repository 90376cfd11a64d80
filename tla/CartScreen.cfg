\* Two requests at a time, two screens, two changes, one fault; fairness of ScreenSpec.
SPECIFICATION ScreenSpec
CONSTANTS
  Products = {p1, p2}
  Slots = {q1, q2}
  MaxQty = 3
  MaxTaps = 2
  MaxFaults = 1
  MaxScreens = 2
INVARIANTS
  ScreenTypeOK
  CarefulTapsCount
  NothingMadeUp
PROPERTIES
  DisplayHeals
