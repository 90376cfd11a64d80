\* Two products, two requests at a time, three changes, one fault.
SPECIFICATION FairCatalogueSpec
CONSTANTS
  Products = {p1, p2}
  Calls = {q1, q2}
  MaxTaps = 3
  MaxFaults = 1
INVARIANTS
  MarksFollow
PROPERTIES
  ProductsComeBack
