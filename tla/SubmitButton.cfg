\* Two visits to a page, three requests, a shop that is just fast enough.
SPECIFICATION ButtonSpec
CONSTANTS
  Pages = {p1, p2}
  Requests = {r1, r2, r3}
  Debounce = 3
  MaxLatency = 2
INVARIANTS
  OneAtATime
PROPERTIES
  ButtonComesBack
