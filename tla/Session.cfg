\* Two customers, two sign-ins at a time, three keys; crashes any time.
SPECIFICATION Spec
CONSTANTS
  Users = {u1, u2}
  None = None
  Calls = {c1, c2}
  Profile = 2
  MaxPending = 7
INVARIANTS
  TokenHasProfile
  ProfileOfToken
