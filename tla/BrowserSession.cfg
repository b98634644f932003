\* One tab, two accounts, one data request beside the client's own calls, all faults.
CONSTANTS
  a = a
  b = b
  t1 = t1
  t2 = t2
  t3 = t3
  t4 = t4
  d1 = d1
  d2 = d2
  Users = {a, b}
  Tokens = {t1, t2, t3}
  DataCalls = {d1}
  Pages = {"login", "portal"}
  None = None
  Spent = Spent
  Unheard = Unheard
  Ended = Ended
  Faults = {"lost", "revoke", "reload", "overlap"}
SYMMETRY Symmetry
SPECIFICATION Spec
INVARIANTS TypeOK SingleFlight PresentedOnce SignedOutStaysOut ShownUserIsCookieUser
CHECK_DEADLOCK FALSE
