\* A visitor of a public page with one account.
CONSTANTS
  a = a
  b = b
  t1 = t1
  t2 = t2
  t3 = t3
  t4 = t4
  d1 = d1
  d2 = d2
  Users = {a}
  Tokens = {t1, t2}
  DataCalls = {d1}
  Pages = {"public", "login", "portal"}
  None = None
  Spent = Spent
  Unheard = Unheard
  Ended = Ended
  Faults = {}
SPECIFICATION FairSpec
PROPERTIES PublicPagesStayOpen
CHECK_DEADLOCK FALSE
