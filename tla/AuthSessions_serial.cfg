\* One account whose client serialises its refreshes; three requests let a
\* refresh race both an administrator and another login of the same user, and
\* three token pairs let a session be rotated twice.
CONSTANTS
  Users = {u1}
  Tokens = {t1, t2, t3}
  Requests = {r1, r2, r3}
  None = None
  ConcurrentUse = FALSE
  Channels = {"cookie"}
  Faults = {"revokeAll"}
SYMMETRY Symmetry
SPECIFICATION Spec
INVARIANTS TypeOK ExchangedOnce
PROPERTIES ImplementsSessions
