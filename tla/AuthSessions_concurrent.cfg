\* Two accounts, tokens presented concurrently, every explored statement may
\* fail: what survives is what no interleaving can break.
CONSTANTS
  Users = {u1, u2}
  Tokens = {t1, t2}
  Requests = {r1, r2}
  None = None
  ConcurrentUse = TRUE
  Channels = {"header", "cookie"}
  Faults = {"revoke", "revokeAll", "blacklist"}
SYMMETRY Symmetry
SPECIFICATION Spec
PROPERTIES EndIsFinal DeletedStaysOut SuspendedStaysOut
