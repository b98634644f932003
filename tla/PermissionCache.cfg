\* A super admin's role and a custom one, two users, two requests; no call
\* fails, fills and changes interleave freely.
CONSTANTS
  Users = {u1, u2}
  Roles = {admin, custom}
  System = {admin}
  SuperAdmin = admin
  Perms = {p1}
  Requests = {r1, r2}
  None = None
  Miss = Miss
  Faults = {}
SYMMETRY Symmetry
SPECIFICATION Spec
INVARIANTS TypeOK StaleOnlyByRace
