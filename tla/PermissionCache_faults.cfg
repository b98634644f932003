\* Everything may fail and requests die between any two statements.  Liveness,
\* so no symmetry: one user, one permission.
CONSTANTS
  Users = {u1}
  Roles = {admin, custom}
  System = {admin}
  SuperAdmin = admin
  Perms = {p1}
  Requests = {r1, r2}
  None = None
  Miss = Miss
  Faults = {"get", "set", "roleUsers", "delete", "abort"}
SPECIFICATION FairSpec
INVARIANTS GrantedWasHeld
PROPERTIES StalenessEnds
