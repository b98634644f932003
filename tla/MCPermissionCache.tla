------------------------- MODULE MCPermissionCache -------------------------
(* Model-checking instance of PermissionCache.                             *)
EXTENDS PermissionCache, TLC

Symmetry == Permutations(Users) \cup Permutations(Requests)
=============================================================================
