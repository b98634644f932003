--------------------------- MODULE MCAuthSessions ---------------------------
(* Model-checking instance of AuthSessions.                                *)
EXTENDS AuthSessions, TLC

Symmetry == Permutations(Users) \cup Permutations(Tokens)
              \cup Permutations(Requests)
=============================================================================
