-------------------------- MODULE MCBrowserSession --------------------------
(* Instances of BrowserSession for TLC. *)
EXTENDS BrowserSession, TLC
CONSTANTS a, b, t1, t2, t3, t4, d1, d2
Symmetry == Permutations(Users) \cup Permutations(Tokens) \cup Permutations(DataCalls)
=============================================================================
