---------------------------- MODULE LoginSessions ----------------------------
(***************************************************************************)
(* What token rotation promises, whatever requests and statements lie      *)
(* between: a login opens a session of one token; an exchange hands the    *)
(* session on, in one step, from the one token that can be exchanged to a  *)
(* token never seen before; a session that is over never returns.          *)
(***************************************************************************)
CONSTANTS
  Tokens,  \* a session is named by its first token
  None

VARIABLES
  usable,  \* per session, the tokens that still lead to another one
  issued,  \* tokens handed out so far
  parent   \* the token each was exchanged for

Init ==
  /\ usable = [s \in Tokens |-> {}]
  /\ issued = {}
  /\ parent = [t \in Tokens |-> None]

Login(s) ==
  /\ s \notin issued
  /\ issued' = issued \cup {s}
  /\ usable' = [usable EXCEPT ![s] = {s}]
  /\ UNCHANGED parent

Exchange(s, old, new) ==
  /\ usable[s] = {old}
  /\ new \notin issued
  /\ issued' = issued \cup {new}
  /\ usable' = [usable EXCEPT ![s] = {new}]
  /\ parent' = [parent EXCEPT ![new] = old]

(* Revocations and expiry may end several sessions at once.                *)
End(over) ==
  /\ usable' = [s \in Tokens |-> IF s \in over THEN {} ELSE usable[s]]
  /\ UNCHANGED <<issued, parent>>

Next ==
  \/ \E s \in Tokens : Login(s)
  \/ \E s, old, new \in Tokens : Exchange(s, old, new)
  \/ \E over \in SUBSET Tokens : End(over)

Spec == Init /\ [][Next]_<<usable, issued, parent>>
=============================================================================
