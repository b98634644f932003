--------------------------- MODULE AtomicBooking ---------------------------
(***************************************************************************)
(* What the money-moving transactions of the backend promise: a document   *)
(* (an expense request, a donation) is booked at most once, and booking it *)
(* posts it, in one step, once to every account of its route.              *)
(***************************************************************************)
EXTENDS Naturals

CONSTANTS
  Docs,       \* documents that can be booked
  Accounts,   \* running totals and journals a document is posted to
  Routes      \* the sets of accounts a booking may post to

VARIABLES
  booked,     \* documents booked so far
  postings    \* how often a document was posted to an account

Init ==
  /\ booked = {}
  /\ postings = [p \in Accounts \X Docs |-> 0]

Book(d, route) ==
  /\ d \notin booked
  /\ booked' = booked \cup {d}
  /\ postings' = [p \in Accounts \X Docs |->
                    IF p[1] \in route /\ p[2] = d THEN postings[p] + 1
                                                  ELSE postings[p]]

Next == \E d \in Docs, route \in Routes : Book(d, route)

Spec == Init /\ [][Next]_<<booked, postings>>
=============================================================================
