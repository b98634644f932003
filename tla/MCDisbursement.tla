--------------------------- MODULE MCDisbursement ---------------------------
(* Model-checking instance of Disbursement: allocations a1 and a2 share    *)
(* budget b1, a3 is the only one of b2.                                    *)
EXTENDS Disbursement, TLC

CONSTANTS a1, a2, a3, b1, b2
TwoBudgets == a1 :> b1 @@ a2 :> b1 @@ a3 :> b2
OneBudget == a1 :> b1 @@ a2 :> b1
=============================================================================
