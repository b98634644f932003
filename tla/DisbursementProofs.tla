------------------------- MODULE DisbursementProofs -------------------------
(* Theorems about Disbursement, for every set of expenses, allocations,    *)
(* budgets and concurrent requests.                                        *)
EXTENDS Disbursement, TLAPS

(* The statements after the status check.                                  *)
Paying == InTx \ {"check"}

(* What an open transaction has added so far depends on its next statement *)
(* alone.                                                                  *)
Written(r) ==
  CASE pc[r] = "budget" -> {ralloc[r]}
    [] pc[r] = "entry"  -> {ralloc[r], BudgetOf[ralloc[r]]}
    [] pc[r] = "commit" -> RouteOf(ralloc[r])
    [] OTHER            -> {}

(* A request in its transaction holds the row of its expense; once past    *)
(* the status check that expense is not disbursed, past the update of the  *)
(* row its allocation exists; after the commit it is disbursed.            *)
Progress ==
  \A r \in Requests :
    /\ pc[r] \in InTx => rexp[r] \in Expenses /\ lock[rexp[r]] = r
    /\ pc[r] \in Paying => status[rexp[r]] # "disbursed"
    /\ pc[r] \in Paying \ {"update"} => ralloc[r] \in Allocations
    /\ pc[r] = "audit" => rexp[r] \in Disbursed
    /\ wrote[r] = Written(r)

(* A disbursed expense was paid from an allocation.                        *)
Paid == \A e \in Disbursed : paidFrom[e] \in Allocations

IInv == /\ TypeOK
        /\ Progress
        /\ Paid
        /\ BookedExactlyOnce
        /\ AuditOnlyOfDisbursed

-----------------------------------------------------------------------------
(* The steps of Next, once and for all.                                    *)
LEMMA NextCases ==
  ASSUME Next
  PROVE  \/ \E e \in Expenses : SubmitExpense(e)
         \/ \E r \in Requests, e \in Expenses, a \in Allocations \cup {None} :
              LockExpense(r, e, a)
         \/ \E r \in Requests : CheckStatus(r)
         \/ \E r \in Requests : UpdateExpense(r)
         \/ \E r \in Requests : ChargeAllocation(r)
         \/ \E r \in Requests : ChargeBudget(r)
         \/ \E r \in Requests : InsertEntry(r)
         \/ \E r \in Requests : Commit(r)
         \/ \E r \in Requests : Rollback(r)
         \/ \E r \in Requests : LogAction(r)
PROOF BY DEF Next, Step

(* A request that takes a step leaves the locals of the others alone, and  *)
(* takes no row from them.                                                 *)
Alone(r) ==
  \A q \in Requests \ {r} :
    /\ pc'[q] = pc[q] /\ rexp'[q] = rexp[q] /\ ralloc'[q] = ralloc[q]
    /\ wrote'[q] = wrote[q]
    /\ \A x \in Rows : lock[x] = q => lock'[x] = q

(* A step that commits nothing.                                            *)
NoCommit == UNCHANGED db

(* Request r is through, or has rolled back.                               *)
Gone(r) == pc'[r] = "idle" /\ wrote'[r] = {}

LEMMA InitInv == ASSUME Init PROVE IInv
<1>1. TypeOK
  BY DEF Init, TypeOK
<1>2. Disbursed = {}
  BY DEF Init, Disbursed
<1>3. Progress
  BY DEF Init, Progress, InTx, Paying, Written
<1>4. BookedExactlyOnce
  BY <1>2 DEF Init, BookedExactlyOnce
<1> QED
  BY <1>1, <1>2, <1>3, <1>4 DEF IInv, Paid, AuditOnlyOfDisbursed, Init

LEMMA RowFacts ==
  /\ Expenses \subseteq Rows
  /\ Allocations \subseteq Rows
  /\ \A a \in Allocations : BudgetOf[a] \in Budgets /\ BudgetOf[a] \in Rows
  /\ \A a \in Allocations : RouteOf(a) \subseteq Accounts
PROOF BY BudgetAssumption DEF Rows, Accounts, RouteOf

(* The four ways in which a request moves.                                 *)
LEMMA GotoTypes ==
  ASSUME TypeOK, NEW r \in Requests, NEW from, NEW to \in InTx \cup {"audit"},
         Goto(r, from, to)
  PROVE  /\ pc' \in [Requests -> InTx \cup {"idle", "audit"}]
         /\ rexp' \in [Requests -> Expenses \cup {None}]
         /\ ralloc' \in [Requests -> Allocations \cup {None}]
         /\ pc[r] = from /\ pc'[r] = to
         /\ rexp'[r] = rexp[r] /\ ralloc'[r] = ralloc[r]
         /\ \A q \in Requests \ {r} :
              pc'[q] = pc[q] /\ rexp'[q] = rexp[q] /\ ralloc'[q] = ralloc[q]
PROOF BY DEF TypeOK, Goto

LEMMA ReturnTypes ==
  ASSUME TypeOK, NEW r \in Requests, Return(r)
  PROVE  /\ pc' \in [Requests -> InTx \cup {"idle", "audit"}]
         /\ rexp' \in [Requests -> Expenses \cup {None}]
         /\ ralloc' \in [Requests -> Allocations \cup {None}]
         /\ wrote' \in [Requests -> SUBSET Accounts]
         /\ Gone(r)
         /\ \A q \in Requests \ {r} :
              /\ pc'[q] = pc[q] /\ rexp'[q] = rexp[q]
              /\ ralloc'[q] = ralloc[q] /\ wrote'[q] = wrote[q]
PROOF BY DEF TypeOK, Return, Gone

LEMMA AcquireTypes ==
  ASSUME TypeOK, NEW r \in Requests, NEW x \in Rows, Acquire(r, x)
  PROVE  /\ lock' \in [Rows -> Requests \cup {None}]
         /\ lock'[x] = r
         /\ \A q \in Requests, y \in Rows : lock[y] = q => lock'[y] = q
PROOF BY NoneAssumption DEF TypeOK, Acquire

LEMMA ReleaseTypes ==
  ASSUME TypeOK, NEW r \in Requests, ReleaseAll(r)
  PROVE  /\ lock' \in [Rows -> Requests \cup {None}]
         /\ \A q \in Requests \ {r}, y \in Rows : lock[y] = q => lock'[y] = q
PROOF BY NoneAssumption DEF TypeOK, ReleaseAll

LEMMA WroteTypes ==
  ASSUME TypeOK, NEW r \in Requests, NEW S \in SUBSET Accounts,
         wrote' = [wrote EXCEPT ![r] = S]
  PROVE  /\ wrote' \in [Requests -> SUBSET Accounts]
         /\ wrote'[r] = S
         /\ \A q \in Requests \ {r} : wrote'[q] = wrote[q]
PROOF BY DEF TypeOK

(* A step that commits nothing and appends no audit record preserves the   *)
(* invariant if it keeps the progress of its own request.                  *)
LEMMA QuietStep ==
  ASSUME IInv, NEW r \in Requests, Alone(r), NoCommit,
         audit' \subseteq audit \cup ({rexp[r]} \cap Disbursed), TypeOK',
         /\ pc'[r] \in InTx => rexp'[r] \in Expenses /\ lock'[rexp'[r]] = r
         /\ pc'[r] \in Paying => status[rexp'[r]] # "disbursed"
         /\ pc'[r] \in Paying \ {"update"} => ralloc'[r] \in Allocations
         /\ pc'[r] = "audit" => rexp'[r] \in Disbursed
         /\ wrote'[r] = Written(r)'
  PROVE  IInv'
<1>1. Disbursed' = Disbursed
  BY DEF NoCommit, db, Disbursed
<1>2. BookedExactlyOnce' /\ Paid' /\ AuditOnlyOfDisbursed'
  BY <1>1 DEF IInv, NoCommit, db, BookedExactlyOnce, Paid,
              AuditOnlyOfDisbursed
<1>3. ASSUME NEW q \in Requests \ {r}
      PROVE  /\ pc'[q] \in InTx => rexp'[q] \in Expenses /\ lock'[rexp'[q]] = q
             /\ pc'[q] \in Paying => status'[rexp'[q]] # "disbursed"
             /\ pc'[q] \in Paying \ {"update"} => ralloc'[q] \in Allocations
             /\ pc'[q] = "audit" => rexp'[q] \in Disbursed'
             /\ wrote'[q] = Written(q)'
  <2>1. Written(q)' = Written(q)
    BY <1>3 DEF Written, Alone, RouteOf
  <2> QED
    BY <1>1, <1>3, <2>1, RowFacts DEF IInv, Progress, Alone, NoCommit, db
<1>4. Progress'
  BY <1>1, <1>3 DEF Progress, NoCommit, db
<1> QED
  BY <1>2, <1>4 DEF IInv

LEMMA SubmitStep ==
  ASSUME IInv, NEW e \in Expenses, SubmitExpense(e) PROVE IInv'
<1>1. TypeOK'
  BY DEF IInv, TypeOK, SubmitExpense, ExpenseStatus, local
<1>2. Disbursed' = Disbursed
  BY DEF IInv, TypeOK, SubmitExpense, Disbursed
<1>3. BookedExactlyOnce' /\ Paid' /\ AuditOnlyOfDisbursed'
  BY <1>2 DEF IInv, SubmitExpense, BookedExactlyOnce, Paid,
              AuditOnlyOfDisbursed
<1>4. \A x \in Expenses : status'[x] = "disbursed" => status[x] = "disbursed"
  BY DEF IInv, TypeOK, SubmitExpense
<1>5. \A r \in Requests : Written(r)' = Written(r)
  BY DEF SubmitExpense, Written, local, RouteOf
<1>6. Progress'
  BY <1>2, <1>4, <1>5 DEF IInv, Progress, SubmitExpense, local, Paying
<1> QED
  BY <1>1, <1>3, <1>6 DEF IInv

LEMMA LockStep ==
  ASSUME IInv, NEW r \in Requests, NEW e \in Expenses,
         NEW a \in Allocations \cup {None}, LockExpense(r, e, a)
  PROVE  IInv'
<1> USE DEF IInv
<1>1. /\ lock' \in [Rows -> Requests \cup {None}]
      /\ lock'[e] = r
      /\ \A q \in Requests, y \in Rows : lock[y] = q => lock'[y] = q
  BY RowFacts, AcquireTypes DEF LockExpense
<1>2. /\ pc' \in [Requests -> InTx \cup {"idle", "audit"}]
      /\ rexp' \in [Requests -> Expenses \cup {None}]
      /\ ralloc' \in [Requests -> Allocations \cup {None}]
      /\ pc'[r] = "check" /\ rexp'[r] = e
      /\ \A q \in Requests \ {r} :
           pc'[q] = pc[q] /\ rexp'[q] = rexp[q] /\ ralloc'[q] = ralloc[q]
  BY DEF LockExpense, TypeOK, InTx
<1>3. TypeOK'
  BY <1>1, <1>2 DEF LockExpense, TypeOK, db
<1>4. Alone(r) /\ NoCommit
  BY <1>1, <1>2 DEF Alone, NoCommit, LockExpense
<1>5. wrote'[r] = {} /\ Written(r)' = {}
  BY <1>2 DEF LockExpense, Progress, Written
<1> QED
  BY <1>1, <1>2, <1>3, <1>4, <1>5, QuietStep DEF LockExpense, Paying

(* Leaving: the transaction is given up, nothing of it remains.            *)
LEMMA GiveUpStep ==
  ASSUME IInv, NEW r \in Requests, ReleaseAll(r), Return(r),
         UNCHANGED <<db, audit>>
  PROVE  IInv'
<1> USE DEF IInv
<1>1. TypeOK'
  BY ReleaseTypes, ReturnTypes DEF TypeOK, db
<1>2. Alone(r) /\ NoCommit
  BY ReleaseTypes, ReturnTypes DEF Alone, NoCommit
<1>3. pc'[r] = "idle" /\ wrote'[r] = {}
  BY ReturnTypes DEF Gone
<1>4. Written(r)' = {}
  BY <1>3 DEF Written
<1> QED
  BY <1>1, <1>2, <1>3, <1>4, QuietStep DEF Paying, InTx

LEMMA CheckStep ==
  ASSUME IInv, NEW r \in Requests, CheckStatus(r) PROVE IInv'
<1> USE DEF IInv
<1>1. CASE ReleaseAll(r) /\ Return(r)
  BY <1>1, GiveUpStep DEF CheckStatus
<1>2. CASE /\ status[rexp[r]] # "disbursed"
           /\ Goto(r, "check", "update")
           /\ UNCHANGED <<lock, wrote>>
  <2>0. "update" \in InTx
    BY DEF InTx
  <2>1. /\ TypeOK' /\ Alone(r) /\ NoCommit
        /\ pc'[r] = "update" /\ rexp'[r] = rexp[r]
        /\ rexp[r] \in Expenses /\ lock'[rexp[r]] = r /\ wrote'[r] = {}
    BY <1>2, <2>0, GotoTypes
    DEF CheckStatus, TypeOK, Alone, NoCommit, db, Progress, InTx, Written
  <2>2. Written(r)' = {}
    BY <2>1 DEF Written
  <2> QED
    BY <1>2, <2>1, <2>2, QuietStep DEF CheckStatus, Paying
<1> QED
  BY <1>1, <1>2 DEF CheckStatus

LEMMA UpdateStep ==
  ASSUME IInv, NEW r \in Requests, UpdateExpense(r) PROVE IInv'
<1> USE DEF IInv
<1>1. CASE ReleaseAll(r) /\ Return(r)
  BY <1>1, GiveUpStep DEF UpdateExpense
<1>2. CASE /\ ralloc[r] # None
           /\ Goto(r, "update", "allocation")
           /\ Acquire(r, rexp[r])
           /\ UNCHANGED wrote
  <2>0. /\ "allocation" \in InTx /\ pc[r] = "update"
        /\ ralloc[r] \in Allocations /\ rexp[r] \in Expenses
        /\ status[rexp[r]] # "disbursed" /\ wrote[r] = {}
    BY <1>2 DEF UpdateExpense, InTx, Paying, Progress, TypeOK, Written
  <2>1. /\ lock' \in [Rows -> Requests \cup {None}]
        /\ lock'[rexp[r]] = r
        /\ \A q \in Requests, y \in Rows : lock[y] = q => lock'[y] = q
    BY <1>2, <2>0, RowFacts, AcquireTypes
  <2>2. /\ TypeOK' /\ Alone(r) /\ NoCommit
        /\ pc'[r] = "allocation" /\ rexp'[r] = rexp[r]
        /\ ralloc'[r] = ralloc[r]
    BY <1>2, <2>0, <2>1, GotoTypes
    DEF UpdateExpense, TypeOK, Alone, NoCommit, db
  <2>3. Written(r)' = {}
    BY <2>2 DEF Written
  <2> QED
    BY <1>2, <2>0, <2>1, <2>2, <2>3, QuietStep DEF UpdateExpense, Paying
<1> QED
  BY <1>1, <1>2 DEF UpdateExpense

(* The three postings of a transaction have one shape.                     *)
LEMMA ChargeStep ==
  ASSUME IInv, NEW r \in Requests, NEW S \in SUBSET Accounts,
         NEW to \in InTx \ {"check", "update", "allocation"},
         pc[r] \in Paying \ {"update"},
         Goto(r, pc[r], to),
         \/ \E x \in Rows : Acquire(r, x)
         \/ lock' = lock,
         wrote' = [wrote EXCEPT ![r] = S], UNCHANGED <<db, audit>>,
         S = Written(r)'
  PROVE  IInv'
<1> USE DEF IInv
<1>0. /\ ralloc[r] \in Allocations /\ rexp[r] \in Expenses
      /\ lock[rexp[r]] = r /\ status[rexp[r]] # "disbursed"
  BY DEF Progress, Paying
<1>1. /\ lock' \in [Rows -> Requests \cup {None}]
      /\ \A q \in Requests, y \in Rows : lock[y] = q => lock'[y] = q
  BY AcquireTypes DEF TypeOK
<1>2. /\ pc' \in [Requests -> InTx \cup {"idle", "audit"}]
      /\ rexp' \in [Requests -> Expenses \cup {None}]
      /\ ralloc' \in [Requests -> Allocations \cup {None}]
      /\ pc'[r] = to /\ rexp'[r] = rexp[r] /\ ralloc'[r] = ralloc[r]
      /\ \A q \in Requests \ {r} :
           pc'[q] = pc[q] /\ rexp'[q] = rexp[q] /\ ralloc'[q] = ralloc[q]
  <2>1. to \in InTx \cup {"audit"}
    OBVIOUS
  <2> QED
    BY <2>1, GotoTypes
<1>3. /\ wrote' \in [Requests -> SUBSET Accounts] /\ wrote'[r] = S
      /\ \A q \in Requests \ {r} : wrote'[q] = wrote[q]
  BY WroteTypes
<1>4. TypeOK' /\ Alone(r) /\ NoCommit
  BY <1>1, <1>2, <1>3 DEF TypeOK, Alone, NoCommit, db
<1>5. lock'[rexp'[r]] = r /\ rexp'[r] \in Expenses /\ to # "audit"
  BY <1>0, <1>1, <1>2, RowFacts DEF InTx
<1> QED
  BY <1>0, <1>2, <1>3, <1>4, <1>5, QuietStep DEF Paying

LEMMA ChargeSteps ==
  ASSUME IInv, NEW r \in Requests,
         ChargeAllocation(r) \/ ChargeBudget(r) \/ InsertEntry(r)
  PROVE  IInv'
<1>1. CASE ChargeAllocation(r)
  <2>1. /\ pc[r] = "allocation" /\ pc'[r] = "budget" /\ wrote[r] = {}
        /\ ralloc[r] \in Allocations /\ ralloc'[r] = ralloc[r]
    BY <1>1 DEF IInv, ChargeAllocation, Goto, TypeOK, Progress, Paying, InTx, Written
  <2>2. Written(r)' = {ralloc[r]}
    BY <2>1 DEF Written
  <2>3. wrote' = [wrote EXCEPT ![r] = {ralloc[r]}]
    BY <1>1, <2>1 DEF IInv, ChargeAllocation, TypeOK
  <2>4. {ralloc[r]} \in SUBSET Accounts
    BY <2>1, RowFacts DEF Accounts
  <2>5. /\ pc[r] \in Paying \ {"update"}
        /\ "budget" \in InTx \ {"check", "update", "allocation"}
    BY <2>1 DEF Paying, InTx
  <2>6. /\ Goto(r, pc[r], "budget")
        /\ \E x \in Rows : Acquire(r, x)
        /\ UNCHANGED <<db, audit>>
    BY <1>1, <2>1, RowFacts DEF ChargeAllocation
  <2> QED
    BY <2>1, <2>2, <2>3, <2>4, <2>5, <2>6, ChargeStep
<1>2. CASE ChargeBudget(r)
  <2>1. /\ pc[r] = "budget" /\ pc'[r] = "entry" /\ wrote[r] = {ralloc[r]}
        /\ ralloc[r] \in Allocations /\ ralloc'[r] = ralloc[r]
    BY <1>2 
    DEF IInv, ChargeBudget, Goto, TypeOK, Progress, Paying, InTx, Written
  <2>2. Written(r)' = {ralloc[r], BudgetOf[ralloc[r]]}
    BY <2>1 DEF Written
  <2>3. wrote' = [wrote EXCEPT ![r] = {ralloc[r], BudgetOf[ralloc[r]]}]
    BY <1>2, <2>1 DEF IInv, ChargeBudget, TypeOK
  <2>4. {ralloc[r], BudgetOf[ralloc[r]]} \in SUBSET Accounts
    BY <2>1, RowFacts DEF Accounts
  <2>5. /\ pc[r] \in Paying \ {"update"}
        /\ "entry" \in InTx \ {"check", "update", "allocation"}
    BY <2>1 DEF Paying, InTx
  <2>6. /\ Goto(r, pc[r], "entry")
        /\ \E x \in Rows : Acquire(r, x)
        /\ UNCHANGED <<db, audit>>
    BY <1>2, <2>1, RowFacts DEF ChargeBudget
  <2> QED
    BY <2>1, <2>2, <2>3, <2>4, <2>5, <2>6, ChargeStep
<1>3. CASE InsertEntry(r)
  <2>1. /\ pc[r] = "entry" /\ pc'[r] = "commit"
        /\ wrote[r] = {ralloc[r], BudgetOf[ralloc[r]]}
        /\ ralloc[r] \in Allocations /\ ralloc'[r] = ralloc[r]
    BY <1>3 DEF IInv, InsertEntry, Goto, TypeOK, Progress, Paying, InTx, Written
  <2>2. Written(r)' = RouteOf(ralloc[r])
    BY <2>1 DEF Written, RouteOf
  <2>3. wrote' = [wrote EXCEPT ![r] = RouteOf(ralloc[r])]
    BY <1>3, <2>1 DEF IInv, InsertEntry, TypeOK, RouteOf
  <2>4. RouteOf(ralloc[r]) \in SUBSET Accounts
    BY <2>1, RowFacts
  <2>5. /\ pc[r] \in Paying \ {"update"}
        /\ "commit" \in InTx \ {"check", "update", "allocation"}
    BY <2>1 DEF Paying, InTx
  <2>6. /\ Goto(r, pc[r], "commit")
        /\ lock' = lock
        /\ UNCHANGED <<db, audit>>
    BY <1>3, <2>1, RowFacts DEF InsertEntry
  <2> QED
    BY <2>1, <2>2, <2>3, <2>4, <2>5, <2>6, ChargeStep
<1> QED
  BY <1>1, <1>2, <1>3

(* What a commit does to the database.                                     *)
LEMMA CommitFacts ==
  ASSUME IInv, NEW r \in Requests, Commit(r)
  PROVE  /\ rexp[r] \in Expenses \ Disbursed
         /\ ralloc[r] \in Allocations
         /\ wrote[r] = RouteOf(ralloc[r])
         /\ status' \in [Expenses -> ExpenseStatus \cup {"absent"}]
         /\ status'[rexp[r]] = "disbursed"
         /\ \A e \in Expenses \ {rexp[r]} : status'[e] = status[e]
         /\ Disbursed' = Disbursed \cup {rexp[r]}
         /\ paidFrom' \in [Expenses -> Allocations \cup {None}]
         /\ paidFrom'[rexp[r]] = ralloc[r]
         /\ \A e \in Expenses \ {rexp[r]} : paidFrom'[e] = paidFrom[e]
<1>1. /\ rexp[r] \in Expenses \ Disbursed /\ ralloc[r] \in Allocations
      /\ wrote[r] = RouteOf(ralloc[r])
  BY DEF IInv, Commit, Progress, Paying, InTx, Disbursed, Written
<1>2. /\ status' \in [Expenses -> ExpenseStatus \cup {"absent"}]
      /\ status'[rexp[r]] = "disbursed"
      /\ \A e \in Expenses \ {rexp[r]} : status'[e] = status[e]
  BY <1>1 DEF IInv, TypeOK, Commit, ExpenseStatus
<1>3. /\ paidFrom' \in [Expenses -> Allocations \cup {None}]
      /\ paidFrom'[rexp[r]] = ralloc[r]
      /\ \A e \in Expenses \ {rexp[r]} : paidFrom'[e] = paidFrom[e]
  BY <1>1 DEF IInv, TypeOK, Commit
<1>4. Disbursed' = Disbursed \cup {rexp[r]}
  BY <1>1, <1>2 DEF Disbursed
<1> QED
  BY <1>1, <1>2, <1>3, <1>4

LEMMA CommitStep ==
  ASSUME IInv, NEW r \in Requests, Commit(r) PROVE IInv'
<1>1. /\ pc[r] = "commit" /\ lock[rexp[r]] = r
  BY DEF IInv, Commit, Progress, InTx
<1>2. /\ lock' \in [Rows -> Requests \cup {None}]
      /\ \A q \in Requests \ {r}, y \in Rows : lock[y] = q => lock'[y] = q
  BY ReleaseTypes DEF IInv, Commit
<1>3. /\ pc' \in [Requests -> InTx \cup {"idle", "audit"}]
      /\ rexp' \in [Requests -> Expenses \cup {None}]
      /\ ralloc' \in [Requests -> Allocations \cup {None}]
      /\ wrote' \in [Requests -> SUBSET Accounts]
      /\ pc'[r] \in {"idle", "audit"} /\ wrote'[r] = {}
      /\ pc'[r] = "audit" => rexp'[r] = rexp[r]
      /\ \A q \in Requests \ {r} :
           /\ pc'[q] = pc[q] /\ rexp'[q] = rexp[q]
           /\ ralloc'[q] = ralloc[q] /\ wrote'[q] = wrote[q]
  <2>1. CASE Return(r)
    BY <2>1, ReturnTypes DEF IInv, Gone
  <2>2. CASE Goto(r, "commit", "audit") /\ wrote' = [wrote EXCEPT ![r] = {}]
    <3>1. /\ wrote' \in [Requests -> SUBSET Accounts] /\ wrote'[r] = {}
          /\ \A q \in Requests \ {r} : wrote'[q] = wrote[q]
      BY <2>2 DEF IInv, TypeOK
    <3>2. /\ pc' \in [Requests -> InTx \cup {"idle", "audit"}]
          /\ rexp' \in [Requests -> Expenses \cup {None}]
          /\ ralloc' \in [Requests -> Allocations \cup {None}]
          /\ pc'[r] = "audit" /\ rexp'[r] = rexp[r]
          /\ \A q \in Requests \ {r} :
               /\ pc'[q] = pc[q] /\ rexp'[q] = rexp[q]
               /\ ralloc'[q] = ralloc[q]
      BY <2>2 DEF IInv, TypeOK, Goto
    <3> QED
      BY <3>1, <3>2
  <2> QED
    BY <2>1, <2>2 DEF Commit
<1>4. postings' \in [Accounts \X Expenses -> Nat]
  BY DEF IInv, TypeOK, Commit
<1>5. TypeOK'
  BY <1>2, <1>3, <1>4, CommitFacts DEF IInv, TypeOK, Commit
<1>6. BookedExactlyOnce'
  <2> SUFFICES ASSUME NEW e \in Expenses, NEW x \in Accounts
               PROVE  postings'[<<x, e>>] =
                        IF e \in Disbursed' /\ x \in RouteOf(paidFrom'[e])
                          THEN 1 ELSE 0
    BY DEF BookedExactlyOnce, RouteOf
  <2>1. postings'[<<x, e>>] = IF x \in wrote[r] /\ e = rexp[r]
                                THEN postings[<<x, e>>] + 1
                                ELSE postings[<<x, e>>]
    BY DEF Commit
  <2>2. postings[<<x, e>>] =
          IF e \in Disbursed /\ x \in RouteOf(paidFrom[e]) THEN 1 ELSE 0
    BY DEF IInv, BookedExactlyOnce
  <2>3. CASE e = rexp[r]
    BY <2>1, <2>2, <2>3, CommitFacts
  <2>4. CASE e # rexp[r]
    BY <2>1, <2>2, <2>4, CommitFacts
  <2> QED
    BY <2>3, <2>4
<1>7. Paid' /\ AuditOnlyOfDisbursed'
  BY CommitFacts DEF IInv, Paid, AuditOnlyOfDisbursed, Commit, Disbursed
<1>8. Progress'
  <2> SUFFICES ASSUME NEW q \in Requests
      PROVE  /\ pc'[q] \in InTx => rexp'[q] \in Expenses /\ lock'[rexp'[q]] = q
             /\ pc'[q] \in Paying => status'[rexp'[q]] # "disbursed"
             /\ pc'[q] \in Paying \ {"update"} => ralloc'[q] \in Allocations
             /\ pc'[q] = "audit" => rexp'[q] \in Disbursed'
             /\ wrote'[q] = Written(q)'
    BY DEF Progress
  <2>1. CASE q = r
    <3>1. Written(q)' = {}
      BY <1>3, <2>1 DEF Written
    <3> QED
      BY <1>3, <2>1, <3>1, CommitFacts DEF InTx, Paying
  <2>2. CASE q # r
    <3>1. Written(q)' = Written(q)
      BY <1>3, <2>2 DEF Written, RouteOf
    <3>2. pc[q] \in InTx => rexp[q] # rexp[r]
      BY <1>1, <2>2 DEF IInv, Progress
    <3> QED
      BY <1>2, <1>3, <2>2, <3>1, <3>2, CommitFacts, RowFacts
      DEF IInv, Progress, Paying
  <2> QED
    BY <2>1, <2>2
<1> QED
  BY <1>5, <1>6, <1>7, <1>8 DEF IInv

LEMMA LogStep ==
  ASSUME IInv, NEW r \in Requests, LogAction(r) PROVE IInv'
<1> USE DEF IInv
<1>1. pc[r] = "audit" /\ rexp[r] \in Disbursed
  BY DEF LogAction, Progress
<1>2. TypeOK'
  BY <1>1, ReturnTypes DEF LogAction, TypeOK, db, Disbursed
<1>3. /\ Alone(r) /\ NoCommit /\ pc'[r] = "idle" /\ wrote'[r] = {}
      /\ audit' \subseteq audit \cup ({rexp[r]} \cap Disbursed)
  BY <1>1, ReturnTypes DEF LogAction, Alone, NoCommit, Gone
<1>4. Written(r)' = {}
  BY <1>3 DEF Written
<1> QED
  BY <1>2, <1>3, <1>4, QuietStep DEF Paying, InTx

LEMMA StutterStep == ASSUME IInv, UNCHANGED vars PROVE IInv'
<1>1. \A r \in Requests : Written(r)' = Written(r)
  BY DEF vars, local, Written, RouteOf
<1>2. Disbursed' = Disbursed
  BY DEF vars, db, Disbursed
<1> QED
  BY <1>1, <1>2 DEF IInv, TypeOK, Progress, Paid, BookedExactlyOnce,
                    AuditOnlyOfDisbursed, vars, db, local

LEMMA InvStep == ASSUME IInv, [Next]_vars PROVE IInv'
<1>1. CASE Next
  BY <1>1, NextCases, SubmitStep, LockStep, CheckStep, UpdateStep,
     ChargeSteps, CommitStep, GiveUpStep, LogStep DEF Rollback
<1> QED
  BY <1>1, StutterStep

-----------------------------------------------------------------------------
(* The strengthened invariant holds in every reachable state.              *)
THEOREM Invariance == Spec => []IInv
PROOF BY InitInv, InvStep, PTL DEF Spec

(* Every reachable state is well typed: LockExpense to LogAction keep the  *)
(* columns, locks and locals of DisburseExpense within their ranges.       *)
THEOREM TypeCorrectness == Spec => []TypeOK
<1>1. IInv => TypeOK
  BY DEF IInv
<1> QED
  BY <1>1, Invariance, PTL

(* However many requests disburse, repeat and abort, a disbursed expense   *)
(* is booked once to its allocation, budget and the journal, and no other  *)
(* expense is booked anywhere.                                             *)
THEOREM ExactlyOnce == Spec => []BookedExactlyOnce
<1>1. IInv => BookedExactlyOnce
  BY DEF IInv
<1> QED
  BY <1>1, Invariance, PTL

(* The audit log never claims a disbursement that did not commit.          *)
THEOREM AuditSound == Spec => []AuditOnlyOfDisbursed
<1>1. IInv => AuditOnlyOfDisbursed
  BY DEF IInv
<1> QED
  BY <1>1, Invariance, PTL

(* The only step that changes the database, apart from the insert of an    *)
(* expense, is a commit.                                                   *)
LEMMA WriteCases ==
  ASSUME [Next]_vars
  PROVE  \/ \E e \in Expenses : SubmitExpense(e)
         \/ \E r \in Requests : Commit(r)
         \/ UNCHANGED db
<1>1. CASE Next
  BY <1>1, NextCases DEF LockExpense, CheckStatus, UpdateExpense,
     ChargeAllocation, ChargeBudget, InsertEntry, Rollback, LogAction, db
<1> QED
  BY <1>1 DEF vars

(* A disbursement is never undone or re-routed: DisburseExpense refuses a  *)
(* disbursed expense while it holds its row.                               *)
THEOREM DisbursedForGood == Spec => DisbursementIsFinal
<1> DEFINE Kept == \A e \in Disbursed :
                     status'[e] = "disbursed" /\ paidFrom'[e] = paidFrom[e]
<1>1. ASSUME IInv, [Next]_vars PROVE Kept
  <2>1. CASE \E e \in Expenses : SubmitExpense(e)
    BY <1>1, <2>1 DEF IInv, TypeOK, SubmitExpense, Disbursed
  <2>2. CASE \E r \in Requests : Commit(r)
    BY <1>1, <2>2, CommitFacts DEF Disbursed
  <2>3. CASE UNCHANGED db
    BY <2>3 DEF db, Disbursed
  <2> QED
    BY <1>1, <2>1, <2>2, <2>3, WriteCases
<1> QED
  BY <1>1, Invariance, PTL DEF Spec, DisbursementIsFinal

(* DisburseExpense implements the atomic booking: its seven statements     *)
(* with their locks look like one step that books the expense, to callers  *)
(* who see committed rows.                                                 *)
THEOREM Refinement == Spec => ImplementsBooking
<1>1. ASSUME Init PROVE Booking!Init
  BY <1>1 DEF Init, Booking!Init, Disbursed
<1>2. ASSUME IInv, [Next]_vars
      PROVE  [Booking!Next]_<<Disbursed, postings>>
  <2>1. CASE \E e \in Expenses : SubmitExpense(e)
    BY <1>2, <2>1 DEF IInv, TypeOK, SubmitExpense, Disbursed
  <2>2. ASSUME NEW r \in Requests, Commit(r) PROVE Booking!Next
    <3>1. /\ rexp[r] \in Expenses \ Disbursed /\ ralloc[r] \in Allocations
          /\ wrote[r] = RouteOf(ralloc[r])
          /\ Disbursed' = Disbursed \cup {rexp[r]}
      BY <1>2, <2>2, CommitFacts
    <3>2. postings' = [p \in Accounts \X Expenses |->
                         IF p[1] \in RouteOf(ralloc[r]) /\ p[2] = rexp[r]
                           THEN postings[p] + 1 ELSE postings[p]]
      BY <2>2, <3>1 DEF Commit
    <3>3. Booking!Book(rexp[r], RouteOf(ralloc[r]))
      BY <3>1, <3>2, Zenon DEF Booking!Book
    <3> QED
      BY <3>1, <3>3 DEF Booking!Next
  <2>3. CASE UNCHANGED db
    BY <2>3 DEF db, Disbursed
  <2> QED
    BY <1>2, <2>1, <2>2, <2>3, WriteCases
<1> QED
  BY <1>1, <1>2, Invariance, PTL DEF Spec, ImplementsBooking, Booking!Spec
-----------------------------------------------------------------------------
(* The rows an open transaction can hold, by its next statement: expense,  *)
(* allocation and budget are locked in this order.                         *)
Holds(r, x) ==
  /\ pc[r] \in InTx
  /\ \/ x = rexp[r]
     \/ pc[r] \in {"budget", "entry", "commit"} /\ x = ralloc[r]
     \/ pc[r] \in {"entry", "commit"} /\ x = BudgetOf[ralloc[r]]

Owners == \A q \in Requests, x \in Rows : lock[x] = q => Holds(q, x)

(* A step of r keeps Owners if it gives no row to anybody else.            *)
LEMMA OwnersKept ==
  ASSUME Owners, NEW r \in Requests,
         \A q \in Requests \ {r} :
           pc'[q] = pc[q] /\ rexp'[q] = rexp[q] /\ ralloc'[q] = ralloc[q],
         \A q \in Requests \ {r}, x \in Rows : lock'[x] = q => lock[x] = q,
         \A x \in Rows : lock'[x] = r => Holds(r, x)'
  PROVE  Owners'
PROOF BY DEF Owners, Holds

(* Leaving gives every row back.                                           *)
LEMMA OwnersReleased ==
  ASSUME IInv, Owners, NEW r \in Requests, ReleaseAll(r),
         \A q \in Requests \ {r} :
           pc'[q] = pc[q] /\ rexp'[q] = rexp[q] /\ ralloc'[q] = ralloc[q]
  PROVE  Owners'
<1>1. \A x \in Rows : lock'[x] # r
  BY NoneAssumption DEF ReleaseAll
<1>2. \A q \in Requests \ {r}, x \in Rows : lock'[x] = q => lock[x] = q
  BY NoneAssumption DEF ReleaseAll
<1> QED
  BY <1>1, <1>2, OwnersKept

(* Taking the next row of the order.                                       *)
LEMMA OwnersAcquired ==
  ASSUME IInv, Owners, NEW r \in Requests, NEW from, NEW to \in InTx,
         Goto(r, from, to), NEW y \in Rows, Acquire(r, y) \/ lock' = lock,
         Acquire(r, y) => Holds(r, y)',
         \A x \in Rows : Holds(r, x) => Holds(r, x)'
  PROVE  Owners'
<1>1. \A q \in Requests \ {r} :
        pc'[q] = pc[q] /\ rexp'[q] = rexp[q] /\ ralloc'[q] = ralloc[q]
  BY DEF Goto, IInv, TypeOK
<1>2. ASSUME NEW q \in Requests, NEW x \in Rows, lock'[x] = q
      PROVE  lock[x] = q \/ (q = r /\ x = y /\ Acquire(r, y))
  BY <1>2 DEF Acquire, IInv, TypeOK
<1>3. \A x \in Rows : lock'[x] = r => Holds(r, x)'
  BY <1>2 DEF Owners
<1> QED
  BY <1>1, <1>2, <1>3, OwnersKept

LEMMA OwnersLocked ==
  ASSUME IInv, Owners, NEW r \in Requests, NEW e \in Expenses,
         NEW a \in Allocations \cup {None}, LockExpense(r, e, a)
  PROVE  Owners'
<1>1. /\ pc'[r] = "check" /\ rexp'[r] = e
      /\ \A q \in Requests \ {r} :
           pc'[q] = pc[q] /\ rexp'[q] = rexp[q] /\ ralloc'[q] = ralloc[q]
  BY DEF LockExpense, IInv, TypeOK
<1>2. \A q \in Requests, x \in Rows :
        lock'[x] = q => lock[x] = q \/ (q = r /\ x = e)
  BY DEF LockExpense, Acquire, IInv, TypeOK
<1>3. \A x \in Rows : lock[x] # r
  BY DEF LockExpense, Owners, Holds, InTx
<1>4. \A x \in Rows : lock'[x] = r => Holds(r, x)'
  BY <1>1, <1>2, <1>3 DEF Holds, InTx
<1> QED
  BY <1>1, <1>2, <1>4, OwnersKept

LEMMA OwnersStep ==
  ASSUME IInv, Owners, [Next]_vars
  PROVE  Owners'
<1>1. CASE \E e \in Expenses : SubmitExpense(e)
  BY <1>1 DEF SubmitExpense, Owners, Holds, local
<1>2. CASE \E r \in Requests, e \in Expenses, a \in Allocations \cup {None} :
             LockExpense(r, e, a)
  BY <1>2, OwnersLocked
<1>3. ASSUME NEW r \in Requests, ReleaseAll(r), Return(r)
      PROVE  Owners'
  BY <1>3, ReturnTypes, OwnersReleased DEF IInv
<1>4. ASSUME NEW r \in Requests, CheckStatus(r)
      PROVE  Owners'
  <2>1. CASE Goto(r, "check", "update") /\ lock' = lock
    <3>1. \A x \in Rows : Holds(r, x) => Holds(r, x)'
      BY <2>1, GotoTypes DEF Holds, IInv, InTx
    <3> QED
      BY <2>1, <3>1, OwnersKept, GotoTypes DEF IInv, InTx, Owners
  <2> QED
    BY <1>3, <1>4, <2>1 DEF CheckStatus
<1>5. ASSUME NEW r \in Requests, UpdateExpense(r)
      PROVE  Owners'
  <2>1. CASE Goto(r, "update", "allocation") /\ Acquire(r, rexp[r])
    <3>1. /\ "allocation" \in InTx /\ rexp[r] \in Rows
          /\ pc[r] = "update" /\ pc'[r] = "allocation"
          /\ rexp'[r] = rexp[r] /\ ralloc'[r] = ralloc[r]
      BY <2>1, RowFacts, GotoTypes DEF IInv, Progress, InTx, Goto
    <3>2. Holds(r, rexp[r])'
      BY <3>1 DEF Holds
    <3>3. Acquire(r, rexp[r]) => (pc'[r] \in InTx /\ rexp[r] = rexp'[r])
      BY <3>1
    <3>4. \A x \in Rows : Holds(r, x) => Holds(r, x)'
      BY <3>1 DEF Holds
    <3>5. PICK y \in Rows : y = rexp[r]
      BY <3>1
    <3>6. Acquire(r, y) /\ Holds(r, y)'
      BY <2>1, <3>1, <3>5 DEF Holds
    <3> QED
      BY <2>1, <3>1, <3>4, <3>6, OwnersAcquired
  <2> QED
    BY <1>3, <1>5, <2>1 DEF UpdateExpense
<1>6. ASSUME NEW r \in Requests, ChargeAllocation(r)
      PROVE  Owners'
  <2>1. /\ "budget" \in InTx /\ Goto(r, "allocation", "budget")
        /\ pc[r] = "allocation" /\ pc'[r] = "budget"
        /\ rexp'[r] = rexp[r] /\ ralloc'[r] = ralloc[r]
        /\ ralloc[r] \in Rows
    BY <1>6, RowFacts, GotoTypes
    DEF ChargeAllocation, IInv, Progress, InTx, Paying
  <2>2. \A x \in Rows : Holds(r, x) => Holds(r, x)'
    BY <2>1 DEF Holds
  <2>3. PICK y \in Rows : y = ralloc[r]
    BY <2>1
  <2>4. Acquire(r, y) /\ Holds(r, y)'
    BY <1>6, <2>1, <2>3 DEF Holds, ChargeAllocation
  <2> QED
    BY <2>1, <2>2, <2>4, OwnersAcquired
<1>7. ASSUME NEW r \in Requests, ChargeBudget(r)
      PROVE  Owners'
  <2>1. /\ "entry" \in InTx /\ Goto(r, "budget", "entry")
        /\ pc[r] = "budget" /\ pc'[r] = "entry"
        /\ rexp'[r] = rexp[r] /\ ralloc'[r] = ralloc[r]
        /\ BudgetOf[ralloc[r]] \in Rows
    BY <1>7, RowFacts, GotoTypes
    DEF ChargeBudget, IInv, Progress, InTx, Paying
  <2>2. \A x \in Rows : Holds(r, x) => Holds(r, x)'
    BY <2>1 DEF Holds
  <2>3. PICK y \in Rows : y = BudgetOf[ralloc[r]]
    BY <2>1
  <2>4. Acquire(r, y) /\ Holds(r, y)'
    BY <1>7, <2>1, <2>3 DEF Holds, ChargeBudget
  <2> QED
    BY <2>1, <2>2, <2>4, OwnersAcquired
<1>8. ASSUME NEW r \in Requests, InsertEntry(r)
      PROVE  Owners'
  <2>1. /\ pc[r] = "entry" /\ pc'[r] = "commit" /\ lock' = lock
        /\ rexp'[r] = rexp[r] /\ ralloc'[r] = ralloc[r]
        /\ \A q \in Requests \ {r} :
             pc'[q] = pc[q] /\ rexp'[q] = rexp[q] /\ ralloc'[q] = ralloc[q]
    BY <1>8 DEF InsertEntry, Goto, IInv, TypeOK
  <2>2. \A x \in Rows : Holds(r, x) => Holds(r, x)'
    BY <2>1 DEF Holds, InTx
  <2> QED
    BY <2>1, <2>2, OwnersKept DEF Owners
<1>9. ASSUME NEW r \in Requests, Commit(r)
      PROVE  Owners'
  <2>1. ReleaseAll(r)
    BY <1>9 DEF Commit
  <2>2. \A q \in Requests \ {r} :
          pc'[q] = pc[q] /\ rexp'[q] = rexp[q] /\ ralloc'[q] = ralloc[q]
    BY <1>9 DEF Commit, Goto, Return, IInv, TypeOK
  <2> QED
    BY <2>1, <2>2, OwnersReleased
<1>10. ASSUME NEW r \in Requests, LogAction(r)
       PROVE  Owners'
  <2>1. \A x \in Rows : lock[x] # r
    BY <1>10 DEF LogAction, Owners, Holds, InTx
  <2> QED
    BY <1>10, <2>1, ReturnTypes, OwnersKept DEF LogAction, IInv
<1>11. CASE UNCHANGED vars
  BY <1>11 DEF vars, local, Owners, Holds
<1> QED
  BY <1>1, <1>2, <1>3, <1>4, <1>5, <1>6, <1>7, <1>8, <1>9, <1>10, <1>11,
     NextCases DEF Rollback

(* Whom a request waits for is further along the lock order.               *)
LEMMA WaitOrder ==
  ASSUME IInv, Owners, NEW r \in Requests, pc[r] \in InTx,
         NEW q \in Requests, WaitsFor(r, q)
  PROVE  /\ pc[q] \in InTx
         /\ \/ pc[r] = "allocation" /\ pc[q] \in {"budget", "entry", "commit"}
            \/ pc[r] = "budget" /\ pc[q] \in {"entry", "commit"}
<1>1. PICK x \in Wanted(r) : lock[x] = q /\ q # r
  BY DEF WaitsFor
<1>2. lock[rexp[r]] = r
  BY DEF IInv, Progress
<1>3. pc[r] # "update"
  BY <1>1, <1>2 DEF Wanted
<1>4. pc[r] \in {"allocation", "budget"} /\ ralloc[r] \in Allocations
  BY <1>1, <1>3 DEF Wanted, InTx, IInv, Progress, Paying
<1>5. x = IF pc[r] = "allocation" THEN ralloc[r] ELSE BudgetOf[ralloc[r]]
  BY <1>1, <1>4 DEF Wanted
<1>6. x \in Rows /\ x \notin Expenses
  BY <1>4, <1>5, BudgetAssumption, DistinctAssumption DEF Rows, Accounts
<1>7. Holds(q, x)
  BY <1>1, <1>6 DEF Owners
<1>8. x # rexp[q]
  BY <1>6, <1>7 DEF Holds, IInv, Progress
<1>9. pc[q] \in {"budget", "entry", "commit"} => ralloc[q] \in Allocations
  BY DEF IInv, Progress, Paying, InTx
<1>10. CASE pc[r] = "budget"
  <2>1. x \in Budgets /\ x \notin Allocations
    BY <1>4, <1>5, <1>10, BudgetAssumption, DistinctAssumption
  <2> QED
    BY <1>7, <1>8, <1>9, <1>10, <2>1 DEF Holds
<1> QED
  BY <1>4, <1>7, <1>8, <1>10 DEF Holds

(* The row locks cannot deadlock, however many requests disburse whatever  *)
(* from wherever, because DisburseExpense locks expense, allocation and    *)
(* budget in this order and every way out of it closes the transaction.    *)
THEOREM DeadlockFree == Spec => []NoDeadlock
<1>1. Init => Owners
  BY NoneAssumption DEF Init, Owners
<1>2. IInv /\ Owners /\ [Next]_vars => Owners'
  BY OwnersStep
<1>3. IInv /\ Owners => NoDeadlock
  <2> SUFFICES ASSUME IInv, Owners, NEW r \in Requests, pc[r] \in InTx,
                      ~Runs(r)
               PROVE  \E q \in Requests :
                        /\ WaitsFor(r, q)
                        /\ \/ Runs(q)
                           \/ \E p \in Requests : WaitsFor(q, p) /\ Runs(p)
    BY DEF NoDeadlock
  <2>1. ASSUME NEW q \in Requests, pc[q] \in {"entry", "commit"}
        PROVE  Runs(q)
    <3>1. pc[q] \in InTx /\ Wanted(q) = {}
      BY <2>1 DEF InTx, Wanted
    <3> QED
      BY <3>1 DEF Runs, WaitsFor
  <2>2. PICK q \in Requests : WaitsFor(r, q)
    BY DEF Runs
  <2>3. pc[q] \in InTx /\ pc[q] \in {"budget", "entry", "commit"}
    BY <2>2, WaitOrder
  <2>4. CASE pc[q] = "budget" /\ ~Runs(q)
    <3>1. PICK p \in Requests : WaitsFor(q, p)
      BY <2>3, <2>4 DEF Runs
    <3>2. pc[p] \in {"entry", "commit"}
      BY <2>3, <2>4, <3>1, WaitOrder
    <3> QED
      BY <2>1, <2>2, <3>1, <3>2
  <2> QED
    BY <2>1, <2>2, <2>3, <2>4
<1> QED
  BY <1>1, <1>2, <1>3, Invariance, PTL DEF Spec
=============================================================================
