---------------------------- MODULE Disbursement ----------------------------
(***************************************************************************)
(* Expense requests and their disbursement (core_ops_repo.go,              *)
(* core_ops_service.go): concurrent requests, each one transaction at READ *)
(* COMMITTED, statement by statement, with the row locks Postgres takes    *)
(* for FOR UPDATE and UPDATE, followed by the audit record, which is       *)
(* written after the commit and outside the transaction.                   *)
(*                                                                         *)
(* A transaction's writes become visible when it commits.  The running     *)
(* totals spent_amount and the journal financial_transactions are          *)
(* represented by their postings: how often an expense was added to them.  *)
(***************************************************************************)
EXTENDS Naturals, FiniteSets

CONSTANTS
  Expenses,     \* expense_requests rows
  Allocations,  \* budget_allocations rows
  Budgets,      \* budgets rows
  BudgetOf,     \* budget_allocations.budget_id
  Journal,      \* financial_transactions
  Requests,     \* slots for concurrently executing HTTP requests
  None

Accounts == Allocations \cup Budgets \cup {Journal}
Rows == Expenses \cup Allocations \cup Budgets

ASSUME BudgetAssumption == BudgetOf \in [Allocations -> Budgets]
ASSUME NoneAssumption ==
  None \notin Expenses \cup Allocations \cup Requests
ASSUME DistinctAssumption ==
  /\ Expenses \cap Accounts = {}
  /\ Allocations \cap Budgets = {}
  /\ Journal \notin Allocations \cup Budgets

VARIABLES
  status,     \* expense_requests.status, "absent" before the insert
  paidFrom,   \* expense_requests.budget_allocation_id
  postings,   \* committed additions of an expense to an account
  lock,       \* which request's transaction holds a row
  pc,         \* the next statement of each request
  rexp,       \* the expense a request is about
  ralloc,     \* the allocation it asks for, None if no such row exists
  wrote,      \* accounts its open transaction has added the expense to
  audit       \* audit_logs: expenses with a DISBURSE_EXPENSE record

db    == <<status, paidFrom, postings>>
local == <<pc, rexp, ralloc>>
vars  == <<db, lock, local, wrote, audit>>

(* The statuses the CHECK constraint allows; the code writes only two.     *)
ExpenseStatus ==
  {"submitted", "manager_approved", "finance_approved", "disbursed",
   "rejected"}

InTx == {"check", "update", "allocation", "budget", "entry", "commit"}

TypeOK ==
  /\ status \in [Expenses -> ExpenseStatus \cup {"absent"}]
  /\ paidFrom \in [Expenses -> Allocations \cup {None}]
  /\ postings \in [Accounts \X Expenses -> Nat]
  /\ lock \in [Rows -> Requests \cup {None}]
  /\ pc \in [Requests -> InTx \cup {"idle", "audit"}]
  /\ rexp \in [Requests -> Expenses \cup {None}]
  /\ ralloc \in [Requests -> Allocations \cup {None}]
  /\ wrote \in [Requests -> SUBSET Accounts]
  /\ audit \subseteq Expenses

Init ==
  /\ status = [e \in Expenses |-> "absent"]
  /\ paidFrom = [e \in Expenses |-> None]
  /\ postings = [p \in Accounts \X Expenses |-> 0]
  /\ lock = [x \in Rows |-> None]
  /\ pc = [r \in Requests |-> "idle"]
  /\ rexp = [r \in Requests |-> None]
  /\ ralloc = [r \in Requests |-> None]
  /\ wrote = [r \in Requests |-> {}]
  /\ audit = {}

-----------------------------------------------------------------------------
(* Postgres and pgx, as the code in src uses them.                         *)

(* A row lock is granted when no other open transaction holds the row.     *)
Acquire(r, row) ==
  /\ lock[row] \in {None, r}
  /\ lock' = [lock EXCEPT ![row] = r]

(* COMMIT and ROLLBACK release every row of the transaction.               *)
ReleaseAll(r) ==
  lock' = [x \in Rows |-> IF lock[x] = r THEN None ELSE lock[x]]

Goto(r, from, to) ==
  /\ pc[r] = from
  /\ pc' = [pc EXCEPT ![r] = to]
  /\ UNCHANGED <<rexp, ralloc>>

(* The handler returns and its transaction, if still open, is gone.        *)
Return(r) ==
  /\ pc' = [pc EXCEPT ![r] = "idle"]
  /\ rexp' = [rexp EXCEPT ![r] = None]
  /\ ralloc' = [ralloc EXCEPT ![r] = None]
  /\ wrote' = [wrote EXCEPT ![r] = {}]

-----------------------------------------------------------------------------
(* Mutant of SubmitExpense: a status that the CHECK constraint refuses.    *)
SubmitPending(e) ==
  /\ status[e] = "absent"
  /\ status' = [status EXCEPT ![e] = "pending"]
  /\ UNCHANGED <<paidFrom, postings, lock, local, wrote, audit>>

(* SubmitExpenseRequest: one INSERT with status 'submitted'.               *)
SubmitExpense(e) ==
  /\ status[e] = "absent"
  /\ status' = [status EXCEPT ![e] = "submitted"]
  /\ UNCHANGED <<paidFrom, postings, lock, local, wrote, audit>>

(* Mutant of LockExpense: a plain SELECT without FOR UPDATE.               *)
ReadExpense(r, e, a) ==
  /\ pc[r] = "idle"
  /\ status[e] # "absent"
  /\ pc' = [pc EXCEPT ![r] = "check"]
  /\ rexp' = [rexp EXCEPT ![r] = e]
  /\ ralloc' = [ralloc EXCEPT ![r] = a]
  /\ UNCHANGED <<db, lock, wrote, audit>>

(* DisburseExpense: BEGIN, SELECT amount, status ... FOR UPDATE.  The row  *)
(* stays locked, so that what was read of it stays true.                   *)
LockExpense(r, e, a) ==
  /\ pc[r] = "idle"
  /\ status[e] # "absent"
  /\ Acquire(r, e)
  /\ pc' = [pc EXCEPT ![r] = "check"]
  /\ rexp' = [rexp EXCEPT ![r] = e]
  /\ ralloc' = [ralloc EXCEPT ![r] = a]
  /\ UNCHANGED <<db, wrote, audit>>

(* An expense that is already disbursed is refused; every other status     *)
(* goes on.                                                                *)
CheckStatus(r) ==
  /\ pc[r] = "check"
  /\ \/ /\ status[rexp[r]] # "disbursed"
        /\ Goto(r, "check", "update")
        /\ UNCHANGED <<lock, wrote>>
     \/ /\ status[rexp[r]] = "disbursed"
        /\ ReleaseAll(r)
        /\ Return(r)
  /\ UNCHANGED <<db, audit>>

(* UPDATE expense_requests SET status = 'disbursed', budget_allocation_id; *)
(* the foreign key refuses an allocation that does not exist.              *)
UpdateExpense(r) ==
  /\ pc[r] = "update"
  /\ \/ /\ ralloc[r] # None
        /\ Goto(r, "update", "allocation")
        /\ Acquire(r, rexp[r])
        /\ UNCHANGED wrote
     \/ /\ ralloc[r] = None
        /\ ReleaseAll(r)
        /\ Return(r)
  /\ UNCHANGED <<db, audit>>

(* UPDATE budget_allocations SET spent_amount = spent_amount + $1          *)
(* RETURNING budget_id.                                                    *)
ChargeAllocation(r) ==
  /\ Goto(r, "allocation", "budget")
  /\ Acquire(r, ralloc[r])
  /\ wrote' = [wrote EXCEPT ![r] = @ \cup {ralloc[r]}]
  /\ UNCHANGED <<db, audit>>

(* Mutant of ChargeBudget: the parent budget is forgotten.                 *)
SkipBudget(r) ==
  /\ Goto(r, "budget", "entry")
  /\ UNCHANGED <<db, lock, wrote, audit>>

(* UPDATE budgets SET spent_amount = spent_amount + $1.                    *)
ChargeBudget(r) ==
  /\ Goto(r, "budget", "entry")
  /\ Acquire(r, BudgetOf[ralloc[r]])
  /\ wrote' = [wrote EXCEPT ![r] = @ \cup {BudgetOf[ralloc[r]]}]
  /\ UNCHANGED <<db, audit>>

(* INSERT INTO financial_transactions ('expense', ...).                    *)
InsertEntry(r) ==
  /\ Goto(r, "entry", "commit")
  /\ wrote' = [wrote EXCEPT ![r] = @ \cup {Journal}]
  /\ UNCHANGED <<db, lock, audit>>

(* COMMIT.  If its answer is lost the handler reports an error although    *)
(* the expense is disbursed, and never reaches the audit record.           *)
Commit(r) ==
  /\ pc[r] = "commit"
  /\ status' = [status EXCEPT ![rexp[r]] = "disbursed"]
  /\ paidFrom' = [paidFrom EXCEPT ![rexp[r]] = ralloc[r]]
  /\ postings' = [p \in Accounts \X Expenses |->
                    IF p[1] \in wrote[r] /\ p[2] = rexp[r]
                      THEN postings[p] + 1 ELSE postings[p]]
  /\ ReleaseAll(r)
  /\ \/ /\ Goto(r, "commit", "audit")
        /\ wrote' = [wrote EXCEPT ![r] = {}]
     \/ Return(r)
  /\ UNCHANGED audit

(* Mutant of Rollback: the handler records the action in spite of the      *)
(* error.                                                                  *)
RollbackThenAudit(r) ==
  /\ pc[r] \in InTx
  /\ ReleaseAll(r)
  /\ Goto(r, pc[r], "audit")
  /\ wrote' = [wrote EXCEPT ![r] = {}]
  /\ UNCHANGED <<db, audit>>

(* Mutant of Rollback: the deferred call is missing and the transaction is *)
(* left open.                                                              *)
LeaveOpen(r) ==
  /\ pc[r] \in InTx
  /\ Return(r)
  /\ UNCHANGED <<db, lock, audit>>

(* The deferred Rollback: a statement failed, the client is gone, or the   *)
(* process was killed and Postgres drops the transaction.                  *)
Rollback(r) ==
  /\ pc[r] \in InTx
  /\ ReleaseAll(r)
  /\ Return(r)
  /\ UNCHANGED <<db, audit>>

(* AuditService.LogAction after the commit; its error is only logged, and  *)
(* the process may die before it.                                          *)
LogAction(r) ==
  /\ pc[r] = "audit"
  /\ audit' \in {audit, audit \cup {rexp[r]}}
  /\ Return(r)
  /\ UNCHANGED <<db, lock>>

Step(r) ==
  \/ CheckStatus(r)
  \/ UpdateExpense(r)
  \/ ChargeAllocation(r)
  \/ ChargeBudget(r)
  \/ InsertEntry(r)
  \/ Commit(r)
  \/ LogAction(r)

Next ==
  \/ \E e \in Expenses : SubmitExpense(e)
  \/ \E r \in Requests :
       \/ \E e \in Expenses, a \in Allocations \cup {None} :
            LockExpense(r, e, a)
       \/ Step(r)
       \/ Rollback(r)

Spec == Init /\ [][Next]_vars

(* A request that has started executes its next statement.  Postgres       *)
(* queues the waiters of a row lock, so a request whose row becomes free   *)
(* again and again gets it: strong fairness.  Nothing obliges a request to *)
(* roll back, there is no statement timeout.                               *)
FairSpec == Spec /\ \A r \in Requests : SF_vars(Step(r))

-----------------------------------------------------------------------------
Disbursed == {e \in Expenses : status[e] = "disbursed"}

(* The accounts that paying from allocation a moves.                       *)
RouteOf(a) == {a, BudgetOf[a], Journal}

(* Booked exactly once: whatever requests, retries and rollbacks happened, *)
(* a disbursed expense is in the spent amount of its allocation, of that   *)
(* allocation's budget and in the journal once, and in nothing else; an    *)
(* expense that is not disbursed is nowhere (DisburseExpense).             *)
BookedExactlyOnce ==
  \A e \in Expenses, x \in Accounts :
    postings[<<x, e>>] =
      IF e \in Disbursed /\ x \in RouteOf(paidFrom[e]) THEN 1 ELSE 0

(* The implementation of AtomicBooking: a commit is its Book step, every   *)
(* other statement a stutter.                                              *)
Booking == INSTANCE AtomicBooking WITH
  Docs <- Expenses, Routes <- {RouteOf(a) : a \in Allocations},
  booked <- Disbursed
ImplementsBooking == Booking!Spec

(* A disbursement that once happened is never undone, re-routed or         *)
(* repeated, by any later request for the same expense.                    *)
DisbursementIsFinal ==
  [][\A e \in Disbursed : status'[e] = "disbursed"
       /\ paidFrom'[e] = paidFrom[e]]_vars

(* The audit log never claims a disbursement that a rollback undid: the    *)
(* record is written after the commit.                                     *)
AuditOnlyOfDisbursed == audit \subseteq Disbursed

(* The row that the next statement of a request locks, if it locks one.    *)
Wanted(r) ==
  CASE pc[r] = "update"     -> {rexp[r]}
    [] pc[r] = "allocation" -> {ralloc[r]}
    [] pc[r] = "budget"     -> {BudgetOf[ralloc[r]]}
    [] OTHER                -> {}

WaitsFor(r, q) == q # r /\ \E x \in Wanted(r) : lock[x] = q

(* An open transaction whose next statement waits for nobody.              *)
Runs(r) == pc[r] \in InTx /\ \A q \in Requests : ~WaitsFor(r, q)

(* Waiting ends at a running transaction after two requests at most: an    *)
(* open transaction runs, or waits for one that runs, or for one that      *)
(* waits for one that runs.  So no set of requests waits in a circle, and  *)
(* nobody waits for a request that is already through (DisburseExpense     *)
(* locks expense, then allocation, then budget, and always closes its      *)
(* transaction).                                                           *)
NoDeadlock ==
  \A r \in Requests : pc[r] \in InTx =>
    \/ Runs(r)
    \/ \E q \in Requests :
         /\ WaitsFor(r, q)
         /\ Runs(q) \/ \E p \in Requests : WaitsFor(q, p) /\ Runs(p)

(* No deadlock among the row locks and no lock left behind: every started  *)
(* request ends (lock order expense, allocation, budget; deferred          *)
(* Rollback).                                                              *)
EveryRequestEnds ==
  \A r \in Requests : pc[r] # "idle" ~> pc[r] = "idle"

(* "Audit Trails: Implemented (Strict ACID logging on all financial        *)
(* modifications)": a disbursed expense that no request is still about has *)
(* its audit record.                                                       *)
EveryDisbursementAudited ==
  \A e \in Disbursed : e \in audit \/ \E r \in Requests : rexp[r] = e
=============================================================================
