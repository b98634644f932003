\* Two expenses, two allocations that share a budget and one with its own, three
\* concurrent requests: an expense submitted twice, contention for the allocation
\* and budget rows and lock queues of two all happen.  No symmetry: liveness.
CONSTANTS
  Expenses = {e1, e2}
  a1 = a1
  a2 = a2
  a3 = a3
  b1 = b1
  b2 = b2
  Allocations = {a1, a2, a3}
  Budgets = {b1, b2}
  BudgetOf <- TwoBudgets
  Journal = Journal
  Requests = {r1, r2, r3}
  None = None
SPECIFICATION FairSpec
INVARIANTS TypeOK BookedExactlyOnce AuditOnlyOfDisbursed NoDeadlock
PROPERTIES ImplementsBooking EveryRequestEnds
