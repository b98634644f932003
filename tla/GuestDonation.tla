--------------------------- MODULE GuestDonation ---------------------------
(***************************************************************************)
(* Donations of guests: the campaign page (src/frontend/src/app/(public)/    *)
(* campaigns/[id]/page.tsx) of several visitors, and the transaction that    *)
(* books a donation (src/backend/internal/repository/core_ops_repo.go),      *)
(* at READ COMMITTED.                                                        *)
(*                                                                         *)
(* As in Disbursement, the running total raised_amount is represented by     *)
(* how often each donation was added to it.                                  *)
(***************************************************************************)
EXTENDS Naturals, FiniteSets

CONSTANTS
  Tabs,        \* visitors of the campaign's page
  Donations,   \* ids the donations table can hand out; bounds the submissions
  Amounts,     \* amounts a visitor may enter
  None

ASSUME DonationAssumption ==
  /\ None \notin Donations \cup Tabs
  /\ Amounts # {}

VARIABLES
  donations,   \* committed rows of donations
  receipts,    \* committed rows of donation_receipts: their donation
  journal,     \* committed rows of financial_transactions: their reference
  raised,      \* campaigns.raised_amount
  lock,        \* transaction that holds the row of the campaign
  newRaised,   \* the row as that transaction wrote it
  pc,          \* next statement of the transaction of each donation
  sender,      \* the visit that submitted it, None once that visit is over
  amount,      \* amount it was submitted with
  tab          \* React state of each page

tables == <<donations, receipts, journal, raised>>
tx == <<lock, newRaised, pc>>
vars == <<tables, tx, sender, amount, tab>>

Accounts == {"receipts", "journal", "raised"}
Phases == {"loading", "page", "missing"}
PCs == {"unused", "insert", "campaign", "commit", "done", "failed"}
Open == {"insert", "campaign", "commit"}

(* form: isDonating; paying: processingPayment; edited: history, the amount  *)
(* was changed while a payment was processed.                                *)
Tab == [phase : Phases, open : BOOLEAN, form : BOOLEAN, amount : Amounts,
        paying : BOOLEAN, success : BOOLEAN, edited : BOOLEAN]

(* The tables, the transactions and the pages hold values of their types.    *)
TypeOK ==
  /\ donations \subseteq Donations
  /\ receipts \subseteq Donations
  /\ journal \subseteq Donations
  /\ raised \in [Donations -> Nat]
  /\ lock \in Donations \cup {None}
  /\ newRaised \in [Donations -> Nat]
  /\ pc \in [Donations -> PCs]
  /\ sender \in [Donations -> Tabs \cup {None}]
  /\ amount \in [Donations -> Amounts]
  /\ tab \in [Tabs -> Tab]

Fresh(a) == [phase |-> "loading", open |-> FALSE, form |-> FALSE, amount |-> a,
             paying |-> FALSE, success |-> FALSE, edited |-> FALSE]

(* amount starts at 50. *)
Preset == CHOOSE a \in Amounts : TRUE

Init ==
  /\ donations = {} /\ receipts = {} /\ journal = {}
  /\ raised = [d \in Donations |-> 0]
  /\ lock = None
  /\ newRaised = [d \in Donations |-> 0]
  /\ pc = [d \in Donations |-> "unused"]
  /\ sender = [d \in Donations |-> None]
  /\ amount = [d \in Donations |-> Preset]
  /\ tab = [t \in Tabs |-> Fresh(Preset)]

-----------------------------------------------------------------------------
(* The page. *)

Set(t, r) == tab' = [tab EXCEPT ![t] = r]

(* fetchCampaign: the campaign, active or not, or "Campaign Not Found". *)
Loaded(t, p, active) ==
  /\ tab[t].phase = "loading"
  /\ Set(t, [tab[t] EXCEPT !.phase = p, !.open = active])
  /\ UNCHANGED <<tables, tx, sender, amount>>

(* Donate Now and Cancel; a payment under way goes on. *)
ShowForm(t) ==
  /\ tab[t].phase = "page" /\ ~tab[t].form
  /\ tab[t].open /\ ~tab[t].success
  /\ Set(t, [tab[t] EXCEPT !.form = TRUE])
  /\ UNCHANGED <<tables, tx, sender, amount>>

HideForm(t) ==
  /\ tab[t].phase = "page" /\ tab[t].form
  /\ Set(t, [tab[t] EXCEPT !.form = FALSE])
  /\ UNCHANGED <<tables, tx, sender, amount>>

(* The fields stay editable while a payment is processed. *)
EditAmount(t, a) ==
  /\ tab[t].phase = "page" /\ tab[t].form
  /\ a # tab[t].amount
  /\ Set(t, [tab[t] EXCEPT !.amount = a, !.edited = @ \/ tab[t].paying])
  /\ UNCHANGED <<tables, tx, sender, amount>>

(* Mutant of Submit: the button is not disabled while processing. *)
SubmitAgain(t, d) ==
  /\ tab[t].phase = "page" /\ tab[t].form
  /\ pc[d] = "unused"
  /\ pc' = [pc EXCEPT ![d] = "insert"]
  /\ sender' = [sender EXCEPT ![d] = t]
  /\ amount' = [amount EXCEPT ![d] = tab[t].amount]
  /\ Set(t, [tab[t] EXCEPT !.paying = TRUE])
  /\ UNCHANGED <<tables, lock, newRaised>>

(* handleDonate up to its fetch. *)
Submit(t, d) ==
  /\ tab[t].phase = "page" /\ tab[t].form
  /\ ~tab[t].paying
  /\ pc[d] = "unused"
  /\ pc' = [pc EXCEPT ![d] = "insert"]
  /\ sender' = [sender EXCEPT ![d] = t]
  /\ amount' = [amount EXCEPT ![d] = tab[t].amount]
  /\ Set(t, [tab[t] EXCEPT !.paying = TRUE])
  /\ UNCHANGED <<tables, lock, newRaised>>

(* The answer 201: thanks, and the form is closed.                           *)
Thank(d) ==
  LET t == sender[d] IN
  /\ pc[d] = "done" /\ t # None /\ tab[t].paying
  /\ Set(t, [tab[t] EXCEPT !.paying = FALSE, !.success = TRUE, !.form = FALSE])
  /\ UNCHANGED <<tables, tx, sender, amount>>

(* Any failure, a lost answer to a booked donation included: error is set,   *)
(* and the page is replaced by "Campaign Not Found".                         *)
Apologise(d) ==
  LET t == sender[d] IN
  /\ pc[d] \in {"done", "failed"} /\ t # None /\ tab[t].paying
  /\ Set(t, [tab[t] EXCEPT !.paying = FALSE, !.phase = "missing"])
  /\ UNCHANGED <<tables, tx, sender, amount>>

(* The page is left or loaded again: nobody waits for its request any more.  *)
Reload(t) ==
  /\ Set(t, Fresh(Preset))
  /\ sender' = [d \in Donations |-> IF sender[d] = t THEN None ELSE sender[d]]
  /\ UNCHANGED <<tables, tx, amount>>

-----------------------------------------------------------------------------
(* The server: CoreOpsRepository.ProcessDonation. *)

Goto(d, from, to) == pc[d] = from /\ pc' = [pc EXCEPT ![d] = to]

(* The INSERTs of the donation, its receipt and its income entry: rows that   *)
(* no other transaction sees before the commit.                              *)
Insert(d) ==
  /\ Goto(d, "insert", "campaign")
  /\ UNCHANGED <<tables, lock, newRaised, sender, amount, tab>>

(* Mutant of UpdateCampaign: the sum is computed from a value read without    *)
(* the row lock.                                                             *)
UpdateUnlocked(d) ==
  /\ Goto(d, "campaign", "commit")
  /\ lock' = d
  /\ newRaised' = [raised EXCEPT ![d] = @ + 1]
  /\ UNCHANGED <<tables, sender, amount, tab>>

(* raised_amount = raised_amount + $1, under the row lock of the UPDATE.      *)
UpdateCampaign(d) ==
  /\ Goto(d, "campaign", "commit")
  /\ lock = None
  /\ lock' = d
  /\ newRaised' = [raised EXCEPT ![d] = @ + 1]
  /\ UNCHANGED <<tables, sender, amount, tab>>

Commit(d) ==
  /\ Goto(d, "commit", "done")
  /\ donations' = donations \cup {d}
  /\ receipts' = receipts \cup {d}
  /\ journal' = journal \cup {d}
  /\ raised' = newRaised
  /\ lock' = None
  /\ UNCHANGED <<newRaised, sender, amount, tab>>

(* A statement fails, or the request's context ends: ROLLBACK. *)
Rollback(d) ==
  /\ pc[d] \in Open
  /\ pc' = [pc EXCEPT ![d] = "failed"]
  /\ IF lock = d THEN lock' = None /\ newRaised' = raised
                 ELSE UNCHANGED <<lock, newRaised>>
  /\ UNCHANGED <<tables, sender, amount, tab>>

-----------------------------------------------------------------------------
Next ==
  \/ \E t \in Tabs :
       \/ \E p \in {"page", "missing"}, active \in BOOLEAN : Loaded(t, p, active)
       \/ ShowForm(t) \/ HideForm(t) \/ Reload(t)
       \/ \E a \in Amounts : EditAmount(t, a)
       \/ \E d \in Donations : Submit(t, d)
  \/ \E d \in Donations :
       \/ Thank(d) \/ Apologise(d)
       \/ Insert(d) \/ UpdateCampaign(d) \/ Commit(d) \/ Rollback(d)

Spec == Init /\ [][Next]_vars

-----------------------------------------------------------------------------
(* A visit of the page books at most one donation, whatever is clicked and   *)
(* however the answers come; and thanks are shown only for a donation that   *)
(* is booked, with the amount it was booked with unless the visitor edited   *)
(* the field while it was processed (page.tsx:113 shows the field).          *)
BookedIn(t) == {d \in donations : sender[d] = t}
OneDonationPerVisit ==
  \A t \in Tabs :
    /\ \A d, e \in BookedIn(t) : d = e
    /\ tab[t].success =>
         \E d \in BookedIn(t) : tab[t].edited \/ amount[d] = tab[t].amount

postings == [p \in Accounts \X Donations |->
  CASE p[1] = "receipts" -> IF p[2] \in receipts THEN 1 ELSE 0
    [] p[1] = "journal"  -> IF p[2] \in journal THEN 1 ELSE 0
    [] OTHER             -> raised[p[2]]]

(* The implementation of AtomicBooking: the commit of a donation is its Book *)
(* step, with a receipt, an income entry and the campaign's total; nothing    *)
(* else moves money, and no commit undoes another's addition to the total.   *)
Booking == INSTANCE AtomicBooking WITH
  Docs <- Donations, Routes <- {Accounts}, booked <- donations
ImplementsBooking == Booking!Spec
=============================================================================
