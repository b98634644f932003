------------------------ MODULE GuestDonationProofs ------------------------
(* Theorems about GuestDonation, for every set of visitors, donations and    *)
(* amounts.                                                                  *)
EXTENDS GuestDonation, TLAPS

(* The row of the campaign is held by the transaction that is about to       *)
(* commit; what it wrote is the committed total and its own donation.        *)
Locked ==
  \A d \in Donations :
    /\ lock = d <=> pc[d] = "commit"
    /\ pc[d] = "commit" =>
         newRaised = [e \in Donations |-> IF e = d THEN raised[e] + 1 ELSE raised[e]]

(* The committed tables agree: a donation that is through is in each of them *)
(* once, any other one nowhere.                                              *)
Agree ==
  /\ receipts = donations /\ journal = donations
  /\ \A d \in Donations :
       /\ pc[d] = "done" <=> d \in donations
       /\ raised[d] = IF d \in donations THEN 1 ELSE 0

(* A visit that has submitted waits for the answer, thanks without a form,   *)
(* or has lost its page; so it has submitted once.                           *)
Spent(t) == \/ tab[t].paying
            \/ tab[t].success /\ ~tab[t].form
            \/ tab[t].phase = "missing"

Submitted(t, d) ==
  /\ pc[d] # "unused"
  /\ tab[t].phase # "loading"
  /\ Spent(t)
  /\ tab[t].edited \/ amount[d] = tab[t].amount

Visits ==
  \A t \in Tabs :
    /\ \A d \in Donations : sender[d] = t => Submitted(t, d)
    /\ \A d, e \in Donations : sender[d] = t /\ sender[e] = t => d = e
    /\ tab[t].success => \E d \in Donations : sender[d] = t /\ pc[d] = "done"

Booked == TypeOK /\ Locked /\ Agree
IInv == Booked /\ Visits

-----------------------------------------------------------------------------
(* The transactions. *)

LEMMA InitBooked == ASSUME Init PROVE Booked
<1>1. Preset \in Amounts
  BY DonationAssumption DEF Preset
<1>2. Fresh(Preset) \in Tab
  BY <1>1 DEF Fresh, Tab, Phases
<1>3. TypeOK
  BY <1>1, <1>2 DEF Init, TypeOK, PCs
<1>4. Locked /\ Agree
  BY DonationAssumption DEF Init, Locked, Agree
<1> QED
  BY <1>3, <1>4 DEF Booked

(* The steps of a page: no table and no transaction is touched, and a        *)
(* donation that was unused is submitted at most.                            *)
LEMMA PageStep ==
  ASSUME Booked, UNCHANGED <<tables, lock, newRaised>>,
         sender' \in [Donations -> Tabs \cup {None}],
         amount' \in [Donations -> Amounts],
         tab' \in [Tabs -> Tab],
         \/ pc' = pc
         \/ \E d \in Donations : pc[d] = "unused" /\ pc' = [pc EXCEPT ![d] = "insert"]
  PROVE  Booked'
<1>1. TypeOK'
  BY DEF Booked, TypeOK, tables, PCs
<1>2. \A d \in Donations : \/ pc'[d] = pc[d]
                           \/ pc[d] = "unused" /\ pc'[d] = "insert"
  BY DEF Booked, TypeOK
<1>3. Locked'
  BY <1>2 DEF Booked, Locked, tables
<1>4. Agree'
  BY <1>2 DEF Booked, Agree, tables
<1> QED
  BY <1>1, <1>3, <1>4 DEF Booked

(* What the steps of a page do to it and to its donation. *)
LEMMA SetTypes ==
  ASSUME TypeOK, NEW t \in Tabs, NEW r \in Tab, Set(t, r)
  PROVE  /\ tab' \in [Tabs -> Tab]
         /\ tab'[t] = r
         /\ \A u \in Tabs \ {t} : tab'[u] = tab[u]
PROOF BY DEF TypeOK, Set

PageSteps(t) ==
  \/ \E p \in {"page", "missing"}, active \in BOOLEAN : Loaded(t, p, active)
  \/ ShowForm(t) \/ HideForm(t) \/ Reload(t)
  \/ \E a \in Amounts : EditAmount(t, a)
  \/ \E d \in Donations : Submit(t, d)

LEMMA PageTypes ==
  ASSUME TypeOK, NEW t \in Tabs, PageSteps(t)
  PROVE  /\ tab' \in [Tabs -> Tab]
         /\ \A u \in Tabs \ {t} : tab'[u] = tab[u]
<1>1. tab[t] \in Tab
  BY DEF TypeOK
<1>2. ASSUME NEW p \in {"page", "missing"}, NEW active \in BOOLEAN, Loaded(t, p, active)
      PROVE  \E r \in Tab : Set(t, r)
  BY <1>1, <1>2 DEF Loaded, Tab, Phases
<1>3. CASE ShowForm(t)
  BY <1>1, <1>3, SetTypes DEF ShowForm, Tab
<1>4. CASE HideForm(t)
  BY <1>1, <1>4, SetTypes DEF HideForm, Tab
<1>5. CASE Reload(t)
  <2>1. Fresh(Preset) \in Tab
    BY DonationAssumption DEF Preset, Fresh, Tab, Phases
  <2> QED
    BY <1>5, <2>1, SetTypes DEF Reload
<1>6. ASSUME NEW a \in Amounts, EditAmount(t, a) PROVE \E r \in Tab : Set(t, r)
  <2>1. [tab[t] EXCEPT !.amount = a, !.edited = @ \/ tab[t].paying] \in Tab
    BY <1>1 DEF Tab
  <2> QED
    BY <1>6, <2>1 DEF EditAmount
<1>7. ASSUME NEW d \in Donations, Submit(t, d) PROVE \E r \in Tab : Set(t, r)
  BY <1>1, <1>7 DEF Submit, Tab
<1> QED
  BY <1>2, <1>3, <1>4, <1>5, <1>6, <1>7, SetTypes DEF PageSteps

LEMMA PageStepsBooked ==
  ASSUME Booked, NEW t \in Tabs, PageSteps(t) PROVE Booked'
<1>1. TypeOK
  BY DEF Booked
<1>2. tab' \in [Tabs -> Tab]
  BY <1>1, PageTypes
<1>3. CASE UNCHANGED <<tables, tx, sender, amount>>
  BY <1>1, <1>2, <1>3, PageStep DEF TypeOK, tx
<1>4. CASE Reload(t)
  BY <1>1, <1>2, <1>4, PageStep DEF TypeOK, Reload, tx
<1>5. ASSUME NEW d \in Donations, Submit(t, d) PROVE Booked'
  <2>1. tab[t].amount \in Amounts
    BY <1>1 DEF TypeOK, Tab
  <2>2. /\ sender' \in [Donations -> Tabs \cup {None}]
        /\ amount' \in [Donations -> Amounts]
    BY <1>1, <1>5, <2>1 DEF TypeOK, Submit
  <2>3. /\ UNCHANGED <<tables, lock, newRaised>>
        /\ pc[d] = "unused" /\ pc' = [pc EXCEPT ![d] = "insert"]
    BY <1>5 DEF Submit
  <2> QED
    BY <1>2, <2>2, <2>3, PageStep
<1> QED
  BY <1>3, <1>4, <1>5 DEF PageSteps, Loaded, ShowForm, HideForm, EditAmount

LEMMA AnswerTypes ==
  ASSUME TypeOK, NEW d \in Donations, Thank(d) \/ Apologise(d)
  PROVE  /\ sender[d] \in Tabs
         /\ tab' \in [Tabs -> Tab]
         /\ \A u \in Tabs \ {sender[d]} : tab'[u] = tab[u]
<1>1. sender[d] \in Tabs
  BY DEF TypeOK, Thank, Apologise
<1>2. tab[sender[d]] \in Tab
  BY <1>1 DEF TypeOK
<1>3. CASE Thank(d)
  BY <1>1, <1>2, <1>3, SetTypes DEF Thank, Tab
<1>4. CASE Apologise(d)
  BY <1>1, <1>2, <1>4, SetTypes DEF Apologise, Tab, Phases
<1> QED
  BY <1>1, <1>3, <1>4

LEMMA AnswersBooked ==
  ASSUME Booked, NEW d \in Donations, Thank(d) \/ Apologise(d) PROVE Booked'
<1>1. TypeOK
  BY DEF Booked
<1>2. tab' \in [Tabs -> Tab]
  BY <1>1, AnswerTypes
<1> QED
  BY <1>1, <1>2, PageStep DEF TypeOK, Thank, Apologise, tx

(* The server's steps move the transaction of one donation. *)
LEMMA GotoTypes ==
  ASSUME TypeOK, NEW d \in Donations, NEW from, NEW to \in PCs, Goto(d, from, to)
  PROVE  /\ pc' \in [Donations -> PCs]
         /\ pc[d] = from /\ pc'[d] = to
         /\ \A e \in Donations \ {d} : pc'[e] = pc[e]
PROOF BY DEF TypeOK, Goto

LEMMA InsertBooked ==
  ASSUME Booked, NEW d \in Donations, Insert(d) PROVE Booked'
<1> USE DEF Booked
<1>1. /\ pc' \in [Donations -> PCs]
      /\ pc[d] = "insert" /\ pc'[d] = "campaign"
      /\ \A e \in Donations \ {d} : pc'[e] = pc[e]
  BY GotoTypes DEF Insert, PCs
<1>2. TypeOK'
  BY <1>1 DEF Insert, TypeOK, tables
<1>3. Locked' /\ Agree'
  BY <1>1 DEF Insert, Locked, Agree, tables
<1> QED
  BY <1>2, <1>3

LEMMA UpdateBooked ==
  ASSUME Booked, NEW d \in Donations, UpdateCampaign(d) PROVE Booked'
<1> USE DEF Booked
<1>1. /\ pc' \in [Donations -> PCs]
      /\ pc[d] = "campaign" /\ pc'[d] = "commit"
      /\ \A e \in Donations \ {d} : pc'[e] = pc[e]
  BY GotoTypes DEF UpdateCampaign, PCs
<1>2. newRaised' = [e \in Donations |-> IF e = d THEN raised[e] + 1 ELSE raised[e]]
  BY DEF UpdateCampaign, TypeOK
<1>3. TypeOK'
  BY <1>1, <1>2 DEF UpdateCampaign, TypeOK, tables
<1>4. lock = None /\ lock' = d /\ UNCHANGED tables
  BY DEF UpdateCampaign
<1>5. \A e \in Donations : pc[e] # "commit"
  BY <1>4, DonationAssumption DEF Locked
<1>6. Locked'
  BY <1>1, <1>2, <1>4, <1>5 DEF Locked, tables
<1>7. Agree'
  BY <1>1, <1>4 DEF Agree, tables
<1> QED
  BY <1>3, <1>6, <1>7

(* The commit adds the donation to a total nobody else has changed since it  *)
(* was read.                                                                 *)
LEMMA CommitFacts ==
  ASSUME Booked, NEW d \in Donations, Commit(d)
  PROVE  /\ d \notin donations
         /\ donations' = donations \cup {d}
         /\ receipts' = donations' /\ journal' = donations'
         /\ raised' = [e \in Donations |-> IF e = d THEN raised[e] + 1 ELSE raised[e]]
<1>1. pc[d] = "commit"
  BY DEF Commit, Goto
<1> QED
  BY <1>1 DEF Booked, Locked, Agree, Commit

LEMMA CommitBooked ==
  ASSUME Booked, NEW d \in Donations, Commit(d) PROVE Booked'
<1> USE DEF Booked
<1>1. /\ pc' \in [Donations -> PCs]
      /\ pc[d] = "commit" /\ pc'[d] = "done"
      /\ \A e \in Donations \ {d} : pc'[e] = pc[e]
  BY GotoTypes DEF Commit, PCs
<1>2. raised' \in [Donations -> Nat]
  BY CommitFacts DEF TypeOK
<1>3. TypeOK'
  BY <1>1, <1>2 DEF Commit, TypeOK
<1>4. \A e \in Donations \ {d} : pc[e] # "commit"
  BY <1>1 DEF Locked
<1>5. Locked'
  BY <1>1, <1>4, DonationAssumption DEF Commit, Locked
<1>6. Agree'
  BY <1>1, CommitFacts DEF Agree
<1> QED
  BY <1>3, <1>5, <1>6

LEMMA RollbackBooked ==
  ASSUME Booked, NEW d \in Donations, Rollback(d) PROVE Booked'
<1> USE DEF Booked
<1>1. /\ pc' \in [Donations -> PCs]
      /\ pc[d] \in Open /\ pc'[d] = "failed"
      /\ \A e \in Donations \ {d} : pc'[e] = pc[e]
  BY DEF Rollback, TypeOK, PCs
<1>2. UNCHANGED tables
  BY DEF Rollback
<1>3. TypeOK'
  BY <1>1 DEF Rollback, TypeOK, tables
<1>4. Agree'
  BY <1>1, <1>2 DEF Agree, tables, Open
<1>5. CASE lock = d
  <2>1. \A e \in Donations : pc'[e] # "commit"
    BY <1>1, <1>5 DEF Locked
  <2> QED
    BY <1>3, <1>4, <1>5, <2>1, DonationAssumption DEF Rollback, Locked
<1>6. CASE lock # d
  BY <1>1, <1>2, <1>3, <1>4, <1>6 DEF Rollback, Locked, tables
<1> QED
  BY <1>5, <1>6

LEMMA NextCases ==
  ASSUME Next
  PROVE  \/ \E t \in Tabs : PageSteps(t)
         \/ \E d \in Donations : Thank(d) \/ Apologise(d)
         \/ \E d \in Donations : Insert(d) \/ UpdateCampaign(d) \/ Commit(d) \/ Rollback(d)
PROOF BY DEF Next, PageSteps

LEMMA BookedStep == ASSUME Booked, [Next]_vars PROVE Booked'
<1>1. CASE UNCHANGED vars
  BY <1>1 DEF vars, tables, tx, Booked, TypeOK, Locked, Agree
<1>2. CASE Next
  BY <1>2, NextCases, PageStepsBooked, AnswersBooked, InsertBooked, UpdateBooked,
     CommitBooked, RollbackBooked
<1> QED
  BY <1>1, <1>2

(* Type correctness: tables, transactions and pages hold values of their     *)
(* types, whatever the visitors do and whatever fails.                       *)
THEOREM TypeCorrectness == Spec => []TypeOK
<1>1. Init => Booked
  BY InitBooked
<1>2. Booked /\ [Next]_vars => Booked'
  BY BookedStep
<1>3. Booked => TypeOK
  BY DEF Booked
<1> QED
  BY <1>1, <1>2, <1>3, PTL DEF Spec

(* ProcessDonation implements the atomic booking: however the transactions    *)
(* interleave and wherever they fail, a donation is posted once to receipts,  *)
(* journal and total, in the step that makes it visible, and no addition to   *)
(* raised_amount is lost.                                                     *)
THEOREM Refinement == Spec => ImplementsBooking
<1>1. ASSUME Init PROVE Booking!Init
  BY <1>1 DEF Init, Booking!Init, postings, Accounts
<1>2. ASSUME Booked, [Next]_vars PROVE [Booking!Next]_<<donations, postings>>
  <2>1. CASE UNCHANGED tables
    BY <2>1 DEF tables, postings
  <2>2. ASSUME NEW d \in Donations, Commit(d) PROVE Booking!Next
    <3>1. /\ d \notin donations
          /\ donations' = donations \cup {d}
          /\ receipts' = donations' /\ journal' = donations'
          /\ raised' = [e \in Donations |-> IF e = d THEN raised[e] + 1 ELSE raised[e]]
          /\ receipts = donations /\ journal = donations
      BY <1>2, <2>2, CommitFacts DEF Booked, Agree
    <3>2. postings' = [p \in Accounts \X Donations |->
                         IF p[1] \in Accounts /\ p[2] = d THEN postings[p] + 1
                                                          ELSE postings[p]]
      BY <3>1 DEF postings, Accounts
    <3>3. Booking!Book(d, Accounts)
      BY <3>1, <3>2, Zenon DEF Booking!Book
    <3> QED
      BY <3>3 DEF Booking!Next
  <2>3. CASE UNCHANGED vars
    BY <2>1, <2>3 DEF vars
  <2> QED
    BY <1>2, <2>1, <2>2, <2>3, NextCases
    DEF PageSteps, Loaded, ShowForm, HideForm, EditAmount, Reload, Submit,
        Thank, Apologise, Insert, UpdateCampaign, Rollback
<1>3. Init => Booked
  BY InitBooked
<1>4. Booked /\ [Next]_vars => Booked'
  BY BookedStep
<1> QED
  BY <1>1, <1>2, <1>3, <1>4, PTL DEF Spec, ImplementsBooking, Booking!Spec

-----------------------------------------------------------------------------
(* The visits. *)

LEMMA InitVisits == ASSUME Init PROVE Visits
<1>1. \A d \in Donations : sender[d] = None
  BY DEF Init
<1>2. \A t \in Tabs : ~tab[t].success
  BY DEF Init, Fresh
<1> QED
  BY <1>1, <1>2, DonationAssumption DEF Visits

(* A step of one tab that sends nothing. *)
LEMMA TabVisits ==
  ASSUME Visits, NEW t \in Tabs, UNCHANGED <<tx, sender, amount>>,
         \A u \in Tabs \ {t} : tab'[u] = tab[u],
         \A d \in Donations : sender[d] = t => Submitted(t, d)',
         tab'[t].success => \E d \in Donations : sender[d] = t /\ pc[d] = "done"
  PROVE  Visits'
<1>1. \A u \in Tabs \ {t}, d \in Donations : Submitted(u, d)' <=> Submitted(u, d)
  BY DEF Submitted, Spent, tx
<1> QED
  BY <1>1 DEF Visits, tx

(* A step of the server moves a transaction on, for good. *)
LEMMA ServerVisits ==
  ASSUME Visits, UNCHANGED <<sender, amount, tab>>,
         \A d \in Donations : /\ pc[d] # "unused" => pc'[d] # "unused"
                              /\ pc[d] = "done" => pc'[d] = "done"
  PROVE  Visits'
PROOF BY DEF Visits, Submitted, Spent

LEMMA VisitFacts ==
  ASSUME Visits, NEW t \in Tabs
  PROVE  /\ \A d \in Donations : sender[d] = t => Submitted(t, d)
         /\ tab[t].success => \E d \in Donations : sender[d] = t /\ pc[d] = "done"
         /\ tab[t].phase = "loading" => \A d \in Donations : sender[d] # t
PROOF BY DEF Visits, Submitted

LEMMA LoadedVisits ==
  ASSUME TypeOK, Visits, NEW t \in Tabs, NEW p \in {"page", "missing"},
         NEW active \in BOOLEAN, Loaded(t, p, active)
  PROVE  Visits'
<1>1. \A d \in Donations : sender[d] # t
  BY VisitFacts DEF Loaded
<1>2. ~tab[t].success
  BY <1>1, VisitFacts
<1>3. tab[t] \in Tab
  BY DEF TypeOK
<1>4. tab'[t].success = tab[t].success
  BY <1>3 DEF Loaded, Set, TypeOK, Tab
<1>5. \A u \in Tabs \ {t} : tab'[u] = tab[u]
  BY DEF Loaded, Set, TypeOK
<1> QED
  BY <1>1, <1>2, <1>4, <1>5, TabVisits DEF Loaded

LEMMA FormVisits ==
  ASSUME TypeOK, Visits, NEW t \in Tabs, ShowForm(t) \/ HideForm(t)
  PROVE  Visits'
<1>1. tab[t] \in Tab
  BY DEF TypeOK
<1>2. /\ tab'[t].phase = tab[t].phase /\ tab'[t].paying = tab[t].paying
      /\ tab'[t].edited = tab[t].edited /\ tab'[t].amount = tab[t].amount
      /\ tab'[t].success = tab[t].success
      /\ tab'[t].form => ~tab[t].success
      /\ \A u \in Tabs \ {t} : tab'[u] = tab[u]
  BY <1>1 DEF ShowForm, HideForm, Set, TypeOK, Tab
<1>3. UNCHANGED <<tx, sender, amount>>
  BY DEF ShowForm, HideForm
<1>4. ASSUME NEW d \in Donations, sender[d] = t PROVE Submitted(t, d)'
  BY <1>2, <1>3, <1>4, VisitFacts DEF Submitted, Spent, tx
<1> QED
  BY <1>2, <1>3, <1>4, VisitFacts, TabVisits

LEMMA EditVisits ==
  ASSUME TypeOK, Visits, NEW t \in Tabs, NEW a \in Amounts, EditAmount(t, a)
  PROVE  Visits'
<1>1. tab[t] \in Tab
  BY DEF TypeOK
<1>2. /\ tab'[t].phase = tab[t].phase /\ tab'[t].paying = tab[t].paying
      /\ tab'[t].form = tab[t].form /\ tab'[t].success = tab[t].success
      /\ \A u \in Tabs \ {t} : tab'[u] = tab[u]
  BY <1>1 DEF EditAmount, Set, TypeOK, Tab
<1>3. tab[t].paying => tab'[t].edited
  BY <1>1 DEF EditAmount, Set, TypeOK, Tab
<1>4. UNCHANGED <<tx, sender, amount>> /\ tab[t].form /\ tab[t].phase = "page"
  BY DEF EditAmount
<1>5. ASSUME NEW d \in Donations, sender[d] = t PROVE Submitted(t, d)'
  BY <1>2, <1>3, <1>4, <1>5, VisitFacts DEF Submitted, Spent, tx
<1> QED
  BY <1>2, <1>4, <1>5, VisitFacts, TabVisits

LEMMA ReloadVisits ==
  ASSUME TypeOK, Visits, NEW t \in Tabs, Reload(t) PROVE Visits'
<1>1. \A d \in Donations : sender'[d] # t
  BY DonationAssumption DEF Reload
<1>2. ~tab'[t].success
  BY DEF Reload, Set, Fresh, TypeOK
<1>3. \A u \in Tabs \ {t} :
        /\ tab'[u] = tab[u]
        /\ \A d \in Donations : sender'[d] = u <=> sender[d] = u
  BY DonationAssumption DEF Reload, Set, TypeOK
<1>4. UNCHANGED <<pc, amount>>
  BY DEF Reload, tx
<1>5. \A u \in Tabs \ {t}, d \in Donations : Submitted(u, d)' <=> Submitted(u, d)
  BY <1>3, <1>4 DEF Submitted, Spent
<1> QED
  BY <1>1, <1>2, <1>3, <1>4, <1>5 DEF Visits

(* A page that may submit has not submitted before. *)
LEMMA SubmitVisits ==
  ASSUME TypeOK, Visits, NEW t \in Tabs, NEW d \in Donations, Submit(t, d)
  PROVE  Visits'
<1>1. tab[t] \in Tab /\ tab[t].amount \in Amounts
  BY DEF TypeOK, Tab
<1>2. \A e \in Donations : sender[e] # t
  BY VisitFacts DEF Submit, Submitted, Spent
<1>3. \A u \in Tabs : sender[d] # u
  BY VisitFacts DEF Submit, Submitted
<1>4. /\ pc'[d] = "insert" /\ sender'[d] = t /\ amount'[d] = tab[t].amount
      /\ \A e \in Donations \ {d} : /\ pc'[e] = pc[e] /\ sender'[e] = sender[e]
                                    /\ amount'[e] = amount[e]
  BY DEF Submit, TypeOK
<1>5. /\ tab'[t].paying /\ tab'[t].phase = "page"
      /\ tab'[t].amount = tab[t].amount /\ tab'[t].success = tab[t].success
      /\ \A u \in Tabs \ {t} : tab'[u] = tab[u]
  BY <1>1 DEF Submit, Set, TypeOK, Tab
<1>6. Submitted(t, d)' /\ ~tab'[t].success
  BY <1>2, <1>4, <1>5, VisitFacts DEF Submitted, Spent
<1>7. \A e \in Donations : sender'[e] = t <=> e = d
  BY <1>2, <1>4
<1>8. ASSUME NEW u \in Tabs \ {t}
      PROVE  /\ \A e \in Donations : sender'[e] = u => Submitted(u, e)'
             /\ \A e, f \in Donations : sender'[e] = u /\ sender'[f] = u => e = f
             /\ tab'[u].success => \E e \in Donations : sender'[e] = u /\ pc'[e] = "done"
  <2>1. \A e \in Donations : sender'[e] = u <=> sender[e] = u
    BY <1>3, <1>4, <1>8
  <2>2. ASSUME NEW e \in Donations, sender[e] = u
        PROVE  (Submitted(u, e)' <=> Submitted(u, e)) /\ pc'[e] = pc[e]
    BY <1>3, <1>4, <1>5, <2>2 DEF Submitted, Spent
  <2> QED
    BY <1>5, <1>8, <2>1, <2>2 DEF Visits
<1> QED
  BY <1>6, <1>7, <1>8 DEF Visits

LEMMA AnswerVisits ==
  ASSUME TypeOK, Visits, NEW d \in Donations, Thank(d) \/ Apologise(d)
  PROVE  Visits'
<1> DEFINE t == sender[d]
<1>1. t \in Tabs /\ \A u \in Tabs \ {t} : tab'[u] = tab[u]
  BY AnswerTypes
<1>2. tab[t] \in Tab
  BY <1>1 DEF TypeOK
<1>3. UNCHANGED <<tx, sender, amount>>
  BY DEF Thank, Apologise
<1>4. /\ tab'[t].edited = tab[t].edited /\ tab'[t].amount = tab[t].amount
      /\ tab'[t].phase \in {tab[t].phase, "missing"}
      /\ \/ tab'[t].success /\ ~tab'[t].form /\ pc[d] = "done"
         \/ tab'[t].phase = "missing" /\ tab'[t].success = tab[t].success
  <2>1. CASE Thank(d)
    <3>1. tab'[t] = [tab[t] EXCEPT !.paying = FALSE, !.success = TRUE, !.form = FALSE]
      BY <1>1, <2>1 DEF Thank, Set, TypeOK
    <3>2. pc[d] = "done"
      BY <2>1 DEF Thank
    <3> QED
      BY <1>2, <3>1, <3>2 DEF Tab
  <2>2. CASE Apologise(d)
    <3>1. tab'[t] = [tab[t] EXCEPT !.paying = FALSE, !.phase = "missing"]
      BY <1>1, <2>2 DEF Apologise, Set, TypeOK
    <3> QED
      BY <1>2, <3>1 DEF Tab
  <2> QED
    BY <2>1, <2>2
<1>5. ASSUME NEW e \in Donations, sender[e] = t PROVE Submitted(t, e)'
  BY <1>1, <1>3, <1>4, <1>5, VisitFacts DEF Submitted, Spent, tx
<1>6. tab'[t].success => \E e \in Donations : sender[e] = t /\ pc[e] = "done"
  BY <1>1, <1>4, VisitFacts
<1> QED
  BY <1>1, <1>3, <1>5, <1>6, TabVisits

LEMMA StatementVisits ==
  ASSUME TypeOK, Visits, NEW d \in Donations,
         Insert(d) \/ UpdateCampaign(d) \/ Commit(d) \/ Rollback(d)
  PROVE  Visits'
<1>1. UNCHANGED <<sender, amount, tab>>
  BY DEF Insert, UpdateCampaign, Commit, Rollback
<1>2. /\ pc[d] \in Open
      /\ \E s \in {"campaign", "commit", "done", "failed"} : pc' = [pc EXCEPT ![d] = s]
  BY DEF Insert, UpdateCampaign, Commit, Rollback, Goto, Open
<1>3. \A e \in Donations : /\ pc[e] # "unused" => pc'[e] # "unused"
                           /\ pc[e] = "done" => pc'[e] = "done"
  BY <1>2 DEF TypeOK, Open
<1> QED
  BY <1>1, <1>3, ServerVisits

LEMMA VisitsStep == ASSUME TypeOK, Visits, [Next]_vars PROVE Visits'
<1>1. CASE UNCHANGED vars
  BY <1>1 DEF vars, tx, Visits, Submitted, Spent
<1>2. ASSUME NEW t \in Tabs, PageSteps(t) PROVE Visits'
  BY <1>2, LoadedVisits, FormVisits, EditVisits, ReloadVisits, SubmitVisits DEF PageSteps
<1> QED
  BY <1>1, <1>2, AnswerVisits, StatementVisits, NextCases

LEMMA Invariance == Spec => []IInv
<1>1. Init => IInv
  BY InitBooked, InitVisits DEF IInv
<1>2. IInv /\ [Next]_vars => IInv'
  BY BookedStep, VisitsStep DEF IInv, Booked
<1> QED
  BY <1>1, <1>2, PTL DEF Spec

(* A visit of the campaign's page books at most one donation, whatever the    *)
(* visitor clicks and however answers are lost or late, and thanks only for   *)
(* a booked one, with its amount unless the field was edited meanwhile.       *)
THEOREM AtMostOneDonation == Spec => []OneDonationPerVisit
<1>1. ASSUME IInv PROVE OneDonationPerVisit
  <2>1. ASSUME NEW t \in Tabs, NEW d \in BookedIn(t), NEW e \in BookedIn(t) PROVE d = e
    BY <1>1, <2>1 DEF IInv, Booked, TypeOK, Visits, BookedIn
  <2>2. ASSUME NEW t \in Tabs, tab[t].success
        PROVE  \E d \in BookedIn(t) : tab[t].edited \/ amount[d] = tab[t].amount
    <3>1. PICK d \in Donations : sender[d] = t /\ pc[d] = "done"
      BY <1>1, <2>2 DEF IInv, Visits
    <3>2. d \in BookedIn(t)
      BY <1>1, <3>1 DEF IInv, Booked, Agree, BookedIn
    <3>3. tab[t].edited \/ amount[d] = tab[t].amount
      BY <1>1, <3>1 DEF IInv, Visits, Submitted
    <3> QED
      BY <3>2, <3>3
  <2> QED
    BY <2>1, <2>2 DEF OneDonationPerVisit
<1> QED
  BY <1>1, Invariance, PTL
=============================================================================
