------------------------ MODULE StudentJourneyProofs ------------------------
(* Theorems about StudentJourney, whatever statements fail and whatever       *)
(* answers are lost.                                                         *)
EXTENDS StudentJourney, FiniteSetTheorems, TLAPS

Req == [kind : Kinds, pc : PCs, seen : Status]

Types ==
  /\ rows \subseteq Rows
  /\ req \in [Senders -> Req]
  /\ session \in Status /\ user \in Status
  /\ page \in Pages
  /\ form \in BOOLEAN /\ sent \in BOOLEAN
  /\ step \in 1 .. 4 /\ valid \subseteq Groups
  /\ torn \in BOOLEAN
  /\ onboarded \in Nat

(* Whoever has cookies or is shown a page of the portal has an account. *)
Known ==
  /\ session # "none" \/ user # "none" => "user" \in rows
  /\ page \in Portal => user # "none"

(* A request runs the statements of its kind in their order. *)
InOrder(s) ==
  /\ req[s].kind = "none" <=> req[s].pc = "idle"
  /\ req[s].pc \in {"user", "profile", "role"} => req[s].kind \in {"register", "google"}
  /\ req[s].pc \in {"student", "done"} => req[s].kind = "onboard"
  /\ req[s].pc \in {"profile", "role", "ok"} \/ req[s].kind = "onboard" => "user" \in rows
  /\ req[s].pc = "done" => "student" \in rows
  /\ req[s].seen = "complete" => "done" \in rows
Ordered == \A s \in Senders : InOrder(s)

(* Between the first and the last statement of a registration its request is  *)
(* under way, unless one of them failed.                                     *)
UnderWay(P) == \E s \in Senders : req[s].pc \in P
Halves ==
  ~torn /\ "user" \in rows =>
    /\ "profile" \in rows \/ UnderWay({"profile"})
    /\ "role" \in rows \/ UnderWay({"profile", "role"})

(* One row of student_profiles, one completion. *)
Completing(s) == IF req[s].kind = "onboard" /\ req[s].pc \in {"done", "ok"} THEN 1 ELSE 0
Once == onboarded + Completing("tab") + Completing("other")
          <= IF "student" \in rows THEN 1 ELSE 0

IInv ==
  /\ Types
  /\ WizardComplete
  /\ Known
  /\ Ordered
  /\ CompletionIsTrue
  /\ Halves
  /\ Once

LEMMA InitInv == ASSUME Init PROVE IInv
<1>1. Types
  <2>1. None \in Req
    BY DEF None, Req, Kinds, PCs, Status
  <2>2. "none" \in Status /\ "home" \in Pages
    BY DEF Status, Pages
  <2>3. req \in [Senders -> Req] /\ rows \subseteq Rows /\ valid \subseteq Groups
    BY <2>1 DEF Init
  <2>4. form \in BOOLEAN /\ sent \in BOOLEAN /\ torn \in BOOLEAN
    BY DEF Init
  <2>5. step \in 1 .. 4 /\ onboarded \in Nat
    BY DEF Init
  <2>6. session \in Status /\ user \in Status /\ page \in Pages
    BY <2>2 DEF Init
  <2> QED
    BY <2>3, <2>4, <2>5, <2>6 DEF Types
<1>2. WizardComplete /\ Known /\ CompletionIsTrue /\ Halves
  BY DEF Init, WizardComplete, Known, Portal, CompletionIsTrue, Halves
<1>3. Ordered
  BY DEF Init, Ordered, InOrder, None
<1>4. Once
  BY DEF Init, Once, Completing, None, Senders
<1> QED
  BY <1>1, <1>2, <1>3, <1>4 DEF IInv

-----------------------------------------------------------------------------
(* The steps of Next by what they touch. *)

Account == <<rows, req, session, user, torn, onboarded>>

PageStep ==
  \/ \E p \in Pages : Follow(p)
  \/ EditRegister \/ SubmitForgot
  \/ \E g \in Groups, ok \in BOOLEAN : Fill(g, ok) \/ FillApplication(g, ok)
  \/ NextStep \/ PrevStep
  \/ \E n \in 1 .. 4 : ApplyStep(n)
  \/ SubmitApplication

SendStep ==
  \/ SubmitRegister \/ ClickGoogle \/ SubmitLogin \/ SubmitOnboarding
  \/ \E kind \in Kinds : OtherSends(kind)

LEMMA NextCases ==
  ASSUME Next
  PROVE  \/ PageStep \/ SendStep
         \/ \E p \in Pages : Open(p)
         \/ Logout \/ RenewToken \/ SignedIn \/ Onboarded
         \/ Refused \/ LoseAnswer \/ OtherAnswered
         \/ \E s \in Senders : Statement(s)
         \/ \E s \in Senders : FailStatement(s)
PROOF BY DEF Next, Wander, Trouble, PageStep, SendStep

(* A page is mounted where the layouts settle. *)
LEMMA Settles ==
  ASSUME NEW p \in Pages, NEW u \in Status
  PROVE  /\ Settle(p, u) \in Pages
         /\ Settle(p, u) \in Portal => u # "none"
PROOF BY DEF Settle, Pages, Auth, Portal, Status

LEMMA Mounted ==
  ASSUME NEW p \in Pages, Mount(p)
  PROVE  /\ page' = p /\ form' \in BOOLEAN /\ sent' \in BOOLEAN
         /\ step' \in 1 .. 4 /\ valid' \subseteq Groups
         /\ WizardComplete'
<1>1. /\ page' = p /\ step' = 1 /\ valid' = {} /\ form' \in BOOLEAN /\ sent' \in BOOLEAN
  BY DEF Mount
<1>2. \A g \in Groups : ~(g < 1)
  BY DEF Groups
<1> QED
  BY <1>1, <1>2 DEF WizardComplete

-----------------------------------------------------------------------------
(* Pages. *)

LEMMA PageStepFacts ==
  ASSUME IInv, PageStep
  PROVE  /\ UNCHANGED Account
         /\ page' \in Pages /\ form' \in BOOLEAN /\ sent' \in BOOLEAN
         /\ step' \in 1 .. 4 /\ valid' \subseteq Groups
         /\ page' \in Portal => user # "none"
         /\ WizardComplete'
<1> USE DEF IInv, Types, Account
<1>1. ASSUME NEW p \in Pages, Follow(p) PROVE Mount(Settle(p, user)) /\ UNCHANGED Account
  BY <1>1 DEF Follow
<1>2. CASE \E p \in Pages : Follow(p)
  BY <1>1, <1>2, Settles, Mounted
<1>3. CASE SubmitApplication
  BY <1>3, Mounted DEF SubmitApplication, Pages, Portal
<1>4. CASE EditRegister \/ SubmitForgot
  <2>1. /\ UNCHANGED Account /\ UNCHANGED <<page, step, valid>>
        /\ form' \in BOOLEAN /\ sent' \in BOOLEAN
    BY <1>4 DEF EditRegister, SubmitForgot
  <2> QED
    BY <2>1 DEF Known, WizardComplete
<1>5. CASE \E g \in Groups, ok \in BOOLEAN : Fill(g, ok) \/ FillApplication(g, ok)
  <2>1. PICK g \in Groups, ok \in BOOLEAN : Fill(g, ok) \/ FillApplication(g, ok)
    BY <1>5
  <2>2. /\ UNCHANGED Account /\ UNCHANGED <<page, step, form, sent>>
        /\ step = g /\ valid' \in {valid \cup {g}, valid \ {g}}
    BY <2>1 DEF Fill, FillApplication
  <2>3. \A h \in Groups : h < g => h # g
    BY DEF Groups
  <2> QED
    BY <2>2, <2>3 DEF Known, WizardComplete
<1>6. CASE NextStep \/ PrevStep
  <2>1. /\ UNCHANGED Account /\ UNCHANGED <<page, valid, form, sent>>
        /\ step' \in 1 .. 4
        /\ \/ step' = step - 1
           \/ step' = step + 1 /\ step \in valid
    BY <1>6 DEF NextStep, PrevStep
  <2>2. \A g \in Groups : g < step' => g < step \/ (g = step /\ step \in valid)
    BY <2>1 DEF Groups
  <2> QED
    BY <2>1, <2>2 DEF Known, WizardComplete
<1>7. CASE \E n \in 1 .. 4 : ApplyStep(n)
  BY <1>7 DEF ApplyStep, Known, WizardComplete
<1> QED
  BY <1>2, <1>3, <1>4, <1>5, <1>6, <1>7 DEF PageStep

LEMMA PageStepInv == ASSUME IInv, PageStep PROVE IInv'
<1>1. UNCHANGED Account /\ WizardComplete'
  BY PageStepFacts
<1>2. Types' /\ Known'
  BY PageStepFacts DEF IInv, Types, Known, Account
<1>3. Ordered' /\ CompletionIsTrue' /\ Halves' /\ Once'
  BY <1>1 DEF IInv, Account, Ordered, InOrder, CompletionIsTrue, Halves, UnderWay,
              Once, Completing
<1> QED
  BY <1>1, <1>2, <1>3 DEF IInv

-----------------------------------------------------------------------------
(* Requests and answers: what a step may do to the account. *)

(* The database and the requests change as one of the steps below describes;  *)
(* then it remains to look at the tab.                                       *)
Server == Ordered /\ Halves /\ Once /\ ("done" \in rows => {"user", "student"} \subseteq rows)

LEMMA TabInv ==
  ASSUME IInv, Server', rows \subseteq rows', rows' \subseteq Rows,
         req' \in [Senders -> Req], torn' \in BOOLEAN, onboarded' \in Nat,
         session' \in Status, user' \in Status,
         session' = session \/ session' = "none" \/ "user" \in rows',
         user' = user \/ user' = "none" \/ "user" \in rows',
         session' = "complete" => session = "complete" \/ "done" \in rows',
         user' = "complete" => user = "complete" \/ "done" \in rows',
         \/ UNCHANGED <<page, form, step, valid, sent, user>>
         \/ \E p \in Pages : Mount(Settle(p, user'))
         \/ \E p \in Pages \ Portal : Mount(p)
  PROVE  IInv'
<1> USE DEF IInv
<1>1. CASE UNCHANGED <<page, form, step, valid, sent, user>>
  BY <1>1 DEF Types, Known, WizardComplete, CompletionIsTrue, Server
<1>2. ASSUME NEW p \in Pages, Mount(p), p \in Portal => user' # "none" PROVE IInv'
  <2>1. page' = p /\ form' \in BOOLEAN /\ sent' \in BOOLEAN
        /\ step' \in 1 .. 4 /\ valid' \subseteq Groups /\ WizardComplete'
    BY <1>2, Mounted
  <2>2. Types' /\ Known'
    BY <1>2, <2>1 DEF Types, Known
  <2> QED
    BY <2>1, <2>2 DEF CompletionIsTrue, Server
<1> QED
  BY <1>1, <1>2, Settles

(* A request begins. *)
LEMMA SendServer ==
  ASSUME IInv, NEW s \in Senders, NEW kind \in Kinds \ {"none"}, Idle(s), Send(s, kind),
         kind = "onboard" => "user" \in rows, UNCHANGED <<rows, torn, onboarded>>
  PROVE  Server' /\ req' \in [Senders -> Req]
<1> USE DEF IInv
<1>1. /\ req' \in [Senders -> Req]
      /\ req[s].pc = "idle"
      /\ req'[s].kind = kind /\ req'[s].pc = "check" /\ req'[s].seen = "none"
      /\ \A q \in Senders \ {s} : req'[q] = req[q]
  BY DEF Send, Types, Req, PCs, Status, Kinds, Idle, Ordered, InOrder
<1>2. Ordered'
  BY <1>1 DEF Ordered, InOrder
<1>3. Halves'
  <2>1. \A P \in {{"profile"}, {"profile", "role"}} : UnderWay(P) => UnderWay(P)'
    BY <1>1 DEF UnderWay
  <2> QED
    BY <2>1 DEF Halves
<1>4. Once'
  BY <1>1 DEF Once, Completing, Senders
<1> QED
  BY <1>1, <1>2, <1>3, <1>4 DEF Server, CompletionIsTrue

LEMMA SendInv == ASSUME IInv, SendStep PROVE IInv'
<1>1. PICK s \in Senders, kind \in Kinds \ {"none"} :
        /\ Idle(s) /\ Send(s, kind)
        /\ kind = "onboard" => "user" \in rows
  <2>1. CASE \E k \in Kinds : OtherSends(k)
    BY <2>1 DEF OtherSends, Senders, Kinds, IInv, Known, Types, Status
  <2>2. CASE SubmitOnboarding
    BY <2>2 DEF SubmitOnboarding, Senders, Kinds, IInv, Known, Types, Portal
  <2> QED
    BY <2>1, <2>2 DEF SendStep, SubmitRegister, ClickGoogle, SubmitLogin, Senders, Kinds
<1>2. UNCHANGED <<rows, session, page, user, wizard, torn, onboarded>>
  BY DEF SendStep, SubmitRegister, ClickGoogle, SubmitLogin, SubmitOnboarding, OtherSends
<1>3. Server' /\ req' \in [Senders -> Req]
  BY <1>1, <1>2, SendServer
<1> QED
  BY <1>2, <1>3, TabInv DEF IInv, Types, wizard

(* A request ends, answered or abandoned: torn is set if it was between its   *)
(* statements, and a completion is counted at most once.                     *)
LEMMA EndServer ==
  ASSUME IInv, NEW s \in Senders, req' = [req EXCEPT ![s] = None], UNCHANGED rows,
         torn' \in BOOLEAN, torn => torn',
         req[s].pc \in HalfWay => torn',
         onboarded' \in {onboarded, onboarded + Completing(s)}
  PROVE  /\ Server' /\ req' \in [Senders -> Req] /\ onboarded' \in Nat
<1> USE DEF IInv
<1>1. /\ req' \in [Senders -> Req]
      /\ req'[s] = None
      /\ \A q \in Senders \ {s} : req'[q] = req[q]
  BY DEF Types, Req, None, Kinds, PCs, Status
<1>2. Ordered'
  BY <1>1 DEF Ordered, InOrder, None
<1>3. Halves'
  <2>1. CASE torn'
    BY <2>1 DEF Halves
  <2>2. CASE ~torn'
    <3>1. \A P \in {{"profile"}, {"profile", "role"}} : UnderWay(P) => UnderWay(P)'
      BY <1>1, <2>2 DEF UnderWay, HalfWay
    <3> QED
      BY <2>2, <3>1 DEF Halves, Types
  <2> QED
    BY <2>1, <2>2
<1>4. Completing(s) \in {0, 1} /\ Completing(s)' = 0
  BY <1>1 DEF Completing, None
<1>5. \A q \in Senders \ {s} : Completing(q)' = Completing(q) /\ Completing(q) \in {0, 1}
  BY <1>1 DEF Completing
<1>6. onboarded' \in Nat /\ Once'
  BY <1>4, <1>5 DEF Once, Senders, Types
<1> QED
  BY <1>1, <1>2, <1>3, <1>6 DEF Server, CompletionIsTrue

LEMMA CompletedFacts ==
  /\ Completed \in Status /\ Completed # "none"
  /\ Completed = "complete" <=> "done" \in rows
PROOF BY DEF Completed, Status

LEMMA OpenInv == ASSUME IInv, NEW p \in Pages, Open(p) PROVE IInv'
<1> USE DEF IInv
<1>0. "login" \in Pages \ Portal
  BY DEF Pages, Auth, Portal
<1>1. Server' /\ req' \in [Senders -> Req] /\ torn' \in BOOLEAN /\ onboarded' \in Nat
  BY EndServer DEF Open, Types, Senders, HalfWay
<1>2. /\ user' \in Status
      /\ user' = "none" \/ "user" \in rows
      /\ user' = "complete" => "done" \in rows
  BY CompletedFacts DEF Open, Known, Types, Status
<1> QED
  BY <1>0, <1>1, <1>2, TabInv DEF Open, Types

LEMMA LogoutInv == ASSUME IInv, Logout PROVE IInv'
<1> USE DEF IInv
<1>1. Server'
  BY DEF Logout, Server, Ordered, InOrder, Halves, UnderWay, Once, Completing,
         CompletionIsTrue
<1>2. "login" \in Pages \ Portal /\ "none" \in Status
  BY DEF Pages, Auth, Portal, Status
<1> QED
  BY <1>1, <1>2, TabInv DEF Logout, Types

LEMMA RenewInv == ASSUME IInv, RenewToken PROVE IInv'
<1> USE DEF IInv
<1>1. Server'
  BY DEF RenewToken, Server, Ordered, InOrder, Halves, UnderWay, Once, Completing,
         CompletionIsTrue
<1>2. "user" \in rows
  BY DEF RenewToken, Known, Types
<1> QED
  BY <1>1, <1>2, CompletedFacts, TabInv DEF RenewToken, Types, wizard

LEMMA SignedInInv == ASSUME IInv, SignedIn PROVE IInv'
<1> USE DEF IInv
<1>0. "tab" \in Senders /\ "dashboard" \in Pages
  BY DEF Senders, Pages, Portal
<1>1. Server' /\ req' \in [Senders -> Req] /\ torn' \in BOOLEAN /\ onboarded' \in Nat
  BY <1>0, EndServer DEF SignedIn, Types, HalfWay
<1>2. /\ "user" \in rows
      /\ req["tab"].seen \in Status
      /\ req["tab"].seen = "complete" => "done" \in rows
  BY <1>0 DEF SignedIn, Ordered, InOrder, Types, Req
<1> QED
  BY <1>0, <1>1, <1>2, TabInv DEF SignedIn, Types

LEMMA OnboardedInv == ASSUME IInv, Onboarded PROVE IInv'
<1> USE DEF IInv
<1>0. "tab" \in Senders /\ {"home", "login"} \subseteq Pages \ Portal /\ "none" \in Status
  BY DEF Senders, Pages, Auth, Portal, Status
<1>1. Completing("tab") = 1
  BY DEF Onboarded, Completing
<1>2. Server' /\ req' \in [Senders -> Req] /\ torn' \in BOOLEAN /\ onboarded' \in Nat
  BY <1>0, <1>1, EndServer DEF Onboarded, Types, HalfWay
<1>3. "user" \in rows
  BY <1>0 DEF Onboarded, Ordered, InOrder
<1> QED
  BY <1>0, <1>2, <1>3, CompletedFacts, TabInv DEF Onboarded, Types

LEMMA DropInv == ASSUME IInv, Refused \/ LoseAnswer PROVE IInv'
<1> USE DEF IInv
<1>1. "tab" \in Senders
  BY DEF Senders
<1>2. Server' /\ req' \in [Senders -> Req] /\ torn' \in BOOLEAN /\ onboarded' \in Nat
  BY <1>1, EndServer DEF Refused, LoseAnswer, Types, HalfWay
<1> QED
  BY <1>2, TabInv DEF Refused, LoseAnswer, Types, wizard

LEMMA OtherAnsweredInv == ASSUME IInv, OtherAnswered PROVE IInv'
<1> USE DEF IInv
<1>1. "other" \in Senders
  BY DEF Senders
<1>2. onboarded' \in {onboarded, onboarded + Completing("other")}
  BY DEF OtherAnswered, Completing, Types
<1>3. Server' /\ req' \in [Senders -> Req] /\ torn' \in BOOLEAN /\ onboarded' \in Nat
  BY <1>1, <1>2, EndServer DEF OtherAnswered, Types, HalfWay
<1> QED
  BY <1>3, TabInv DEF OtherAnswered, Types, wizard

-----------------------------------------------------------------------------
(* Statements. *)

(* One request moves on, and the rows grow. *)
Moves(s) ==
  /\ rows \subseteq rows' /\ rows' \subseteq Rows
  /\ req' \in [Senders -> Req]
  /\ \A q \in Senders \ {s} : req'[q] = req[q]
  /\ req'[s].kind = req[s].kind
  /\ req[s].pc \notin {"idle", "ok", "error"} /\ req'[s].pc # "idle"
  /\ torn' \in BOOLEAN /\ (torn => torn')
  /\ Elsewhere

LEMMA MoveInv ==
  ASSUME IInv, NEW s \in Senders, Moves(s), InOrder(s)',
         Halves', Once', "done" \in rows' => {"user", "student"} \subseteq rows'
  PROVE  IInv'
<1>1. Ordered'
  <2>1. ASSUME NEW q \in Senders \ {s} PROVE InOrder(q)'
    BY <2>1 DEF IInv, Ordered, InOrder, Moves
  <2> QED
    BY <2>1 DEF Ordered
<1>2. Server'
  BY <1>1 DEF Server
<1> QED
  BY <1>2, TabInv DEF Moves, Elsewhere, IInv, Types, wizard

LEMMA GotoFacts ==
  ASSUME IInv, NEW s \in Senders, NEW to \in PCs, Goto(s, to)
  PROVE  /\ req' \in [Senders -> Req]
         /\ req'[s].kind = req[s].kind /\ req'[s].pc = to /\ req'[s].seen = req[s].seen
         /\ \A q \in Senders \ {s} : req'[q] = req[q]
PROOF BY DEF IInv, Types, Goto, Req

(* A step that is not one of a registration's keeps what is under way. *)
LEMMA HalvesKept ==
  ASSUME IInv, NEW s \in Senders, Moves(s), req[s].pc \notin {"profile", "role"},
         "user" \in rows' => "user" \in rows
  PROVE  Halves'
<1>1. \A P \in {{"profile"}, {"profile", "role"}} : UnderWay(P) => UnderWay(P)'
  BY DEF UnderWay, Moves
<1> QED
  BY <1>1 DEF Halves, Moves, IInv, Types

(* A step that completes nothing. *)
LEMMA OnceKept ==
  ASSUME IInv, NEW s \in Senders, Moves(s), Completing(s)' <= Completing(s)
  PROVE  Once'
<1>1. \A q \in Senders \ {s} : Completing(q)' = Completing(q)
  BY DEF Moves, Completing
<1>2. \A q \in Senders : Completing(q) \in {0, 1} /\ Completing(q)' \in {0, 1}
  BY DEF Completing
<1>3. onboarded' = onboarded /\ onboarded \in Nat
  BY DEF Moves, Elsewhere, IInv, Types
<1> QED
  BY <1>1, <1>2, <1>3 DEF Once, Senders, IInv, Moves

LEMMA CheckInv == ASSUME IInv, NEW s \in Senders, Check(s) PROVE IInv'
<1> USE DEF IInv
<1>1. /\ UNCHANGED <<rows, torn>> /\ Elsewhere /\ req[s].pc = "check"
      /\ req[s].kind \in {"register", "onboard", "google", "login"}
  BY DEF Check, server, Types, Req, Kinds, Ordered, InOrder
<1>2. /\ req' \in [Senders -> Req]
      /\ req'[s].kind = req[s].kind
      /\ \A q \in Senders \ {s} : req'[q] = req[q]
      /\ req'[s].pc \in {"error", "user", "student", "ok"}
      /\ req'[s].pc = "user" => req[s].kind \in {"register", "google"}
      /\ req'[s].pc = "student" => req[s].kind = "onboard"
      /\ req'[s].pc = "ok" => req[s].kind \in {"google", "login"} /\ "user" \in rows
      /\ req'[s].seen \in {req[s].seen, Completed}
  <2>1. CASE req[s].kind \in {"register", "onboard"}
    BY <1>1, <2>1, GotoFacts DEF Check, PCs
  <2>2. CASE req[s].kind \in {"google", "login"}
    <3>1. PICK pc \in {"ok", "user", "error"} :
            /\ req' = [req EXCEPT ![s].pc = pc, ![s].seen = Completed]
            /\ pc = "user" => req[s].kind = "google"
            /\ pc = "ok" => "user" \in rows
      BY <2>2 DEF Check
    <3>2. /\ req' \in [Senders -> Req]
          /\ req'[s].kind = req[s].kind /\ req'[s].pc = pc /\ req'[s].seen = Completed
          /\ \A q \in Senders \ {s} : req'[q] = req[q]
      BY <3>1, CompletedFacts DEF PCs, Types, Req
    <3> QED
      BY <2>2, <3>1, <3>2
  <2> QED
    BY <1>1, <2>1, <2>2
<1>3. Moves(s)
  BY <1>1, <1>2 DEF Moves, Types
<1>4. InOrder(s)'
  BY <1>1, <1>2, CompletedFacts DEF InOrder, Ordered
<1>5. Halves' /\ Once'
  BY <1>1, <1>2, <1>3, HalvesKept, OnceKept DEF Completing
<1> QED
  BY <1>1, <1>3, <1>4, <1>5, MoveInv DEF CompletionIsTrue

LEMMA InsertUserInv == ASSUME IInv, NEW s \in Senders, InsertUser(s) PROVE IInv'
<1> USE DEF IInv
<1>1. CASE "user" \in rows
  <2>1. Moves(s) /\ req[s].pc = "user" /\ req'[s].pc = "error" /\ rows' = rows
        /\ req'[s].seen = req[s].seen
    BY <1>1, GotoFacts DEF InsertUser, PCs, Moves, Types
  <2>2. InOrder(s)' /\ Halves' /\ Once'
    BY <2>1, HalvesKept, OnceKept DEF InOrder, Ordered, Completing, Moves
  <2> QED
    BY <2>1, <2>2, MoveInv DEF CompletionIsTrue
<1>2. CASE "user" \notin rows
  <2>1. /\ req[s].pc = "user" /\ req'[s].pc = "profile" /\ req'[s].seen = "incomplete"
        /\ rows' = rows \cup {"user"} /\ Moves(s)
    BY <1>2 DEF InsertUser, Moves, Types, Req, PCs, Status, Rows
  <2>2. InOrder(s)'
    BY <2>1 DEF InOrder, Ordered, Moves
  <2>3. Halves'
    BY <2>1 DEF Halves, UnderWay
  <2>4. Once'
    BY <2>1, OnceKept DEF Completing
  <2> QED
    BY <2>1, <2>2, <2>3, <2>4, MoveInv DEF CompletionIsTrue
<1> QED
  BY <1>1, <1>2

LEMMA InsertProfileInv == ASSUME IInv, NEW s \in Senders, InsertProfile(s) PROVE IInv'
<1> USE DEF IInv
<1>1. /\ req[s].pc = "profile" /\ req'[s].pc = "role" /\ req'[s].seen = req[s].seen
      /\ rows' = rows \cup {"profile"} /\ Moves(s)
  BY GotoFacts DEF InsertProfile, PCs, Moves, Types, Rows
<1>2. InOrder(s)'
  BY <1>1 DEF InOrder, Ordered, Moves
<1>3. Halves'
  BY <1>1 DEF Halves, UnderWay
<1>4. Once'
  BY <1>1, OnceKept DEF Completing
<1> QED
  BY <1>1, <1>2, <1>3, <1>4, MoveInv DEF CompletionIsTrue

LEMMA AssignRoleInv == ASSUME IInv, NEW s \in Senders, AssignRole(s) PROVE IInv'
<1> USE DEF IInv
<1>1. /\ req[s].pc = "role" /\ req'[s].pc = "ok" /\ req'[s].seen = req[s].seen
      /\ rows' = rows \cup {"role"} /\ Moves(s) /\ torn' = torn
  BY GotoFacts DEF AssignRole, PCs, Moves, Types, Rows
<1>2. InOrder(s)'
  BY <1>1 DEF InOrder, Ordered, Moves
<1>3. UnderWay({"profile"}) => UnderWay({"profile"})'
  BY <1>1 DEF UnderWay, Moves
<1>4. Halves'
  BY <1>1, <1>3 DEF Halves
<1>5. Once'
  <2>1. req[s].kind # "onboard"
    BY <1>1 DEF Ordered, InOrder
  <2> QED
    BY <1>1, <2>1, OnceKept DEF Completing, Moves
<1> QED
  BY <1>1, <1>2, <1>4, <1>5, MoveInv DEF CompletionIsTrue

LEMMA StudentInv == ASSUME IInv, NEW s \in Senders, CreateStudentProfile(s) PROVE IInv'
<1> USE DEF IInv
<1>1. req[s].pc = "student" /\ req[s].kind = "onboard" /\ "user" \in rows
  BY DEF CreateStudentProfile, Ordered, InOrder
<1>2. CASE "student" \in rows
  <2>1. Moves(s) /\ req'[s].pc = "error" /\ rows' = rows /\ req'[s].seen = req[s].seen
    BY <1>1, <1>2, GotoFacts DEF CreateStudentProfile, PCs, Moves, Types
  <2>2. InOrder(s)' /\ Halves' /\ Once'
    BY <1>1, <2>1, HalvesKept, OnceKept DEF InOrder, Ordered, Completing, Moves
  <2> QED
    BY <2>1, <2>2, MoveInv DEF CompletionIsTrue
<1>3. CASE "student" \notin rows
  <2>1. /\ Moves(s) /\ req'[s].pc = "done" /\ req'[s].seen = req[s].seen
        /\ rows' = rows \cup {"student"}
    BY <1>1, <1>3, GotoFacts DEF CreateStudentProfile, PCs, Moves, Types, Rows
  <2>2. InOrder(s)'
    BY <1>1, <2>1 DEF InOrder, Ordered, Moves
  <2>3. Halves'
    BY <1>1, <2>1, HalvesKept
  <2>4. \A q \in Senders : Completing(q) \in {0, 1} /\ Completing(q)' \in {0, 1}
    BY DEF Completing
  <2>5. \A q \in Senders \ {s} : Completing(q)' = Completing(q)
    BY <2>1 DEF Completing, Moves
  <2>6. onboarded' = onboarded /\ onboarded \in Nat
    BY <2>1 DEF Moves, Elsewhere, Types
  <2>7. Once'
    BY <1>3, <2>1, <2>4, <2>5, <2>6 DEF Once, Senders
  <2> QED
    BY <1>1, <2>1, <2>2, <2>3, <2>7, MoveInv DEF CompletionIsTrue
<1> QED
  BY <1>2, <1>3

LEMMA DoneInv == ASSUME IInv, NEW s \in Senders, SetProfileCompleted(s) PROVE IInv'
<1> USE DEF IInv
<1>1. req[s].pc = "done" /\ req[s].kind = "onboard" /\ {"user", "student"} \subseteq rows
  BY DEF SetProfileCompleted, Ordered, InOrder
<1>2. /\ Moves(s) /\ req'[s].pc = "ok" /\ req'[s].seen = req[s].seen
      /\ rows' = rows \cup {"done"}
  BY <1>1, GotoFacts DEF SetProfileCompleted, PCs, Moves, Types, Rows
<1>3. InOrder(s)'
  BY <1>1, <1>2 DEF InOrder, Ordered, Moves
<1>4. Halves' /\ Once'
  BY <1>1, <1>2, HalvesKept, OnceKept DEF Completing, Moves
<1> QED
  BY <1>1, <1>2, <1>3, <1>4, MoveInv DEF CompletionIsTrue

LEMMA FailInv == ASSUME IInv, NEW s \in Senders, FailStatement(s) PROVE IInv'
<1> USE DEF IInv
<1>1. /\ Moves(s) /\ rows' = rows /\ req'[s].seen = req[s].seen
      /\ req'[s].pc \in {"ok", "role", "error"}
      /\ req'[s].pc \in {"ok", "role"} => req[s].pc \in {"profile", "role"}
      /\ req[s].pc \in HalfWay => torn'
  BY GotoFacts DEF FailStatement, PCs, Moves, Types, HalfWay
<1>2. InOrder(s)'
  BY <1>1 DEF InOrder, Ordered, Moves
<1>3. Halves'
  <2>1. CASE req[s].pc \in {"profile", "role"}
    BY <1>1, <2>1 DEF Halves, HalfWay
  <2>2. CASE req[s].pc \notin {"profile", "role"}
    BY <1>1, <2>2, HalvesKept
  <2> QED
    BY <2>1, <2>2
<1>4. Once'
  BY <1>1, OnceKept DEF Completing, Moves, Ordered, InOrder
<1> QED
  BY <1>1, <1>2, <1>3, <1>4, MoveInv DEF CompletionIsTrue

LEMMA InvStep == ASSUME IInv, [Next]_vars PROVE IInv'
<1>1. CASE UNCHANGED vars
  BY <1>1 DEF vars, IInv, Types, WizardComplete, Known, Ordered, InOrder,
              CompletionIsTrue, Halves, UnderWay, Once, Completing
<1>2. ASSUME NEW s \in Senders, Statement(s) PROVE IInv'
  BY <1>2, CheckInv, InsertUserInv, InsertProfileInv, AssignRoleInv, StudentInv, DoneInv
  DEF Statement
<1> QED
  BY <1>1, <1>2, NextCases, PageStepInv, SendInv, OpenInv, LogoutInv, RenewInv,
     SignedInInv, OnboardedInv, DropInv, OtherAnsweredInv, FailInv

LEMMA Invariance == Spec => []IInv
PROOF BY InitInv, InvStep, PTL DEF Spec

-----------------------------------------------------------------------------
LEMMA OneCompletion == ASSUME IInv PROVE OnboardedOnce /\ onboarded \in 0 .. 1
<1> DEFINE S == {s \in Senders : req[s].kind = "onboard" /\ req[s].pc = "ok"}
<1>1. onboarded \in Nat /\ onboarded + Completing("tab") + Completing("other") <= 1
  BY DEF IInv, Types, Once, Completing
<1>2. \A s \in Senders : Completing(s) \in {0, 1} /\ (s \in S => Completing(s) = 1)
  BY DEF Completing
<1>3. onboarded \in 0 .. 1
  BY <1>1, <1>2 DEF Senders
<1>4. CASE S = {}
  <2>1. Cardinality(S) = 0
    BY <1>4, FS_EmptySet
  <2> QED
    BY <1>3, <2>1 DEF OnboardedOnce
<1>5. ASSUME NEW s \in S PROVE OnboardedOnce
  <2>1. S = {s} /\ onboarded = 0
    BY <1>1, <1>2, <1>5 DEF Senders
  <2>2. Cardinality(S) = 1
    BY <2>1, FS_Singleton
  <2> QED
    BY <2>1, <2>2 DEF OnboardedOnce
<1> QED
  BY <1>3, <1>4, <1>5

(* Type correctness: every reachable state of pages, requests and rows is     *)
(* well typed; in particular the wizard never leaves its four steps.         *)
THEOREM TypeCorrectness == Spec => []TypeOK
<1>1. IInv => TypeOK
  BY OneCompletion DEF IInv, Types, TypeOK, Req
<1> QED
  BY <1>1, Invariance, PTL

(* Whatever the student clicks, no group before the step shown of the         *)
(* onboarding wizard is invalid.                                             *)
THEOREM WizardSound == Spec => []WizardComplete
<1>1. IInv => WizardComplete
  BY DEF IInv
<1> QED
  BY <1>1, Invariance, PTL

(* Cookies and pages never tell of a profile that is not complete.            *)
THEOREM CompletionSound == Spec => []CompletionIsTrue
<1>1. IInv => CompletionIsTrue
  BY DEF IInv
<1> QED
  BY <1>1, Invariance, PTL

(* An account without profile or role comes of a failed statement only.       *)
THEOREM AccountsAreWhole == Spec => []NoHalfAccounts
<1>1. IInv => NoHalfAccounts
  BY DEF IInv, NoHalfAccounts, Halves, UnderWay, Known, Types
<1> QED
  BY <1>1, Invariance, PTL

(* Of all submissions of all tabs one is told that it completed the profile.  *)
THEOREM CompletedOnce == Spec => []OnboardedOnce
<1>1. IInv => OnboardedOnce
  BY OneCompletion
<1> QED
  BY <1>1, Invariance, PTL

-----------------------------------------------------------------------------
(* The dead end of the two onboarding statements. *)

(* A student row without the flag is a handler between its statements, unless *)
(* one of them failed.                                                       *)
HalfDone == ~torn /\ "student" \in rows => "done" \in rows \/ UnderWay({"done"})

(* A step that inserts no student row and takes no handler from its second    *)
(* statement.                                                                *)
LEMMA HalfDoneKept ==
  ASSUME HalfDone, torn \in BOOLEAN, torn => torn', rows \subseteq rows',
         "student" \in rows' => "student" \in rows,
         \/ torn'
         \/ \A q \in Senders : req[q].pc = "done" => req'[q].pc = "done"
  PROVE  HalfDone'
PROOF BY DEF HalfDone, UnderWay

(* No step but a statement touches the rows or a handler at work, unless the  *)
(* request is abandoned.                                                     *)
LEMMA OutsideStatements ==
  ASSUME IInv, [Next]_vars, ~\E s \in Senders : Statement(s) \/ FailStatement(s)
  PROVE  /\ rows' = rows /\ (torn => torn')
         /\ \/ torn'
            \/ \A q \in Senders : req[q].pc = "done" => req'[q].pc = "done"
         /\ \A q \in Senders : req'[q].pc = "done" => req[q].pc = "done"
<1> USE DEF IInv
<1>1. ASSUME NEW s \in Senders, NEW r \in {"idle", "check"}, NEW k, NEW n,
             req' = [req EXCEPT ![s] = [kind |-> k, pc |-> r, seen |-> n]]
      PROVE  /\ req'[s].pc \notin {"done"}
             /\ \A q \in Senders \ {s} : req'[q] = req[q]
  BY <1>1 DEF Types
<1>2. CASE UNCHANGED <<rows, req, torn>>
  BY <1>2
<1>3. CASE SendStep
  <2>1. UNCHANGED <<rows, torn>>
    BY <1>3 DEF SendStep, SubmitRegister, ClickGoogle, SubmitLogin, SubmitOnboarding,
                OtherSends
  <2>2. PICK s \in Senders, kind \in Kinds : Idle(s) /\ Send(s, kind)
    BY <1>3 DEF SendStep, SubmitRegister, ClickGoogle, SubmitLogin, SubmitOnboarding,
                OtherSends, Senders, Kinds
  <2>3. req[s].pc = "idle"
    BY <2>2 DEF Idle, Ordered, InOrder
  <2> QED
    BY <1>1, <2>1, <2>2, <2>3 DEF Send
<1>4. ASSUME NEW p \in Pages, Open(p)
      PROVE  /\ UNCHANGED rows /\ torn' = (torn \/ req["tab"].pc \in HalfWay)
             /\ req' = [req EXCEPT !["tab"] = None]
  BY <1>4 DEF Open
<1>5. ASSUME NEW s \in Senders, req[s].pc # "done", UNCHANGED <<rows, torn>>,
             req' = [req EXCEPT ![s] = None]
      PROVE  /\ rows' = rows /\ (torn => torn')
             /\ \A q \in Senders : req[q].pc = "done" => req'[q].pc = "done"
             /\ \A q \in Senders : req'[q].pc = "done" => req[q].pc = "done"
  BY <1>1, <1>5 DEF None
<1>6. CASE SignedIn \/ Onboarded \/ Refused \/ LoseAnswer
  <2>1. /\ req["tab"].pc # "done" /\ UNCHANGED <<rows, torn>>
        /\ req' = [req EXCEPT !["tab"] = None]
    BY <1>6 DEF SignedIn, Onboarded, Refused, LoseAnswer
  <2> QED
    BY <1>5, <2>1 DEF Senders
<1>7. CASE OtherAnswered
  BY <1>5, <1>7 DEF OtherAnswered, Senders
<1>8. CASE \E p \in Pages : Open(p)
  BY <1>1, <1>4, <1>8 DEF None, Senders, HalfWay
<1>9. CASE UNCHANGED vars \/ PageStep \/ Logout \/ RenewToken
  <2>1. UNCHANGED <<rows, req, torn>>
    BY <1>9, PageStepFacts DEF vars, Account, Logout, RenewToken
  <2> QED
    BY <1>2, <2>1
<1> QED
  BY <1>3, <1>6, <1>7, <1>8, <1>9, NextCases

(* Statement by statement. *)
LEMMA StatementFacts ==
  ASSUME IInv, NEW s \in Senders, Statement(s)
  PROVE  /\ UNCHANGED torn /\ rows \subseteq rows'
         /\ \A q \in Senders \ {s} : req'[q] = req[q]
         /\ \/ /\ req[s].pc # "done" /\ req'[s].pc # "done"
               /\ "student" \in rows' => "student" \in rows
               /\ "done" \in rows' => "done" \in rows
            \/ "student" \notin rows /\ req'[s].pc = "done"
            \/ req[s].pc = "done" /\ "done" \in rows'
<1> USE DEF IInv
<1>1. CASE Check(s)
  <2>1. /\ \A q \in Senders \ {s} : req'[q] = req[q]
        /\ req'[s].pc # "done"
    <3>1. PICK pc \in PCs \ {"done"}, n \in Status :
            req' = [req EXCEPT ![s].pc = pc, ![s].seen = n]
      <4>1. CASE req[s].kind \in {"register", "onboard"}
        <5>1. PICK pc \in PCs \ {"done"} : Goto(s, pc)
          BY <1>1, <4>1 DEF Check, PCs
        <5>2. req' = [req EXCEPT ![s].pc = pc, ![s].seen = req[s].seen]
          BY <5>1 DEF Goto, Types, Req
        <5> QED
          BY <5>2 DEF Types, Req
      <4>2. CASE req[s].kind \in {"google", "login"}
        BY <1>1, <4>2, CompletedFacts DEF Check, PCs
      <4> QED
        BY <1>1, <4>1, <4>2 DEF Check, Types, Req, Kinds, Ordered, InOrder
    <3> QED
      BY <3>1 DEF Types, Req
  <2> QED
    BY <1>1, <2>1 DEF Check, server
<1>2. CASE InsertUser(s)
  <2>1. CASE "user" \in rows
    BY <1>2, <2>1, GotoFacts DEF InsertUser, PCs
  <2>2. CASE "user" \notin rows
    <3>1. /\ req' = [req EXCEPT ![s].pc = "profile", ![s].seen = "incomplete"]
          /\ rows' = rows \cup {"user"} /\ UNCHANGED torn /\ req[s].pc = "user"
      BY <1>2, <2>2 DEF InsertUser
    <3> QED
      BY <3>1 DEF Types, Req
  <2> QED
    BY <2>1, <2>2
<1>3. CASE InsertProfile(s) \/ AssignRole(s)
  BY <1>3, GotoFacts DEF InsertProfile, AssignRole, PCs
<1>4. CASE CreateStudentProfile(s)
  BY <1>4, GotoFacts DEF CreateStudentProfile, PCs
<1>5. CASE SetProfileCompleted(s)
  BY <1>5, GotoFacts DEF SetProfileCompleted, PCs
<1> QED
  BY <1>1, <1>2, <1>3, <1>4, <1>5 DEF Statement

LEMMA FailFacts ==
  ASSUME IInv, NEW s \in Senders, FailStatement(s)
  PROVE  /\ UNCHANGED rows /\ (torn => torn')
         /\ \A q \in Senders \ {s} : req'[q] = req[q]
         /\ req'[s].pc # "done"
         /\ req[s].pc = "done" => torn'
PROOF BY GotoFacts DEF FailStatement, PCs, HalfWay

LEMMA HalfDoneStep == ASSUME IInv, HalfDone, [Next]_vars PROVE HalfDone'
<1>0. torn \in BOOLEAN
  BY DEF IInv, Types
<1>1. ASSUME NEW s \in Senders, Statement(s) PROVE HalfDone'
  <2>1. /\ UNCHANGED torn /\ rows \subseteq rows'
        /\ \A q \in Senders \ {s} : req'[q] = req[q]
        /\ \/ /\ req[s].pc # "done" /\ req'[s].pc # "done"
              /\ "student" \in rows' => "student" \in rows
              /\ "done" \in rows' => "done" \in rows
           \/ "student" \notin rows /\ req'[s].pc = "done"
           \/ req[s].pc = "done" /\ "done" \in rows'
    BY <1>1, StatementFacts
  <2>2. CASE "student" \notin rows /\ req'[s].pc = "done"
    BY <2>2 DEF HalfDone, UnderWay
  <2>3. CASE req[s].pc = "done" /\ "done" \in rows'
    BY <2>3 DEF HalfDone
  <2>4. CASE req[s].pc # "done" /\ ("student" \in rows' => "student" \in rows)
    BY <2>1, <2>4 DEF HalfDone, UnderWay
  <2> QED
    BY <2>1, <2>2, <2>3, <2>4
<1>2. ASSUME NEW s \in Senders, FailStatement(s) PROVE HalfDone'
  BY <1>0, <1>2, FailFacts, HalfDoneKept
<1>3. CASE ~\E s \in Senders : Statement(s) \/ FailStatement(s)
  BY <1>0, <1>3, OutsideStatements, HalfDoneKept
<1> QED
  BY <1>1, <1>2, <1>3

(* Only a failed statement or an abandoned request leads to the dead end:     *)
(* two tabs that submit the wizard at once never do, in whatever order their  *)
(* statements run.                                                           *)
THEOREM DeadEndNeedsFailure == Spec => []DeadEndByFailure
<1>1. Init => HalfDone
  BY DEF Init, HalfDone
<1>2. IInv /\ HalfDone /\ [Next]_vars => HalfDone'
  BY HalfDoneStep
<1>3. HalfDone => DeadEndByFailure
  BY DEF HalfDone, DeadEnd, DeadEndByFailure, UnderWay
<1> QED
  BY <1>1, <1>2, <1>3, Invariance, PTL DEF Spec

(* And nothing leads out of it: no retry, no other tab, no new sign-in ever   *)
(* completes the profile of a student whose flag was not set.                 *)
THEOREM DeadEndIsForGood == Spec => DeadEndIsFinal
<1>1. ASSUME IInv, [Next]_vars, DeadEnd PROVE DeadEnd'
  <2>1. ASSUME NEW s \in Senders, Statement(s) PROVE DeadEnd'
    <3>1. /\ UNCHANGED torn /\ rows \subseteq rows'
          /\ \A q \in Senders \ {s} : req'[q] = req[q]
          /\ \/ /\ req[s].pc # "done" /\ req'[s].pc # "done"
                /\ "student" \in rows' => "student" \in rows
                /\ "done" \in rows' => "done" \in rows
             \/ "student" \notin rows /\ req'[s].pc = "done"
             \/ req[s].pc = "done" /\ "done" \in rows'
      BY <1>1, <2>1, StatementFacts
    <3> QED
      BY <1>1, <3>1 DEF DeadEnd
  <2>2. ASSUME NEW s \in Senders, FailStatement(s) PROVE DeadEnd'
    BY <1>1, <2>2, FailFacts DEF DeadEnd
  <2>3. CASE ~\E s \in Senders : Statement(s) \/ FailStatement(s)
    BY <1>1, <2>3, OutsideStatements DEF DeadEnd
  <2> QED
    BY <2>1, <2>2, <2>3
<1> QED
  BY <1>1, Invariance, PTL DEF Spec, DeadEndIsFinal
=============================================================================
