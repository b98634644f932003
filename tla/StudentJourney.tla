--------------------------- MODULE StudentJourney ---------------------------
(***************************************************************************)
(* A student from registration to the scholarship form: the pages of one    *)
(* tab (src/frontend/src/app), its two wizards, the links between pages,    *)
(* and the server's account creation and onboarding, one statement per      *)
(* step (src/backend/internal: service/auth_service.go,                      *)
(* handler/onboarding.go).  A second tab sends requests of the same student. *)
(* Tokens are reduced to the profile_completed claim; how the tab renews     *)
(* and loses them is the subject of BrowserSession.                          *)
(***************************************************************************)
EXTENDS Naturals, FiniteSets

CONSTANT Faults   \* subset of {"statement", "lost"}

Auth == {"login", "register", "forgot"}
Portal == {"dashboard", "onboarding", "scholarships", "apply"}
Pages == Auth \cup Portal \cup {"home", "missing"}
Status == {"none", "incomplete", "complete"}
Groups == 1 .. 3          \* groups of fields of a wizard
Senders == {"tab", "other"}

VARIABLES
  rows,     \* what the database holds of the account; "done" is users.profile_completed
  req,      \* the request of each tab: [kind, pc, seen]
  session,  \* cookies of the browser: the profile_completed claim of the token
  page,     \* page of the tab
  user,     \* AuthProvider: user, reduced to its profile_completed
  form,     \* register/page.tsx: whether the form satisfies registerSchema
  step,     \* step of the wizard on the page
  valid,    \* onboarding/page.tsx: the groups whose fields satisfy the schema;
            \* apply/page.tsx: the groups whose fields are filled in
  sent,     \* forgot-password/page.tsx: isSubmitted
  torn,     \* history: a statement after the first one of a request failed
  onboarded \* history: how many onboarding requests were answered with success

server == <<rows, torn>>
wizard == <<form, step, valid, sent>>
vars == <<rows, req, session, page, user, form, step, valid, sent, torn, onboarded>>

None == [kind |-> "none", pc |-> "idle", seen |-> "none"]
Kinds == {"none", "register", "google", "login", "onboard"}
PCs == {"idle", "check", "user", "profile", "role", "student", "done", "ok", "error"}
HalfWay == {"profile", "role", "done"}   \* a statement is done, another is due
Rows == {"user", "profile", "role", "student", "done"}

TypeOK ==
  /\ rows \subseteq Rows
  /\ req \in [Senders -> [kind : Kinds, pc : PCs, seen : Status]]
  /\ session \in Status
  /\ page \in Pages
  /\ user \in Status
  /\ form \in BOOLEAN
  /\ step \in 1 .. 4
  /\ valid \subseteq Groups
  /\ sent \in BOOLEAN
  /\ torn \in BOOLEAN
  /\ onboarded \in 0 .. 2

Idle(s) == req[s].kind = "none"
(* Mutant of Completed: the student row is taken for the flag. *)
RowExists == IF "student" \in rows THEN "complete" ELSE "incomplete"

Completed == IF "done" \in rows THEN "complete" ELSE "incomplete"

Init ==
  /\ rows = {}
  /\ req = [s \in Senders |-> None]
  /\ session = "none"
  /\ page = "home"
  /\ user = "none"
  /\ form = FALSE
  /\ step = 1
  /\ valid = {}
  /\ sent = FALSE
  /\ torn = FALSE
  /\ onboarded = 0

-----------------------------------------------------------------------------
(* Pages and links. *)

(* The redirections of the two layouts. *)
Settle(p, u) ==
  CASE p \in Auth /\ u # "none"                            -> IF u = "complete" THEN "dashboard"
                                                              ELSE "onboarding"
    [] p \in Portal /\ u = "none"                          -> "login"
    [] p \in Portal \ {"onboarding"} /\ u = "incomplete"   -> "onboarding"
    [] OTHER                                               -> p

PublicLinks == {"home", "login", "register"}
(* What the sidebar shows a student whose roles it knows. *)
SidebarLinks == {"dashboard", "scholarships"}
(* href="/scholarships", "/housing": no such routes, the pages are under /portal. *)
QuickActions == {"missing"}
CycleLinks == {"missing"}

Links(p) ==
  CASE p = "home"         -> PublicLinks
    [] p = "login"        -> {"forgot", "register"}
    [] p \in {"register", "forgot"} -> {"login"}
    [] p = "dashboard"    -> SidebarLinks \cup QuickActions
    [] p = "scholarships" -> SidebarLinks \cup CycleLinks
    [] p \in {"apply", "onboarding"} -> SidebarLinks
    [] OTHER              -> {}

(* A page that is mounted starts with empty forms, even when the layout      *)
(* takes the tab back to where it was.                                       *)
Mount(p) ==
  /\ page' = p
  /\ form' = FALSE /\ step' = 1 /\ valid' = {} /\ sent' = FALSE

(* The request of a form that is left goes on, and so does what follows it;  *)
(* the tab makes no other one before (overlaps are a subject of              *)
(* BrowserSession).                                                          *)
Follow(p) ==
  /\ p \in Links(page) \ {page}
  /\ Mount(Settle(p, user))
  /\ UNCHANGED <<rows, req, session, user, torn, onboarded>>

(* The address bar: everything is loaded anew, AuthProvider asks for the user, *)
(* and the request in flight is abandoned where it stands: its context ends.  *)
(* A guest's tab is sent to /login, from whatever page, when the 401 and that *)
(* of the refresh have come; until then it shows the page.                    *)
Open(p) ==
  /\ user' = IF session = "none" THEN "none" ELSE Completed
  /\ Mount(Settle(p, user')) \/ (session = "none" /\ Mount("login"))
  /\ req' = [req EXCEPT !["tab"] = None]
  /\ torn' = (torn \/ req["tab"].pc \in HalfWay)
  /\ UNCHANGED <<rows, session, onboarded>>

-----------------------------------------------------------------------------
(* The forms of the visitor. *)

Send(s, kind) == req' = [req EXCEPT ![s] = [kind |-> kind, pc |-> "check", seen |-> "none"]]

EditRegister ==
  /\ page = "register" /\ Idle("tab")
  /\ form' = ~form
  /\ UNCHANGED <<rows, req, session, page, user, step, valid, sent, torn, onboarded>>

(* handleSubmit calls onSubmit only with values that satisfy the schema. *)
SubmitRegister ==
  /\ page = "register" /\ Idle("tab")
  /\ form
  /\ Send("tab", "register")
  /\ UNCHANGED <<rows, session, page, user, wizard, torn, onboarded>>

ClickGoogle ==
  /\ page \in {"login", "register"} /\ Idle("tab")
  /\ Send("tab", "google")
  /\ UNCHANGED <<rows, session, page, user, wizard, torn, onboarded>>

SubmitLogin ==
  /\ page = "login" /\ Idle("tab")
  /\ Send("tab", "login")
  /\ UNCHANGED <<rows, session, page, user, wizard, torn, onboarded>>

(* The answer is always shown as a success, the server does nothing. *)
SubmitForgot ==
  /\ page = "forgot" /\ ~sent
  /\ sent' = TRUE
  /\ UNCHANGED <<rows, req, session, page, user, form, step, valid, torn, onboarded>>

Logout ==
  /\ page \in Portal /\ user # "none" /\ Idle("tab")
  /\ session' = "none"
  /\ user' = "none"
  /\ Mount("login")
  /\ UNCHANGED <<rows, req, torn, onboarded>>

(* A second tab or device of the same student. *)
OtherSends(kind) ==
  /\ Idle("other")
  /\ kind = "onboard" => session # "none"
  /\ kind \in {"register", "google", "onboard"}
  /\ Send("other", kind)
  /\ UNCHANGED <<rows, session, page, user, wizard, torn, onboarded>>

-----------------------------------------------------------------------------
(* The wizards. *)

(* The inputs of a group are on the page in the step of its number. *)
Fill(g, ok) ==
  /\ page = "onboarding" /\ step = g
  /\ valid' = IF ok THEN valid \cup {g} ELSE valid \ {g}
  /\ UNCHANGED <<rows, req, session, page, user, form, step, sent, torn, onboarded>>

(* Mutants of NextStep: the fields are not validated; the last step is out   *)
(* of reach.                                                                 *)
NextStepAnyway ==
  /\ page = "onboarding" /\ step < 4
  /\ step' = step + 1
  /\ UNCHANGED <<rows, req, session, page, user, form, valid, sent, torn, onboarded>>
NextStepShort ==
  /\ page = "onboarding" /\ step < 3
  /\ step \in valid
  /\ step' = step + 1
  /\ UNCHANGED <<rows, req, session, page, user, form, valid, sent, torn, onboarded>>

NextStep ==
  /\ page = "onboarding" /\ step < 4
  /\ step \in valid
  /\ step' = step + 1
  /\ UNCHANGED <<rows, req, session, page, user, form, valid, sent, torn, onboarded>>

(* Mutant of PrevStep: the button is there in the first step as well. *)
PrevStepAlways ==
  /\ page = "onboarding"
  /\ Idle("tab")
  /\ step' = step - 1
  /\ UNCHANGED <<rows, req, session, page, user, form, valid, sent, torn, onboarded>>

PrevStep ==
  /\ page = "onboarding" /\ step > 1
  /\ Idle("tab")
  /\ step' = step - 1
  /\ UNCHANGED <<rows, req, session, page, user, form, valid, sent, torn, onboarded>>

SubmitOnboarding ==
  /\ page = "onboarding" /\ step = 4
  /\ Idle("tab")
  /\ valid = Groups
  /\ Send("tab", "onboard")
  /\ UNCHANGED <<rows, session, page, user, wizard, torn, onboarded>>

(* scholarships/[id]/apply: its fields are in steps of the same kind, and     *)
(* "required" is only an attribute, there is no form to enforce it.  No step  *)
(* is validated ...                                                          *)
FillApplication(g, ok) ==
  /\ page = "apply" /\ step = g
  /\ valid' = IF ok THEN valid \cup {g} ELSE valid \ {g}
  /\ UNCHANGED <<rows, req, session, page, user, form, step, sent, torn, onboarded>>

ApplyStep(n) ==
  /\ page = "apply"
  /\ n \in {step - 1, step + 1} \cap 1 .. 4
  /\ step' = n
  /\ UNCHANGED <<rows, req, session, page, user, form, valid, sent, torn, onboarded>>

(* ... and the submission tells of success without a request. *)
SubmitApplication ==
  /\ page = "apply" /\ step = 4
  /\ Mount("missing")
  /\ UNCHANGED <<rows, req, session, user, torn, onboarded>>

-----------------------------------------------------------------------------
(* The server, one statement per step. *)

Goto(s, pc) == req' = [req EXCEPT ![s].pc = pc]
Elsewhere == UNCHANGED <<session, page, user, wizard, onboarded>>

(* EmailExists, GetByEmail or GetByID. *)
Check(s) ==
  /\ req[s].pc = "check"
  /\ CASE req[s].kind = "register" -> Goto(s, IF "user" \in rows THEN "error" ELSE "user")
       [] req[s].kind = "onboard"  -> Goto(s, IF "done" \in rows THEN "error" ELSE "student")
       [] req[s].kind = "google"   ->
            req' = [req EXCEPT ![s].pc = IF "user" \in rows THEN "ok" ELSE "user",
                               ![s].seen = Completed]
       [] req[s].kind = "login"    ->
            req' = [req EXCEPT ![s].pc = IF "user" \in rows THEN "ok" ELSE "error",
                               ![s].seen = Completed]
  /\ UNCHANGED <<server>> /\ Elsewhere

(* users.email is unique. *)
InsertUser(s) ==
  /\ req[s].pc = "user"
  /\ IF "user" \in rows
       THEN Goto(s, "error") /\ UNCHANGED rows
       ELSE /\ req' = [req EXCEPT ![s].pc = "profile", ![s].seen = "incomplete"]
            /\ rows' = rows \cup {"user"}
  /\ UNCHANGED torn /\ Elsewhere

(* Mutant of InsertProfile: the answer goes out before the role is assigned. *)
InsertProfileOnly(s) ==
  /\ req[s].pc = "profile"
  /\ rows' = rows \cup {"profile"}
  /\ Goto(s, "ok")
  /\ UNCHANGED torn /\ Elsewhere

InsertProfile(s) ==
  /\ req[s].pc = "profile"
  /\ rows' = rows \cup {"profile"}
  /\ Goto(s, "role")
  /\ UNCHANGED torn /\ Elsewhere

AssignRole(s) ==
  /\ req[s].pc = "role"
  /\ rows' = rows \cup {"role"}
  /\ Goto(s, "ok")
  /\ UNCHANGED torn /\ Elsewhere

(* Mutants of CreateStudentProfile: the answer goes out before the flag is    *)
(* set; an upsert.                                                           *)
InsertStudentOnly(s) ==
  /\ req[s].pc = "student"
  /\ IF "student" \in rows
       THEN Goto(s, "error") /\ UNCHANGED rows
       ELSE Goto(s, "ok") /\ rows' = rows \cup {"student"}
  /\ UNCHANGED torn /\ Elsewhere
UpsertStudentProfile(s) ==
  /\ req[s].pc = "student"
  /\ rows' = rows \cup {"student"}
  /\ Goto(s, "done")
  /\ UNCHANGED torn /\ Elsewhere

(* student_profiles has one row per user. *)
CreateStudentProfile(s) ==
  /\ req[s].pc = "student"
  /\ IF "student" \in rows
       THEN Goto(s, "error") /\ UNCHANGED rows
       ELSE Goto(s, "done") /\ rows' = rows \cup {"student"}
  /\ UNCHANGED torn /\ Elsewhere

SetProfileCompleted(s) ==
  /\ req[s].pc = "done"
  /\ rows' = rows \cup {"done"}
  /\ Goto(s, "ok")
  /\ UNCHANGED torn /\ Elsewhere

(* A statement fails or the request dies.  Registration goes on without a     *)
(* role; Google's goes on without role and profile.                           *)
FailStatement(s) ==
  /\ "statement" \in Faults
  /\ req[s].pc \in {"check", "user", "profile", "role", "student", "done"}
  /\ Goto(s, CASE req[s].pc = "role" -> "ok"
               [] req[s].pc = "profile" /\ req[s].kind = "google" -> "role"
               [] OTHER -> "error")
  /\ torn' = (torn \/ req[s].pc \in HalfWay)
  /\ UNCHANGED rows /\ Elsewhere

Statement(s) ==
  \/ Check(s) \/ InsertUser(s) \/ InsertProfile(s) \/ AssignRole(s)
  \/ CreateStudentProfile(s) \/ SetProfileCompleted(s)

(* POST /auth/refresh reads the user again. *)
RenewToken ==
  /\ session # "none"
  /\ session' = Completed
  /\ UNCHANGED <<rows, req, page, user, wizard, torn, onboarded>>

-----------------------------------------------------------------------------
(* Answers. *)

(* setUser and router.push("/portal"); the portal's layout sends an incomplete *)
(* profile on to the wizard.                                                   *)
SignedIn ==
  /\ req["tab"].kind \in {"register", "google", "login"} /\ req["tab"].pc = "ok"
  /\ req' = [req EXCEPT !["tab"] = None]
  /\ session' = req["tab"].seen
  /\ user' = req["tab"].seen
  /\ Mount(Settle("dashboard", user'))
  /\ UNCHANGED <<rows, torn, onboarded>>

(* refreshUser, then router.push("/").  When GET /users/me fails the user is  *)
(* dropped and the portal's layout pushes /login.                             *)
Onboarded ==
  /\ req["tab"].kind = "onboard" /\ req["tab"].pc = "ok"
  /\ req' = [req EXCEPT !["tab"] = None]
  /\ onboarded' = onboarded + 1
  /\ \/ user' = Completed /\ Mount("home")
     \/ /\ "lost" \in Faults
        /\ user' = "none"
        /\ \E p \in {"home", "login"} : Mount(p)
  /\ UNCHANGED <<rows, session, torn>>

(* An error message ... *)
Refused ==
  /\ req["tab"].pc = "error"
  /\ req' = [req EXCEPT !["tab"] = None]
  /\ UNCHANGED <<rows, session, page, user, wizard, torn, onboarded>>

(* ... or an answer that never comes. *)
LoseAnswer ==
  /\ "lost" \in Faults
  /\ req["tab"].pc = "ok"
  /\ req' = [req EXCEPT !["tab"] = None]
  /\ UNCHANGED <<rows, session, page, user, wizard, torn, onboarded>>

OtherAnswered ==
  /\ req["other"].pc \in {"ok", "error"}
  /\ req' = [req EXCEPT !["other"] = None]
  /\ onboarded' = onboarded + (IF req["other"].kind = "onboard" /\ req["other"].pc = "ok"
                               THEN 1 ELSE 0)
  /\ UNCHANGED <<rows, session, page, user, wizard, torn>>

-----------------------------------------------------------------------------
(* What a student who has signed in may do instead of going on. *)
Wander ==
  \/ \E p \in Pages : Follow(p) \/ Open(p)
  \/ Logout
  \/ PrevStep
  \/ \E g \in Groups : Fill(g, FALSE)

Trouble == LoseAnswer \/ \E s \in Senders : FailStatement(s)

Next ==
  \/ Wander
  \/ Trouble
  \/ EditRegister \/ SubmitRegister \/ ClickGoogle \/ SubmitLogin \/ SubmitForgot
  \/ \E kind \in Kinds : OtherSends(kind)
  \/ \E g \in Groups : Fill(g, TRUE)
  \/ NextStep \/ SubmitOnboarding
  \/ \E g \in Groups, ok \in BOOLEAN : FillApplication(g, ok)
  \/ \E n \in 1 .. 4 : ApplyStep(n)
  \/ SubmitApplication
  \/ \E s \in Senders : Statement(s)
  \/ RenewToken
  \/ SignedIn \/ Onboarded \/ Refused \/ OtherAnswered

Spec == Init /\ [][Next]_vars
(* Handlers run on and answers arrive; a student on the wizard goes on. *)
FairSpec ==
  /\ Spec
  /\ \A s \in Senders : WF_vars(Statement(s))
  /\ WF_vars(SignedIn) /\ WF_vars(Onboarded) /\ WF_vars(Refused) /\ WF_vars(OtherAnswered)
  /\ \A g \in Groups : WF_vars(Fill(g, TRUE))
  /\ WF_vars(NextStep) /\ WF_vars(SubmitOnboarding)

-----------------------------------------------------------------------------
(* Onboarding only (the application form validates nothing): going back and  *)
(* forth, or leaving and returning, never leaves an invalid group behind.    *)
(* The review step, which has no inputs, never stands for a form that        *)
(* handleSubmit would refuse without a visible error.                        *)
WizardComplete ==
  page = "onboarding" => \A g \in Groups : g < step => g \in valid

(* A completed profile exists: no token, no answer and no page says complete *)
(* before both statements of the handler are through, whichever tab sent it. *)
CompletionIsTrue ==
  /\ "complete" \in {session, user} => "done" \in rows
  /\ "done" \in rows => {"user", "student"} \subseteq rows

(* Who is signed in has a profile and the student role, unless a statement   *)
(* failed or the other tab's registration is still under way.                *)
NoHalfAccounts ==
  session # "none" /\ ~torn /\ (\A s \in Senders : req[s].pc \notin {"profile", "role"})
    => {"user", "profile", "role"} \subseteq rows

(* However many tabs submit, one of them is told that it completed the       *)
(* profile (student_profiles has one row per user).                          *)
OnboardedOnce == onboarded + Cardinality({s \in Senders : req[s].kind = "onboard"
                                                         /\ req[s].pc = "ok"}) <= 1

(* The row was inserted and nobody is about to set the flag: every further   *)
(* submission fails on the primary key of student_profiles.                  *)
DeadEnd == "student" \in rows /\ "done" \notin rows /\ \A s \in Senders : req[s].pc # "done"

(* Only a statement that failed or a request abandoned between the two leads  *)
(* there: tabs that submit the wizard at once never do.                       *)
DeadEndByFailure == DeadEnd => torn

(* And nothing leads out of it: no further submission of the wizard, from no  *)
(* tab and after no new sign-in, sets the flag.                               *)
DeadEndIsFinal == [][DeadEnd => DeadEnd']_vars

(* A student who stays on the wizard and goes on completes the profile, once  *)
(* nothing fails any more; the only dead end of the pages and the server is a *)
(* student row without the flag.                                             *)
EveryStudentGetsThrough ==
  <>[][~Wander /\ ~Trouble]_vars =>
    ([]<>(page = "onboarding" /\ user = "incomplete") => <>("done" \in rows \/ DeadEnd))
=============================================================================
