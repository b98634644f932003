--------------------------- MODULE BrowserSession ---------------------------
(***************************************************************************)
(* One browser tab of the frontend: the axios client with its refreshing   *)
(* interceptor (src/frontend/src/lib/api-client.ts), the AuthProvider that  *)
(* wraps every page, the layouts that redirect, the login page and the      *)
(* logout button; and the server's answers, cookies included.               *)
(*                                                                         *)
(* A call is a slot: "me" is GET /users/me, "login", "google" and "logout"  *)
(* are the requests of those names, DataCalls are the requests of pages.    *)
(* An access token is represented by the user it names, since any number    *)
(* of requests may use it; a refresh token is used once and has an          *)
(* identity.  An answer is computed in one step and arrives in a later      *)
(* one, and its cookies are stored when it arrives.  The interleaving of    *)
(* the server's statements is the subject of AuthSessions.                  *)
(***************************************************************************)
EXTENDS FiniteSets, Naturals

CONSTANTS
  Users,      \* accounts that this browser signs in with
  Tokens,     \* names of refresh tokens
  DataCalls,  \* requests that a page of the portal may have in flight
  Pages,      \* pages the tab may show: "login", "portal" and perhaps "public"
  None,       \* no cookie, no user
  Spent,      \* server: a token that was exchanged otherwise, or never issued
  Unheard,    \* server: an exchanged token the answer to whose exchange the tab never had
  Ended,      \* server: a token that was revoked
  Faults      \* subset of {"lost", "revoke", "reload", "overlap"}

SignIns == {"login", "google"}
Calls == DataCalls \cup SignIns \cup {"me", "logout"}

Dead == {Spent, Unheard, Ended}
ASSUME NoneAssumption == None \notin Users \cup Tokens \cup Dead
ASSUME TokAssumption == Spent \notin {Unheard, Ended} /\ Dead \cap Users = {}
ASSUME PagesAssumption == {"login", "portal"} \subseteq Pages
ASSUME CallsAssumption == DataCalls \cap (SignIns \cup {"me", "logout"}) = {}

VARIABLES
  tok,         \* server: the user of a live refresh token, else how it died
  jar,         \* the two cookies: [at: whose access token, rt: refresh token]
  page,        \* page of the tab
  user,        \* AuthProvider: user
  isLoading,   \* AuthProvider: isLoading
  isRefreshing,\* api-client: isRefreshing
  call,        \* the requests of the tab
  owner,       \* history: user of the cookies stored last
  crossed,     \* history: a sign-in overlapped a request that stores a user or cookies
  quiet        \* history: signed out with nothing in flight that could sign in again

history == <<owner, crossed, quiet>>
tab == <<page, user, isLoading, isRefreshing>>
vars == <<tok, jar, page, user, isLoading, isRefreshing, call,
          owner, crossed, quiet>>

States == {"idle", "sent", "ok", "denied",
           "queued", "refreshing", "refreshed", "refused"}

Idle == [st |-> "idle", at |-> None, again |-> FALSE,
         rt |-> None, who |-> None, set |-> None]
NoCookies == [at |-> None, rt |-> None]

TypeOK ==
  /\ tok \in [Tokens -> Users \cup Dead]
  /\ jar \in [at : Users \cup {None}, rt : Tokens \cup {None}]
  /\ page \in Pages
  /\ user \in Users \cup {None}
  /\ isLoading \in BOOLEAN
  /\ isRefreshing \in BOOLEAN
  /\ call \in [Calls -> [st : States, at : Users \cup {None}, again : BOOLEAN,
                         rt : Tokens \cup {None}, who : Users \cup {None},
                         set : Tokens \cup {None}]]
  /\ owner \in Users \cup {None}
  /\ crossed \in BOOLEAN
  /\ quiet \in BOOLEAN

-----------------------------------------------------------------------------
(* Requests and pages. *)

(* The request goes out with the access cookie of the moment; without one    *)
(* JWTAuth answers 401, which is certain already.  A sign-in needs none.     *)
Sent(at, again) == [Idle EXCEPT !.st = IF at = None THEN "denied" ELSE "sent",
                                !.at = at, !.again = again]
Submitted == [Idle EXCEPT !.st = "sent"]
Refreshing == [Idle EXCEPT !.st = "refreshing", !.rt = jar.rt, !.again = TRUE]
Waiting == {c \in Calls : call[c].st \in {"refreshing", "refreshed", "refused"}}
InFlight(c) == call[c].st # "idle"

(* middleware.ts: /portal needs an access cookie, live or not. *)
Middleware(p) == IF p = "portal" /\ jar'.at = None THEN "login" ELSE p

(* Where the effects of the two layouts take a page, given what AuthProvider *)
(* says.  A redirection of the middleware ends there: the login layout is    *)
(* mounted already and its effect does not run again.                        *)
Settle(p, u, loading) ==
  CASE p = "login" /\ ~loading /\ u # None  -> Middleware("portal")
    [] p = "portal" /\ ~loading /\ u = None -> "login"
    [] OTHER                                -> p

Show(p, u) ==
  /\ user' = u
  /\ isLoading' = FALSE
  /\ page' = Settle(p, u, FALSE)

(* Tokens that neither a cookie nor a request carries are never seen again:  *)
(* their names are free.                                                     *)
Held(tk) == [t \in Tokens |->
               IF t = jar'.rt \/ \E c \in Calls : t \in {call'[c].rt, call'[c].set}
                 THEN tk[t] ELSE Spent]

(* The server has exchanged t, the answer is on its way. *)
Awaited(c, t) == call[c].st = "refreshed" /\ call[c].rt = t

(* When the calls C are given up, the cookie keeps the token of a refresh    *)
(* among them: exchanged already, or exchanged by the server afterwards if   *)
(* it still gets to it.                                                      *)
AfterGivingUp(C) ==
  LET exchanged == {t \in Tokens : \E c \in C : Awaited(c, t)}
      pending == {t \in Tokens : /\ tok[t] \in Users
                                 /\ \E c \in C : call[c].st = "refreshing" /\ call[c].rt = t}
  IN  {[t \in Tokens |-> IF t \in exchanged \cup late THEN Unheard ELSE tok[t]] :
         late \in SUBSET pending}

(* A full load: module state is new, the requests of the old page are        *)
(* abandoned with their answers, AuthProvider fetches the user.              *)
Load(p) ==
  /\ page' = Middleware(p)
  /\ user' = None
  /\ isLoading' = TRUE
  /\ isRefreshing' = FALSE
  /\ call' = [c \in Calls |-> IF c = "me" THEN Sent(jar'.at, FALSE) ELSE Idle]
  /\ crossed' = FALSE
  /\ quiet' = FALSE
  /\ \E tk \in AfterGivingUp(Calls) : tok' = Held(tk)

Init ==
  /\ tok = [t \in Tokens |-> Spent]
  /\ jar = NoCookies
  /\ page \in Pages \ {"portal"}
  /\ user = None
  /\ isLoading = TRUE
  /\ isRefreshing = FALSE
  /\ call = [c \in Calls |-> IF c = "me" THEN Sent(None, FALSE) ELSE Idle]
  /\ owner = None
  /\ crossed = FALSE
  /\ quiet = FALSE

-----------------------------------------------------------------------------
(* The user. *)

(* A link, a bookmark or the reload button. *)
Reload(p) ==
  /\ "reload" \in Faults
  /\ UNCHANGED <<jar, owner>>
  /\ Load(p)

(* A <Link>: the page changes, the tab keeps its state. *)
Navigate(p) ==
  /\ p # page
  /\ UNCHANGED jar
  /\ page' = Settle(Middleware(p), user, isLoading)
  /\ UNCHANGED <<tok, user, isLoading, isRefreshing, call, history>>

Fetch(c) ==
  /\ c \in DataCalls
  /\ page = "portal" /\ ~isLoading
  /\ ~InFlight(c) /\ ~InFlight("me")
  /\ call' = [call EXCEPT ![c] = Sent(jar.at, FALSE)]
  /\ UNCHANGED <<tok, jar, tab, history>>

(* onboarding/page.tsx: refreshUser once the profile is submitted; that page *)
(* makes no other request.                                                   *)
RefreshUser ==
  /\ page = "portal" /\ ~isLoading
  /\ \A c \in DataCalls \cup {"me"} : ~InFlight(c)
  /\ call' = [call EXCEPT !["me"] = Sent(jar.at, FALSE)]
  /\ crossed' = (crossed \/ \E c \in SignIns : InFlight(c))
  /\ quiet' = FALSE
  /\ UNCHANGED <<tok, jar, tab, owner>>

(* What a sign-in may overlap: another one, a refresh, the user's own fetch. *)
Overlaps(c) == \E d \in Calls \ {c} : \/ d \in SignIns \cup {"me", "logout"} /\ InFlight(d)
                                      \/ d \in Waiting

SubmitLogin ==
  /\ page = "login"
  /\ ~InFlight("login")
  /\ InFlight("google") => "overlap" \in Faults
  /\ call' = [call EXCEPT !["login"] = Submitted]
  /\ crossed' = (crossed \/ Overlaps("login"))
  /\ quiet' = FALSE
  /\ UNCHANGED <<tok, jar, tab, owner>>

(* The button is disabled during an e-mail login, the reverse does not hold. *)
(* Google's popup and the request with its token are one period in flight.   *)
ClickGoogle ==
  /\ page = "login"
  /\ ~InFlight("login") /\ ~InFlight("google")
  /\ call' = [call EXCEPT !["google"] = Submitted]
  /\ crossed' = (crossed \/ Overlaps("google"))
  /\ quiet' = FALSE
  /\ UNCHANGED <<tok, jar, tab, owner>>

ClosePopup ==
  /\ call["google"].st = "sent"
  /\ call' = [call EXCEPT !["google"] = Idle]
  /\ UNCHANGED <<tok, jar, tab, history>>

ClickLogout ==
  /\ page = "portal" /\ user # None
  /\ ~InFlight("logout")
  /\ call' = [call EXCEPT !["logout"] = Sent(jar.at, FALSE)]
  /\ UNCHANGED <<tok, jar, tab, history>>

-----------------------------------------------------------------------------
(* The server. *)

(* A name that no cookie, no request and no answer carries. *)
Fresh(t) ==
  /\ t # jar.rt
  /\ \A c \in Calls : t # call[c].rt /\ t # call[c].set

Answer(c, result) == call' = [call EXCEPT ![c] = result]
Denied(c) == [Idle EXCEPT !.st = "denied", !.again = call[c].again]
Granted(u, t) == [Idle EXCEPT !.st = "ok", !.who = u, !.set = t]
Revoked(u) == [t \in Tokens |-> IF tok[t] = u THEN Ended ELSE tok[t]]

(* JWTAuth, then the handler: the token has expired on the way, or the       *)
(* handler runs.  The data of a page change nothing here and arrive at once.  *)
Serve(c) ==
  /\ c \notin SignIns
  /\ call[c].st = "sent"
  /\ \/ Answer(c, Denied(c)) /\ UNCHANGED tok
     \/ /\ Answer(c, IF c \in DataCalls THEN Idle ELSE Granted(call[c].at, None))
        /\ tok' = IF c = "logout" THEN Revoked(call[c].at) ELSE tok
  /\ UNCHANGED <<jar, tab, owner, crossed, quiet>>

(* Right or wrong credentials; a token pair goes with the right ones. *)
ServeSignIn(c) ==
  /\ c \in SignIns
  /\ call[c].st = "sent"
  /\ \/ Answer(c, Denied(c)) /\ UNCHANGED tok
     \/ \E u \in Users, t \in Tokens :
          /\ Fresh(t)
          /\ Answer(c, Granted(u, t))
          /\ tok' = [tok EXCEPT ![t] = u]
  /\ UNCHANGED <<jar, tab, owner, crossed, quiet>>

(* The handler of POST /auth/refresh: without a cookie 400, with a token that *)
(* is not live 401, otherwise a new pair.                                     *)
ServeRefresh(c) ==
  /\ call[c].st = "refreshing"
  /\ IF call[c].rt = None \/ tok[call[c].rt] \notin Users
       THEN /\ Answer(c, [call[c] EXCEPT !.st = "refused"])
            /\ UNCHANGED tok
       ELSE \E t \in Tokens :
              /\ Fresh(t)
              /\ Answer(c, [call[c] EXCEPT !.st = "refreshed", !.set = t,
                                           !.who = tok[call[c].rt]])
              /\ tok' = [tok EXCEPT ![t] = tok[call[c].rt], ![call[c].rt] = Spent]
  /\ UNCHANGED <<jar, tab, owner, crossed, quiet>>

(* An administrator, another device's logout, this tab's logout that was     *)
(* given up, or the end of the seven days.                                   *)
RevokeAll(u) ==
  /\ "revoke" \in Faults
  /\ \E t \in Tokens : tok[t] = u
  /\ tok' = Revoked(u)
  /\ UNCHANGED <<jar, tab, call, owner, crossed, quiet>>

(* Fifteen minutes are over: the access cookie disappears from the jar. *)
ExpireCookie ==
  /\ jar.at # None
  /\ jar' = [jar EXCEPT !.at = None]
  /\ UNCHANGED <<tok, tab, call, history>>

-----------------------------------------------------------------------------
(* Answers arrive. *)

(* Mutant of Store: the answer to a refresh renews the access cookie only. *)
StoreAccess(c) ==
  /\ jar' = [at |-> call[c].who, rt |-> IF jar.rt = None THEN call[c].set ELSE jar.rt]
  /\ owner' = call[c].who

(* Mutant of Store: the two cookies swapped. *)
StoreSwapped(c) ==
  /\ jar' = [at |-> call[c].set, rt |-> call[c].who]
  /\ owner' = call[c].who

Store(c) ==
  /\ jar' = [at |-> call[c].who, rt |-> call[c].set]
  /\ owner' = call[c].who

(* The promise of call c rejects. *)
Rejects(c) ==
  /\ UNCHANGED <<jar, isRefreshing, history>>
  /\ call' = [call EXCEPT ![c] = Idle]
  /\ tok' = Held(tok)
  /\ CASE c = "me"     -> Show(page, None)
       [] c = "logout" -> user' = None /\ page' = "login" /\ UNCHANGED isLoading
       [] OTHER        -> UNCHANGED <<page, user, isLoading>>

DeliverMe ==
  /\ call["me"].st = "ok"
  /\ call' = [call EXCEPT !["me"] = Idle]
  /\ UNCHANGED jar
  /\ Show(page, call["me"].who)
  /\ UNCHANGED <<tok, isRefreshing, history>>

(* Mutant of DeliverSignIn: a user that is set already is kept. *)
DeliverSignInKeep(c) ==
  /\ c \in SignIns /\ call[c].st = "ok"
  /\ Store(c)
  /\ call' = [call EXCEPT ![c] = Idle]
  /\ user' = IF user = None THEN call[c].who ELSE user
  /\ page' = "portal"
  /\ tok' = Held(tok)
  /\ UNCHANGED <<isLoading, isRefreshing, crossed, quiet>>

(* setUser, then router.push of the login page. *)
DeliverSignIn(c) ==
  /\ c \in SignIns /\ call[c].st = "ok"
  /\ Store(c)
  /\ call' = [call EXCEPT ![c] = Idle]
  /\ user' = call[c].who
  /\ page' = "portal"
  /\ tok' = Held(tok)
  /\ UNCHANGED <<isLoading, isRefreshing, crossed, quiet>>

(* Mutant of DeliverLogout: the refresh cookie has another path and stays. *)
DeliverLogoutRoot ==
  /\ call["logout"].st = "ok"
  /\ jar' = [jar EXCEPT !.at = None]
  /\ owner' = None
  /\ call' = [call EXCEPT !["logout"] = Idle]
  /\ user' = None
  /\ page' = "login"
  /\ tok' = Held(tok)
  /\ quiet' = ~Overlaps("logout")
  /\ UNCHANGED <<isLoading, isRefreshing, crossed>>

DeliverLogout ==
  /\ call["logout"].st = "ok"
  /\ jar' = NoCookies
  /\ owner' = None
  /\ call' = [call EXCEPT !["logout"] = Idle]
  /\ user' = None
  /\ page' = "login"
  /\ tok' = Held(tok)
  /\ quiet' = ~Overlaps("logout")
  /\ UNCHANGED <<isLoading, isRefreshing, crossed>>

(* The interceptor on a 401: reject, queue, or refresh. *)
Intercepted(c) == call[c].st = "denied" /\ ~call[c].again /\ c # "login"

RejectDenied(c) ==
  /\ call[c].st = "denied" /\ ~Intercepted(c)
  /\ Rejects(c)

JoinQueue(c) ==
  /\ Intercepted(c)
  /\ isRefreshing
  /\ call' = [call EXCEPT ![c] = [Idle EXCEPT !.st = "queued"]]
  /\ UNCHANGED <<tok, jar, tab, history>>

(* Mutant of StartRefresh: isRefreshing is not consulted. *)
StartRefreshAlways(c) ==
  /\ Intercepted(c)
  /\ isRefreshing' = TRUE
  /\ call' = [call EXCEPT ![c] = Refreshing]
  /\ crossed' = (crossed \/ \E s \in SignIns \ {c} : InFlight(s))
  /\ UNCHANGED <<tok, jar, page, user, isLoading, owner, quiet>>

StartRefresh(c) ==
  /\ Intercepted(c)
  /\ ~isRefreshing
  /\ isRefreshing' = TRUE
  /\ call' = [call EXCEPT ![c] = Refreshing]
  /\ crossed' = (crossed \/ \E s \in SignIns \ {c} : InFlight(s))
  /\ UNCHANGED <<tok, jar, page, user, isLoading, owner, quiet>>

(* processQueue(null), the retry of the call itself, finally: one task. *)
FinishRefresh(c) ==
  /\ call[c].st = "refreshed"
  /\ Store(c)
  /\ isRefreshing' = FALSE
  /\ call' = [d \in Calls |->
                IF d # c /\ call[d].st # "queued" THEN call[d]
                ELSE IF d = "google" THEN [Submitted EXCEPT !.again = (d = c)]
                ELSE Sent(call[c].who, d = c)]
  /\ tok' = Held(tok)
  /\ UNCHANGED <<page, user, isLoading, crossed, quiet>>

(* processQueue(refreshError), then window.location.href = "/login". *)
FailRefresh(c) ==
  /\ call[c].st = "refused"
  /\ UNCHANGED <<jar, owner>>
  /\ Load("login")

(* The network fails, the server answers 429 or 500, or 30 seconds pass. *)
Lose(c) ==
  /\ "lost" \in Faults
  /\ call[c].st \in {"sent", "ok"}
  /\ Rejects(c)

LoseRefresh(c) ==
  /\ "lost" \in Faults
  /\ call[c].st \in {"refreshing", "refreshed"}
  /\ call' = [call EXCEPT ![c].st = "refused", ![c].set = None, ![c].who = None]
  /\ tok' \in AfterGivingUp({c})
  /\ UNCHANGED <<jar, tab, owner, crossed, quiet>>

-----------------------------------------------------------------------------
(* A step of the interceptor or of the continuation that an answer starts. *)
Arrive(c) ==
  \/ DeliverSignIn(c) \/ RejectDenied(c) \/ JoinQueue(c) \/ StartRefresh(c)
  \/ FinishRefresh(c) \/ FailRefresh(c)
Deliver == DeliverMe \/ DeliverLogout
Handle(c) == Serve(c) \/ ServeSignIn(c) \/ ServeRefresh(c)

UserActs ==
  \/ \E p \in Pages : Reload(p) \/ Navigate(p)
  \/ \E c \in DataCalls : Fetch(c)
  \/ RefreshUser \/ SubmitLogin \/ ClickGoogle \/ ClosePopup \/ ClickLogout
Next ==
  \/ UserActs
  \/ ExpireCookie
  \/ \E u \in Users : RevokeAll(u)
  \/ Deliver
  \/ \E c \in Calls : Handle(c) \/ Arrive(c) \/ Lose(c) \/ LoseRefresh(c)

Spec == Init /\ [][Next]_vars
(* The server answers, answers arrive, the event loop runs on. *)
FairSpec == Spec /\ WF_vars(Deliver) /\ \A c \in Calls : WF_vars(Handle(c)) /\ WF_vars(Arrive(c))


-----------------------------------------------------------------------------
(* At most one refresh request is in flight, calls wait in the queue only    *)
(* while there is one, and isRefreshing says whether there is: a queue       *)
(* nobody empties would leave its calls pending for ever (api-client.ts 37). *)
SingleFlight ==
  /\ \A c, d \in Waiting : c = d
  /\ isRefreshing <=> Waiting # {}
  /\ (\E c \in Calls : call[c].st = "queued") => isRefreshing

(* A refresh request carries a token that has been exchanged already only    *)
(* when the answer to that exchange was lost, or the page was loaded anew    *)
(* meanwhile ("Unheard"): late 401s, queued calls and sign-ins do not make   *)
(* the tab present a token whose successor it was given (api-client.ts).     *)
PresentedOnce == \A c \in Calls : call[c].st = "refreshing" /\ call[c].rt # None
                                     => tok[call[c].rt] # Spent

(* Once the answer to a logout has arrived with no refresh, sign-in or user  *)
(* fetch in flight, nothing puts cookies back or shows a user before the     *)
(* next sign-in; the 401s of requests still on their way do not.             *)
SignedOutStaysOut == quiet => jar = NoCookies /\ user = None

(* The user that the pages show is the user of the cookies, unless a sign-in *)
(* was submitted while a refresh, another sign-in, a logout or the           *)
(* provider's own fetch was in flight.                                       *)
ShownUserIsCookieUser == user # None /\ owner # None /\ ~crossed => user = owner

(* middleware.ts 4: "Define public paths that do not require authentication".*)
(* Nobody is sent from one of them to the login page.                        *)
PublicPagesStayOpen == [][\A c \in Calls : FailRefresh(c) => page # "public"]_vars
=============================================================================
