------------------------ MODULE BrowserSessionProofs ------------------------
(* The safety properties of BrowserSession, for any number of accounts,      *)
(* tokens, page requests and any faults, by one inductive invariant.         *)
EXTENDS BrowserSession, TLAPS

USE DEF Dead

(* The answer to call c brings a token pair. *)
Grants(c) == call[c].st = "refreshed" \/ (c \in SignIns /\ call[c].st = "ok")

(* The tokens of requests and answers: those of answers are distinct, new to  *)
(* the cookies and to the requests, and not spent.                           *)
Carried ==
  \A c \in Calls :
    /\ call[c].rt # None => c \in Waiting
    /\ call[c].set # None <=> Grants(c)
    /\ Grants(c) =>
         /\ call[c].who \in Users
         /\ tok[call[c].set] \in {call[c].who, Ended, Unheard}
         /\ call[c].set # jar.rt
         /\ \A d \in Calls : /\ call[d].rt # call[c].set
                             /\ call[d].set = call[c].set => d = c

(* The refresh cookie is spent only while the answer that replaces it is on   *)
(* its way.                                                                  *)
Cookies ==
  /\ owner = None => jar = NoCookies
  /\ jar.at \in {None, owner}
  /\ jar.rt # None =>
       /\ tok[jar.rt] \in {owner, Ended, Unheard, Spent}
       /\ tok[jar.rt] = Spent => \E c \in Calls : Awaited(c, jar.rt)

Safe == TypeOK /\ SingleFlight /\ Carried /\ Cookies /\ PresentedOnce

(* After a quiet logout nothing in flight can bring a cookie or a user. *)
Silent ==
  quiet => /\ jar = NoCookies /\ user = None
           /\ \A c \in SignIns \cup {"me"} : ~InFlight(c)
           /\ \A c \in Waiting : call[c].rt = None /\ call[c].st # "refreshed"

(* Without an overlap a sign-in is alone with the requests of pages, ...      *)
Alone ==
  ~crossed => \A s \in SignIns : InFlight(s) => ~InFlight("me") /\ Waiting \subseteq {s}

(* ... and everything else in the tab belongs to one user.                   *)
One(w) ==
  /\ owner \in {w, None}
  /\ user \in {w, None}
  /\ InFlight("me") => call["me"].at \in {w, None} /\ call["me"].who \in {w, None}
  /\ \A c \in Waiting :
       /\ call[c].st = "refreshed" => call[c].who = w
       /\ call[c].st = "refreshing" /\ call[c].rt # None
            => tok[call[c].rt] \in {w, Ended, Unheard, Spent}
Single == ~crossed => \E w \in Users \cup {None} : One(w)

IInv == Safe /\ Silent /\ Alone /\ Single

Record == [st : States, at : Users \cup {None}, again : BOOLEAN,
           rt : Tokens \cup {None}, who : Users \cup {None}, set : Tokens \cup {None}]

-----------------------------------------------------------------------------
(* Types. *)

LEMMA CallNames ==
  /\ {"me", "login", "google", "logout"} \subseteq Calls
  /\ DataCalls \subseteq Calls
  /\ SignIns \subseteq Calls
  /\ \A c \in DataCalls : c \notin SignIns /\ c # "me" /\ c # "logout"
  BY CallsAssumption DEF Calls, SignIns

LEMMA Records ==
  ASSUME NEW at \in Users \cup {None}, NEW again \in BOOLEAN
  PROVE  /\ Sent(at, again) \in Record
         /\ Sent(at, again).st \in {"sent", "denied"}
         /\ Sent(at, again).rt = None
         /\ Sent(at, again).set = None
         /\ Sent(at, again).who = None
         /\ Sent(at, again).at = at
  BY DEF Sent, Idle, Record, States

LEMMA IdleRecord ==
  /\ Idle \in Record /\ Submitted \in Record
  /\ Idle.st = "idle" /\ Idle.rt = None /\ Idle.set = None /\ Idle.who = None /\ Idle.at = None
  /\ Submitted.st = "sent" /\ Submitted.rt = None /\ Submitted.set = None
  /\ Submitted.who = None /\ Submitted.at = None
  BY DEF Idle, Submitted, Record, States

LEMMA HeldType ==
  ASSUME NEW tk \in [Tokens -> Users \cup Dead]
  PROVE  Held(tk) \in [Tokens -> Users \cup Dead]
  BY DEF Held

(* Giving up calls changes nothing but that some tokens are now unheard.     *)
LEMMA GivingUp ==
  ASSUME NEW C, NEW tk \in AfterGivingUp(C), tok \in [Tokens -> Users \cup Dead]
  PROVE  /\ tk \in [Tokens -> Users \cup Dead]
         /\ \A t \in Tokens : tk[t] \in {tok[t], Unheard}
         /\ \A t \in Tokens : (\E c \in C : Awaited(c, t)) => tk[t] = Unheard
  BY DEF AfterGivingUp

LEMMA TypeInit == Init => TypeOK
<1> SUFFICES ASSUME Init PROVE TypeOK
  OBVIOUS
<1>1. Sent(None, FALSE) \in Record /\ Idle \in Record
  BY Records, IdleRecord
<1>2. call \in [Calls -> Record]
  BY <1>1 DEF Init
<1>3. jar \in [at : Users \cup {None}, rt : Tokens \cup {None}]
  BY DEF Init, NoCookies
<1> QED
  BY <1>2, <1>3 DEF Init, TypeOK, Record

LEMMA TypeLoad ==
  ASSUME TypeOK, jar' = jar, owner' = owner, NEW p \in Pages, Load(p)
  PROVE  TypeOK'
<1>1. jar.at \in Users \cup {None}
  BY DEF TypeOK
<1>2. PICK tk \in AfterGivingUp(Calls) : tok' = Held(tk)
  BY DEF Load
<1>3. tok' \in [Tokens -> Users \cup Dead]
  BY <1>2, GivingUp, HeldType DEF TypeOK
<1>4. call' \in [Calls -> Record]
  BY <1>1, Records, IdleRecord DEF Load
<1>5. page' \in Pages
  BY PagesAssumption DEF Load, Middleware
<1> QED
  BY <1>3, <1>4, <1>5 DEF TypeOK, Load, Record

LEMMA TypeStep == TypeOK /\ [Next]_vars => TypeOK'
<1> SUFFICES ASSUME TypeOK, [Next]_vars PROVE TypeOK'
  OBVIOUS
<1> USE CallNames DEF Record
<1>0. /\ jar.at \in Users \cup {None} /\ jar.rt \in Tokens \cup {None}
      /\ call \in [Calls -> Record]
      /\ tok \in [Tokens -> Users \cup Dead]
  BY DEF TypeOK
<1>1. ASSUME NEW p \in Pages, Reload(p) PROVE TypeOK'
  BY <1>1, TypeLoad DEF Reload
<1>2. ASSUME NEW p \in Pages, Navigate(p) PROVE TypeOK'
  BY <1>2, PagesAssumption DEF Navigate, TypeOK, Settle, Middleware, history
<1>3. ASSUME NEW c \in DataCalls, Fetch(c) PROVE TypeOK'
  BY <1>0, <1>3, Records DEF Fetch, TypeOK, history, tab
<1>4. CASE RefreshUser
  BY <1>0, <1>4, Records DEF RefreshUser, TypeOK, history, tab
<1>5. CASE SubmitLogin
  BY <1>0, <1>5, IdleRecord DEF SubmitLogin, TypeOK, history, tab
<1>6. CASE ClickGoogle
  BY <1>0, <1>6, IdleRecord DEF ClickGoogle, TypeOK, history, tab
<1>7. CASE ClosePopup
  BY <1>0, <1>7, IdleRecord DEF ClosePopup, TypeOK, history, tab
<1>8. CASE ClickLogout
  BY <1>0, <1>8, Records DEF ClickLogout, TypeOK, history, tab
<1>9. CASE ExpireCookie
  BY <1>9 DEF ExpireCookie, TypeOK, history, tab
<1>10. ASSUME NEW u \in Users, RevokeAll(u) PROVE TypeOK'
  BY <1>10 DEF RevokeAll, Revoked, TypeOK, tab
<1>11. CASE DeliverMe
  <2>1. call["me"].who \in Users \cup {None}
    BY <1>0
  <2> QED
    BY <1>0, <1>11, <2>1, IdleRecord, PagesAssumption
    DEF DeliverMe, Show, Settle, Middleware, TypeOK, history
<1>12. CASE DeliverLogout
  BY <1>0, <1>12, IdleRecord, HeldType, PagesAssumption
  DEF DeliverLogout, TypeOK, NoCookies
<1>13. ASSUME NEW c \in Calls, Serve(c) PROVE TypeOK'
  <2>1. Denied(c) \in Record /\ Granted(call[c].at, None) \in Record
    BY <1>0 DEF Denied, Granted, Idle, States
  <2>2. call' \in [Calls -> Record]
    BY <1>0, <1>13, <2>1, IdleRecord DEF Serve, Answer
  <2>3. tok' \in [Tokens -> Users \cup Dead]
    BY <1>0, <1>13 DEF Serve, Revoked
  <2> QED
    BY <1>13, <2>2, <2>3 DEF Serve, TypeOK, tab
<1>14. ASSUME NEW c \in Calls, ServeSignIn(c) PROVE TypeOK'
  <2>1. Denied(c) \in Record /\ \A u \in Users, t \in Tokens : Granted(u, t) \in Record
    BY <1>0 DEF Denied, Granted, Idle, States
  <2>2. call' \in [Calls -> Record]
    BY <1>0, <1>14, <2>1 DEF ServeSignIn, Answer
  <2>3. tok' \in [Tokens -> Users \cup Dead]
    BY <1>0, <1>14 DEF ServeSignIn
  <2> QED
    BY <1>14, <2>2, <2>3 DEF ServeSignIn, TypeOK, tab
<1>15. ASSUME NEW c \in Calls, ServeRefresh(c) PROVE TypeOK'
  <2>1. [call[c] EXCEPT !.st = "refused"] \in Record
    BY <1>0 DEF States
  <2>2. CASE call[c].rt = None \/ tok[call[c].rt] \notin Users
    <3>1. call' \in [Calls -> Record] /\ tok' = tok
      BY <1>0, <1>15, <2>1, <2>2 DEF ServeRefresh, Answer
    <3> QED
      BY <1>15, <3>1 DEF ServeRefresh, TypeOK, tab
  <2>3. CASE ~(call[c].rt = None \/ tok[call[c].rt] \notin Users)
    <3>1. PICK t \in Tokens :
            /\ call' = [call EXCEPT ![c] = [call[c] EXCEPT !.st = "refreshed", !.set = t,
                                                           !.who = tok[call[c].rt]]]
            /\ tok' = [tok EXCEPT ![t] = tok[call[c].rt], ![call[c].rt] = Spent]
      BY <1>15, <2>3 DEF ServeRefresh, Answer
    <3>2. tok[call[c].rt] \in Users
      BY <2>3
    <3>3. [call[c] EXCEPT !.st = "refreshed", !.set = t, !.who = tok[call[c].rt]] \in Record
      BY <1>0, <3>2 DEF States
    <3>4. call' \in [Calls -> Record] /\ tok' \in [Tokens -> Users \cup Dead]
      BY <1>0, <3>1, <3>2, <3>3
    <3> QED
      BY <1>15, <3>4 DEF ServeRefresh, TypeOK, tab
  <2> QED
    BY <2>2, <2>3
<1>16. ASSUME NEW c \in Calls, DeliverSignIn(c) PROVE TypeOK'
  BY <1>0, <1>16, IdleRecord, HeldType, PagesAssumption
  DEF DeliverSignIn, Store, TypeOK
<1>17. ASSUME NEW c \in Calls, Rejects(c) PROVE TypeOK'
  BY <1>0, <1>17, IdleRecord, HeldType, PagesAssumption
  DEF Rejects, Show, Settle, Middleware, TypeOK, history
<1>18. ASSUME NEW c \in Calls, JoinQueue(c) PROVE TypeOK'
  <2>1. [Idle EXCEPT !.st = "queued"] \in Record
    BY DEF Idle, States
  <2> QED
    BY <1>0, <1>18, <2>1 DEF JoinQueue, TypeOK, history, tab
<1>19. ASSUME NEW c \in Calls, StartRefresh(c) PROVE TypeOK'
  <2>1. Refreshing \in Record
    BY <1>0 DEF Refreshing, Idle, States
  <2> QED
    BY <1>0, <1>19, <2>1 DEF StartRefresh, TypeOK
<1>20. ASSUME NEW c \in Calls, FinishRefresh(c) PROVE TypeOK'
  <2>1. [Submitted EXCEPT !.again = TRUE] \in Record /\ [Submitted EXCEPT !.again = FALSE] \in Record
    BY DEF Submitted, Idle, States
  <2>2. call[c].who \in Users \cup {None}
    BY <1>0
  <2>3. call' \in [Calls -> Record]
    BY <1>0, <1>20, <2>1, <2>2, Records DEF FinishRefresh
  <2> QED
    BY <1>0, <1>20, <2>3, HeldType DEF FinishRefresh, Store, TypeOK
<1>21. ASSUME NEW c \in Calls, FailRefresh(c) PROVE TypeOK'
  BY <1>21, TypeLoad, PagesAssumption DEF FailRefresh
<1>22. ASSUME NEW c \in Calls, LoseRefresh(c) PROVE TypeOK'
  <2>1. [call[c] EXCEPT !.st = "refused", !.set = None, !.who = None] \in Record
    BY <1>0 DEF States
  <2>2. call' \in [Calls -> Record]
    BY <1>0, <1>22, <2>1 DEF LoseRefresh
  <2>3. tok' \in [Tokens -> Users \cup Dead]
    BY <1>0, <1>22, GivingUp DEF LoseRefresh
  <2> QED
    BY <1>22, <2>2, <2>3 DEF LoseRefresh, TypeOK, tab
<1>23. CASE UNCHANGED vars
  BY <1>23 DEF vars, TypeOK
<1>24. CASE UserActs
  BY <1>1, <1>2, <1>3, <1>4, <1>5, <1>6, <1>7, <1>8, <1>24 DEF UserActs
<1>25. ASSUME NEW c \in Calls, Handle(c) PROVE TypeOK'
  BY <1>13, <1>14, <1>15, <1>25 DEF Handle
<1>26. ASSUME NEW c \in Calls, Arrive(c) PROVE TypeOK'
  BY <1>16, <1>17, <1>18, <1>19, <1>20, <1>21, <1>26 DEF Arrive, RejectDenied
<1>27. ASSUME NEW c \in Calls, Lose(c) PROVE TypeOK'
  BY <1>17, <1>27 DEF Lose
<1>28. CASE Next
  BY <1>9, <1>10, <1>11, <1>12, <1>22, <1>24, <1>25, <1>26, <1>27, <1>28 DEF Next, Deliver
<1> QED
  BY <1>23, <1>28

(* Cookies, tokens, requests and the provider's state keep their types under *)
(* every fault.                                                              *)
THEOREM TypeCorrectness == Spec => []TypeOK
  BY TypeInit, TypeStep, PTL DEF Spec

-----------------------------------------------------------------------------
(* Tokens. *)

(* t is in a cookie, a request or an answer. *)
InUse(t) == t = jar.rt \/ \E d \in Calls : t \in {call[d].rt, call[d].set}

(* A step of one call that is no refresh and gets no token; tokens in use may *)
(* be revoked meanwhile.                                                     *)
Plain(c) ==
  /\ c \in Calls /\ c \notin Waiting
  /\ UNCHANGED <<jar, owner, isRefreshing>>
  /\ \A d \in Calls \ {c} : call'[d] = call[d]
  /\ call'[c].st \in {"idle", "sent", "ok", "denied", "queued"}
  /\ call'[c].rt = None /\ call'[c].set = None
  /\ call'[c].st = "queued" => isRefreshing
  /\ call'[c].st = "ok" => c \notin SignIns
  /\ \A t \in Tokens :
       InUse(t)' => tok'[t] = tok[t] \/ (tok[t] \in Users /\ tok'[t] \in {Ended, Unheard})

LEMMA HeldKeeps ==
  ASSUME NEW tk, NEW t \in Tokens, InUse(t)'
  PROVE  Held(tk)[t] = tk[t]
  BY DEF Held, InUse

LEMMA PlainKeeps ==
  ASSUME Safe, TypeOK', NEW c \in Calls, Plain(c)
  PROVE  Safe'
<1>1. Waiting' = Waiting
  BY DEF Waiting, Plain
<1>2. SingleFlight'
  BY <1>1 DEF Safe, SingleFlight, Plain
<1>3. \A d \in Calls : Grants(d)' <=> (Grants(d) /\ d # c)
  BY DEF Grants, Plain, Waiting
<1>4. \A d \in Calls : d # c => call'[d] = call[d]
  BY DEF Plain
<1>5. call'[c].rt = None /\ call'[c].set = None /\ jar' = jar /\ owner' = owner
  BY DEF Plain
<1>6. \A t \in Tokens :
        InUse(t)' => tok'[t] = tok[t] \/ (tok[t] \in Users /\ tok'[t] \in {Ended, Unheard})
  BY DEF Plain
<1>7. Carried'
  <2> SUFFICES ASSUME NEW d \in Calls
               PROVE /\ call'[d].rt # None => d \in Waiting'
                     /\ call'[d].set # None <=> Grants(d)'
                     /\ Grants(d)' =>
                          /\ call'[d].who \in Users
                          /\ tok'[call'[d].set] \in {call'[d].who, Ended, Unheard}
                          /\ call'[d].set # jar'.rt
                          /\ \A e \in Calls : /\ call'[e].rt # call'[d].set
                                              /\ call'[e].set = call'[d].set => e = d
    BY DEF Carried
  <2>1. CASE d = c
    BY <1>3, <1>5, <2>1
  <2>2. CASE d # c
    <3>1. call'[d] = call[d] /\ (Grants(d)' <=> Grants(d))
      BY <1>3, <1>4, <2>2
    <3>2. ASSUME Grants(d) PROVE tok'[call[d].set] \in {call[d].who, Ended, Unheard}
      <4>1. PICK t \in Tokens : t = call[d].set
        BY <3>2 DEF Safe, TypeOK, Carried
      <4>2. InUse(t)'
        BY <3>1, <4>1 DEF InUse
      <4>3. tok'[t] = tok[t] \/ tok'[t] \in {Ended, Unheard}
        BY <1>6, <4>2
      <4> QED
        BY <3>2, <4>1, <4>3 DEF Safe, Carried
    <3>3. ASSUME Grants(d), NEW e \in Calls
          PROVE /\ call'[e].rt # call[d].set
                /\ call'[e].set = call[d].set => e = d
      BY <1>4, <1>5, <3>3 DEF Safe, Carried
    <3> QED
      BY <1>1, <1>5, <3>1, <3>2, <3>3 DEF Safe, Carried
  <2> QED
    BY <2>1, <2>2
<1>8. Cookies'
  <2>1. \A t : (\E d \in Calls : Awaited(d, t)) => \E d \in Calls : Awaited(d, t)'
    BY <1>4 DEF Awaited, Plain, Waiting
  <2>2. jar.rt # None => jar.rt \in Tokens /\ InUse(jar.rt)'
    BY <1>5 DEF Safe, TypeOK, InUse
  <2> QED
    BY <1>5, <1>6, <2>1, <2>2, TokAssumption DEF Safe, Cookies
<1>9. PresentedOnce'
  <2> SUFFICES ASSUME NEW d \in Calls, call'[d].st = "refreshing", call'[d].rt # None
               PROVE  tok'[call'[d].rt] # Spent
    BY DEF PresentedOnce
  <2>1. d # c /\ call'[d] = call[d]
    BY <1>4 DEF Plain
  <2>2. call[d].rt \in Tokens /\ InUse(call[d].rt)'
    BY <2>1 DEF Safe, TypeOK, InUse
  <2> QED
    BY <1>6, <2>1, <2>2, TokAssumption DEF Safe, PresentedOnce
<1> QED
  BY <1>2, <1>7, <1>8, <1>9 DEF Safe

LEMMA SafeInit == Init => Safe
<1> SUFFICES ASSUME Init PROVE Safe
  OBVIOUS
<1>1. \A c \in Calls : /\ call[c].st \in {"idle", "sent", "denied"}
                       /\ call[c].rt = None /\ call[c].set = None
  BY Records, IdleRecord DEF Init
<1>2. Waiting = {} /\ \A c \in Calls : ~Grants(c)
  BY <1>1 DEF Waiting, Grants
<1>3. jar.rt = None /\ jar.at = None /\ jar = NoCookies
  BY DEF Init, NoCookies
<1> QED
  BY <1>1, <1>2, <1>3, TypeInit DEF Safe, SingleFlight, Carried, Cookies, PresentedOnce, Init

LEMMA SafeLoad ==
  ASSUME Safe, TypeOK', jar' = jar, owner' = owner, NEW p, Load(p)
  PROVE  Safe'
<1>1. \A c \in Calls : /\ call'[c].st \in {"idle", "sent", "denied"}
                       /\ call'[c].rt = None /\ call'[c].set = None
  BY Records, IdleRecord DEF Load, Safe, TypeOK
<1>2. Waiting' = {} /\ \A c \in Calls : ~(Grants(c)')
  BY <1>1 DEF Waiting, Grants
<1>3. ASSUME jar.rt # None PROVE tok'[jar.rt] \in {owner, Ended, Unheard}
  <2>1. PICK t \in Tokens : t = jar.rt
    BY <1>3 DEF Safe, TypeOK
  <2>2. InUse(t)'
    BY <2>1 DEF InUse
  <2>3. /\ tok'[t] \in {tok[t], Unheard}
        /\ (\E c \in Calls : Awaited(c, t)) => tok'[t] = Unheard
    <3>1. PICK tk \in AfterGivingUp(Calls) : tok' = Held(tk)
      BY DEF Load
    <3>2. tok'[t] = tk[t]
      BY <2>2, <3>1, HeldKeeps
    <3> QED
      BY <3>1, <3>2, GivingUp DEF Safe, TypeOK
  <2> QED
    BY <1>3, <2>1, <2>3 DEF Safe, Cookies
<1>4. SingleFlight'
  BY <1>1, <1>2 DEF SingleFlight, Load
<1>5. Carried'
  BY <1>1, <1>2 DEF Carried
<1>6. Cookies'
  <2>1. jar.rt # None => tok'[jar.rt] # Spent
    BY <1>3, NoneAssumption, TokAssumption DEF Safe, TypeOK, Cookies, NoCookies
  <2> QED
    BY <1>3, <2>1 DEF Safe, Cookies, NoCookies
<1>7. PresentedOnce'
  BY <1>1 DEF PresentedOnce
<1> QED
  BY <1>4, <1>5, <1>6, <1>7 DEF Safe

LEMMA PlainSteps ==
  ASSUME Safe,
         \/ \E c \in DataCalls : Fetch(c)
         \/ RefreshUser \/ SubmitLogin \/ ClickGoogle \/ ClosePopup \/ ClickLogout
         \/ DeliverMe
         \/ \E c \in Calls : Serve(c) \/ JoinQueue(c)
         \/ \E c \in Calls : call[c].st \in {"sent", "ok", "denied"} /\ Rejects(c)
  PROVE  \E c \in Calls : Plain(c)
<1> USE CallNames, IdleRecord
<1>0. /\ jar.at \in Users \cup {None}
      /\ call \in [Calls -> Record]
  BY DEF Safe, TypeOK, Record
<1>1. ASSUME NEW c \in DataCalls, Fetch(c) PROVE Plain(c)
  BY <1>0, <1>1, Records DEF Fetch, Plain, Waiting, InFlight, tab, history
<1>2. ASSUME RefreshUser PROVE Plain("me")
  BY <1>0, <1>2, Records DEF RefreshUser, Plain, Waiting, InFlight, tab
<1>3. ASSUME SubmitLogin PROVE Plain("login")
  BY <1>0, <1>3 DEF SubmitLogin, Plain, Waiting, InFlight, tab
<1>4. ASSUME ClickGoogle PROVE Plain("google")
  BY <1>0, <1>4 DEF ClickGoogle, Plain, Waiting, InFlight, tab
<1>5. ASSUME ClosePopup PROVE Plain("google")
  BY <1>0, <1>5 DEF ClosePopup, Plain, Waiting, InFlight, tab, history
<1>6. ASSUME ClickLogout PROVE Plain("logout")
  BY <1>0, <1>6, Records DEF ClickLogout, Plain, Waiting, InFlight, tab, history
<1>7. ASSUME DeliverMe PROVE Plain("me")
  BY <1>0, <1>7 DEF DeliverMe, Plain, Waiting, Show, history
<1>8. ASSUME NEW c \in Calls, Serve(c) PROVE Plain(c)
  <2>1. /\ Denied(c).st = "denied" /\ Denied(c).rt = None /\ Denied(c).set = None
        /\ Granted(call[c].at, None).st = "ok"
        /\ Granted(call[c].at, None).rt = None /\ Granted(call[c].at, None).set = None
    BY DEF Denied, Granted, Idle
  <2>2. \A t \in Tokens : tok'[t] = tok[t] \/ (tok[t] \in Users /\ tok'[t] \in {Ended, Unheard})
    <3>1. \A t \in Tokens : tok'[t] = tok[t] \/ (tok[t] = call[c].at /\ tok'[t] \in {Ended, Unheard})
      BY <1>8 DEF Serve, Revoked
    <3>2. call[c].at \in Users \cup {None}
      BY <1>0 DEF Record
    <3>3. ASSUME NEW t \in Tokens, tok[t] = call[c].at, tok'[t] \in {Ended, Unheard}, tok[t] \notin Users
          PROVE tok'[t] = tok[t]
      BY <3>2, <3>3, NoneAssumption DEF Safe, TypeOK
    <3> QED
      BY <3>1, <3>3
  <2> QED
    BY <1>0, <1>8, <2>1, <2>2 DEF Serve, Answer, Plain, Waiting, tab
<1>9. ASSUME NEW c \in Calls, JoinQueue(c) PROVE Plain(c)
  BY <1>0, <1>9 DEF JoinQueue, Intercepted, Idle, Plain, Waiting, tab, history
<1>10. ASSUME NEW c \in Calls, call[c].st \in {"sent", "ok", "denied"}, Rejects(c)
       PROVE Plain(c)
  <2>1. \A t \in Tokens : InUse(t)' => tok'[t] = tok[t]
    BY <1>10, HeldKeeps DEF Rejects
  <2> QED
    BY <1>0, <1>10, <2>1 DEF Rejects, Plain, Waiting, history
<1> QED
  BY <1>1, <1>2, <1>3, <1>4, <1>5, <1>6, <1>7, <1>8, <1>9, <1>10

LEMMA SafeServeSignIn ==
  ASSUME Safe, TypeOK', NEW c \in SignIns, call[c].st = "sent",
         NEW u \in Users, NEW t \in Tokens, Fresh(t), Answer(c, Granted(u, t)),
         tok' = [tok EXCEPT ![t] = u], UNCHANGED <<jar, tab, owner>>
  PROVE  Safe'
<1>0. c \in Calls /\ c \notin Waiting /\ call \in [Calls -> Record]
  BY CallNames DEF Waiting, Safe, TypeOK, Record
<1>1. /\ call'[c].st = "ok" /\ call'[c].rt = None
      /\ call'[c].who = u /\ call'[c].set = t
      /\ \A d \in Calls : d # c => call'[d] = call[d]
  BY <1>0 DEF Answer, Granted, Idle
<1>2. Waiting' = Waiting
  BY <1>0, <1>1 DEF Waiting
<1>3. \A d \in Calls : Grants(d)' <=> (Grants(d) \/ d = c)
  BY <1>1 DEF Grants
<1>4. /\ tok'[t] = u /\ \A v \in Tokens : v # t => tok'[v] = tok[v]
      /\ \A d \in Calls : call[d].rt # t /\ call[d].set # t
      /\ t # jar.rt /\ t # None
  BY NoneAssumption DEF Safe, TypeOK, Fresh
<1>5. SingleFlight'
  BY <1>1, <1>2 DEF Safe, SingleFlight, tab
<1>6. Carried'
  <2> SUFFICES ASSUME NEW d \in Calls
               PROVE /\ call'[d].rt # None => d \in Waiting'
                     /\ call'[d].set # None <=> Grants(d)'
                     /\ Grants(d)' =>
                          /\ call'[d].who \in Users
                          /\ tok'[call'[d].set] \in {call'[d].who, Ended, Unheard}
                          /\ call'[d].set # jar'.rt
                          /\ \A e \in Calls : /\ call'[e].rt # call'[d].set
                                              /\ call'[e].set = call'[d].set => e = d
    BY DEF Carried
  <2>1. CASE d = c
    BY <1>1, <1>3, <1>4, <2>1
  <2>2. CASE d # c
    <3>1. call'[d] = call[d] /\ (Grants(d)' <=> Grants(d)) /\ call[d].set \in Tokens \cup {None}
      BY <1>0, <1>1, <1>3, <2>2 DEF Record
    <3>2. ASSUME Grants(d) PROVE tok'[call[d].set] = tok[call[d].set]
      BY <1>4, <3>1, <3>2 DEF Safe, Carried
    <3>3. ASSUME Grants(d), NEW e \in Calls
          PROVE call'[e].rt # call[d].set /\ (call'[e].set = call[d].set => e = d)
      BY <1>1, <1>4, <3>3 DEF Safe, Carried
    <3> QED
      BY <1>2, <3>1, <3>2, <3>3 DEF Safe, Carried
  <2> QED
    BY <2>1, <2>2
<1>7. Cookies'
  <2>1. jar.rt # None => tok'[jar.rt] = tok[jar.rt]
    BY <1>4 DEF Safe, TypeOK
  <2>2. \A v : (\E d \in Calls : Awaited(d, v)) => \E d \in Calls : Awaited(d, v)'
    BY <1>1 DEF Awaited
  <2> QED
    BY <2>1, <2>2 DEF Safe, Cookies
<1>8. PresentedOnce'
  BY <1>0, <1>1, <1>4 DEF Safe, PresentedOnce, Record
<1> QED
  BY <1>5, <1>6, <1>7, <1>8 DEF Safe

LEMMA SafeServeRefresh ==
  ASSUME Safe, TypeOK', NEW c \in Calls, ServeRefresh(c)
  PROVE  Safe'
<1>0. call \in [Calls -> Record] /\ c \in Waiting /\ ~Grants(c) /\ call[c].set = None
  BY DEF Waiting, Safe, TypeOK, Record, ServeRefresh, Grants, Carried
<1>1. CASE call[c].rt = None \/ tok[call[c].rt] \notin Users
  <2>1. /\ call'[c] = [call[c] EXCEPT !.st = "refused"]
        /\ \A d \in Calls : d # c => call'[d] = call[d]
        /\ tok' = tok
    BY <1>0, <1>1 DEF ServeRefresh, Answer
  <2>2. call'[c].st = "refused" /\ call'[c].rt = call[c].rt /\ call'[c].set = None
    BY <1>0, <2>1 DEF Record
  <2>3. Waiting' = Waiting
    BY <1>0, <2>1, <2>2 DEF Waiting
  <2>4. \A d \in Calls : Grants(d)' <=> Grants(d)
    BY <1>0, <2>1, <2>2 DEF Grants, ServeRefresh
  <2>5. SingleFlight'
    BY <2>1, <2>2, <2>3 DEF Safe, SingleFlight, ServeRefresh, tab
  <2>6. Carried'
    <3>1. \A d \in Calls : call'[d].rt = call[d].rt /\ call'[d].set = call[d].set
      BY <1>0, <2>1, <2>2
    <3>2. \A d \in Calls : Grants(d) => call'[d].who = call[d].who
      BY <1>0, <2>1
    <3>3. jar' = jar
      BY DEF ServeRefresh
    <3> QED
      BY <2>1, <2>3, <2>4, <3>1, <3>2, <3>3 DEF Safe, Carried
  <2>7. \A v : (\E d \in Calls : Awaited(d, v)) => \E d \in Calls : Awaited(d, v)'
    BY <2>1 DEF Awaited, ServeRefresh
  <2>8. Cookies'
    BY <2>1, <2>7 DEF Safe, Cookies, ServeRefresh
  <2>9. PresentedOnce'
    BY <2>1, <2>2 DEF Safe, PresentedOnce
  <2> QED
    BY <2>5, <2>6, <2>8, <2>9 DEF Safe
<1>2. CASE ~(call[c].rt = None \/ tok[call[c].rt] \notin Users)
  <2>1. PICK t \in Tokens :
          /\ Fresh(t)
          /\ call' = [call EXCEPT ![c] = [call[c] EXCEPT !.st = "refreshed", !.set = t,
                                                         !.who = tok[call[c].rt]]]
          /\ tok' = [tok EXCEPT ![t] = tok[call[c].rt], ![call[c].rt] = Spent]
    BY <1>2 DEF ServeRefresh, Answer
  <2> DEFINE r == call[c].rt
             u == tok[r]
  <2>2. /\ call'[c].st = "refreshed" /\ call'[c].rt = r
        /\ call'[c].who = u /\ call'[c].set = t
        /\ \A d \in Calls : d # c => call'[d] = call[d]
    BY <1>0, <2>1 DEF Record
  <2>3. /\ r \in Tokens /\ u \in Users /\ t # r /\ t # None /\ t # jar.rt
        /\ \A d \in Calls : call[d].rt # t /\ call[d].set # t
    BY <1>0, <1>2, <2>1, NoneAssumption DEF Record, Fresh
  <2>4. /\ tok'[t] = u
        /\ \A v \in Tokens : v # t /\ v # r => tok'[v] = tok[v]
    BY <2>1, <2>3 DEF Safe, TypeOK
  <2> HIDE DEF r, u
  <2>5. Waiting' = Waiting
    BY <1>0, <2>2 DEF Waiting
  <2>6. \A d \in Calls : Grants(d)' <=> (Grants(d) \/ d = c)
    BY <2>2 DEF Grants
  <2>7. SingleFlight'
    BY <2>2, <2>5 DEF Safe, SingleFlight, ServeRefresh, tab
  <2>8. jar' = jar /\ owner' = owner /\ \A d \in Calls \ {c} : call[d].st # "refreshing"
    BY <1>0 DEF ServeRefresh, Safe, SingleFlight, Waiting
  <2>9. Carried'
    <3> SUFFICES ASSUME NEW d \in Calls
                 PROVE /\ call'[d].rt # None => d \in Waiting'
                       /\ call'[d].set # None <=> Grants(d)'
                       /\ Grants(d)' =>
                            /\ call'[d].who \in Users
                            /\ tok'[call'[d].set] \in {call'[d].who, Ended, Unheard}
                            /\ call'[d].set # jar'.rt
                            /\ \A e \in Calls : /\ call'[e].rt # call'[d].set
                                                /\ call'[e].set = call'[d].set => e = d
      BY DEF Carried
    <3>1. CASE d = c
      BY <1>0, <2>2, <2>3, <2>4, <2>5, <2>6, <2>8, <3>1 DEF r
    <3>2. CASE d # c
      <4>1. call'[d] = call[d] /\ (Grants(d)' <=> Grants(d)) /\ call[d].set \in Tokens \cup {None}
        BY <1>0, <2>2, <2>6, <3>2 DEF Record
      <4>2. ASSUME Grants(d) PROVE tok'[call[d].set] = tok[call[d].set]
        BY <2>3, <2>4, <4>1, <4>2 DEF Safe, Carried, r
      <4>3. ASSUME Grants(d), NEW e \in Calls
            PROVE call'[e].rt # call[d].set /\ (call'[e].set = call[d].set => e = d)
        BY <2>2, <2>3, <4>3 DEF Safe, Carried, r
      <4> QED
        BY <2>5, <2>8, <4>1, <4>2, <4>3 DEF Safe, Carried
    <3> QED
      BY <3>1, <3>2
  <2>10. Cookies'
    <3>1. \A v : (\E d \in Calls : Awaited(d, v)) => \E d \in Calls : Awaited(d, v)'
      BY <2>2 DEF Awaited, ServeRefresh
    <3>2. jar.rt # None /\ jar.rt # r => tok'[jar.rt] = tok[jar.rt]
      BY <2>3, <2>4 DEF Safe, TypeOK
    <3>3. jar.rt = r => tok'[jar.rt] = Spent /\ \E d \in Calls : Awaited(d, jar.rt)'
      BY <2>1, <2>2, <2>3, <2>8 DEF Safe, TypeOK, Awaited, r
    <3> QED
      BY <2>8, <3>1, <3>2, <3>3 DEF Safe, Cookies
  <2>11. PresentedOnce'
    BY <2>2, <2>8 DEF PresentedOnce
  <2> QED
    BY <2>7, <2>9, <2>10, <2>11 DEF Safe
<1> QED
  BY <1>1, <1>2

LEMMA SafeDeliverSignIn ==
  ASSUME Safe, TypeOK', NEW c \in Calls, DeliverSignIn(c)
  PROVE  Safe'
<1>0. /\ call \in [Calls -> Record] /\ c \notin Waiting /\ Grants(c)
      /\ call[c].set \in Tokens /\ call[c].who \in Users
  BY NoneAssumption DEF Waiting, Safe, TypeOK, Record, DeliverSignIn, Grants, Carried
<1>1. /\ call'[c] = Idle /\ \A d \in Calls : d # c => call'[d] = call[d]
      /\ jar' = [at |-> call[c].who, rt |-> call[c].set] /\ owner' = call[c].who
      /\ isRefreshing' = isRefreshing
  BY <1>0 DEF DeliverSignIn, Store
<1>2. Waiting' = Waiting
  BY <1>0, <1>1, IdleRecord DEF Waiting
<1>3. \A d \in Calls : Grants(d)' <=> (Grants(d) /\ d # c)
  BY <1>1, IdleRecord DEF Grants
<1>4. \A t \in Tokens : InUse(t)' => tok'[t] = tok[t]
  BY HeldKeeps DEF DeliverSignIn
<1>5. SingleFlight'
  BY <1>1, <1>2, IdleRecord DEF Safe, SingleFlight
<1>6. ASSUME NEW d \in Calls, d # c, Grants(d) PROVE tok'[call[d].set] = tok[call[d].set]
  <2>1. PICK t \in Tokens : t = call[d].set
    BY <1>0, <1>6 DEF Safe, Carried, Record
  <2>2. InUse(t)'
    BY <1>1, <1>6, <2>1 DEF InUse
  <2> QED
    BY <1>4, <2>1, <2>2
<1>7. tok'[call[c].set] = tok[call[c].set]
  <2>1. PICK t \in Tokens : t = call[c].set
    BY <1>0
  <2>2. InUse(t)'
    BY <1>1, <2>1 DEF InUse
  <2> QED
    BY <1>4, <2>1, <2>2
<1>8. Carried'
  <2>1. \A d \in Calls : call'[d].rt # None => d # c /\ call'[d].rt = call[d].rt
    BY <1>1, IdleRecord
  <2>2. \A d \in Calls : call'[d].set # None => d # c /\ call'[d].set = call[d].set
    BY <1>1, IdleRecord
  <2>3. \A d \in Calls : Grants(d)' =>
          /\ call'[d].who \in Users
          /\ tok'[call'[d].set] \in {call'[d].who, Ended, Unheard}
    BY <1>1, <1>3, <1>6 DEF Safe, Carried
  <2>4. \A d \in Calls : Grants(d)' => call'[d].set # jar'.rt
    BY <1>0, <1>1, <1>3 DEF Safe, Carried
  <2>5. \A d, e \in Calls : Grants(d)' =>
          /\ call'[e].rt # call'[d].set
          /\ call'[e].set = call'[d].set => e = d
    BY <1>0, <1>1, <1>3, <2>1, <2>2 DEF Safe, Carried
  <2>6. \A d \in Calls : call'[d].set # None <=> Grants(d)'
    BY <1>1, <1>3, IdleRecord DEF Safe, Carried
  <2> QED
    BY <1>2, <2>1, <2>3, <2>4, <2>5, <2>6 DEF Safe, Carried
<1>9. Cookies'
  BY <1>0, <1>1, <1>7, TokAssumption, NoneAssumption DEF Safe, Carried, Cookies
<1>10. PresentedOnce'
  <2> SUFFICES ASSUME NEW d \in Calls, call'[d].st = "refreshing", call'[d].rt # None
               PROVE  tok'[call'[d].rt] # Spent
    BY DEF PresentedOnce
  <2>1. call'[d] = call[d]
    BY <1>1, IdleRecord
  <2>2. PICK t \in Tokens : t = call[d].rt
    BY <1>0, <2>1 DEF Record
  <2>3. InUse(t)'
    BY <2>1, <2>2 DEF InUse
  <2> QED
    BY <1>4, <2>1, <2>2, <2>3 DEF Safe, PresentedOnce
<1> QED
  BY <1>5, <1>8, <1>9, <1>10 DEF Safe

LEMMA SafeDeliverLogout ==
  ASSUME Safe, TypeOK', DeliverLogout
  PROVE  Safe'
<1>0. /\ call \in [Calls -> Record] /\ "logout" \in Calls \ Waiting /\ "logout" \notin SignIns
      /\ ~Grants("logout")
  BY CallNames DEF Waiting, Safe, TypeOK, Record, DeliverLogout, SignIns, Grants
<1>1. /\ call'["logout"] = Idle /\ \A d \in Calls : d # "logout" => call'[d] = call[d]
      /\ jar' = NoCookies /\ owner' = None /\ isRefreshing' = isRefreshing
  BY <1>0 DEF DeliverLogout
<1>2. Waiting' = Waiting
  BY <1>0, <1>1, IdleRecord DEF Waiting
<1>3. \A d \in Calls : Grants(d)' <=> Grants(d)
  BY <1>0, <1>1, IdleRecord DEF Grants
<1>4. \A t \in Tokens : InUse(t)' => tok'[t] = tok[t]
  BY HeldKeeps DEF DeliverLogout
<1>5. SingleFlight'
  BY <1>1, <1>2, IdleRecord DEF Safe, SingleFlight
<1>6. Carried'
  <2>1. \A d \in Calls : call'[d].rt # None => call'[d].rt = call[d].rt
    BY <1>1, IdleRecord
  <2>2. \A d \in Calls : call'[d].set = call[d].set
    BY <1>0, <1>1, IdleRecord DEF Safe, Carried
  <2>3. \A d \in Calls : Grants(d) => call'[d].who = call[d].who
    BY <1>0, <1>1
  <2>4. ASSUME NEW d \in Calls, Grants(d) PROVE tok'[call[d].set] = tok[call[d].set]
    <3>1. PICK t \in Tokens : t = call[d].set
      BY <1>0, <2>4 DEF Safe, Carried, Record
    <3>2. InUse(t)'
      BY <2>2, <3>1 DEF InUse
    <3> QED
      BY <1>4, <3>1, <3>2
  <2>5. \A d \in Calls : Grants(d) => call'[d].set # jar'.rt
    BY <1>1, <2>2 DEF Safe, Carried, NoCookies
  <2>6. \A d, e \in Calls : Grants(d) =>
          /\ call'[e].rt # call'[d].set
          /\ call'[e].set = call'[d].set => e = d
    BY <2>1, <2>2 DEF Safe, Carried
  <2> QED
    BY <1>2, <1>3, <2>1, <2>2, <2>3, <2>4, <2>5, <2>6 DEF Safe, Carried
<1>7. Cookies'
  BY <1>1 DEF Cookies, NoCookies
<1>8. PresentedOnce'
  <2> SUFFICES ASSUME NEW d \in Calls, call'[d].st = "refreshing", call'[d].rt # None
               PROVE  tok'[call'[d].rt] # Spent
    BY DEF PresentedOnce
  <2>1. call'[d] = call[d]
    BY <1>1, IdleRecord
  <2>2. PICK t \in Tokens : t = call[d].rt
    BY <1>0, <2>1 DEF Record
  <2>3. InUse(t)'
    BY <2>1, <2>2 DEF InUse
  <2> QED
    BY <1>4, <2>1, <2>2, <2>3 DEF Safe, PresentedOnce
<1> QED
  BY <1>5, <1>6, <1>7, <1>8 DEF Safe

LEMMA SafeStartRefresh ==
  ASSUME Safe, TypeOK', NEW c \in Calls, StartRefresh(c)
  PROVE  Safe'
<1>0. /\ call \in [Calls -> Record] /\ Waiting = {} /\ ~Grants(c)
  BY DEF Safe, TypeOK, Record, StartRefresh, Intercepted, SingleFlight, Grants
<1>1. /\ call'[c].st = "refreshing" /\ call'[c].rt = jar.rt /\ call'[c].set = None
      /\ \A d \in Calls : d # c => call'[d] = call[d]
      /\ UNCHANGED <<tok, jar, owner>> /\ isRefreshing'
  BY <1>0 DEF StartRefresh, Refreshing, Idle
<1>2. Waiting' = {c}
  BY <1>0, <1>1 DEF Waiting
<1>3. \A d \in Calls : Grants(d)' <=> Grants(d)
  BY <1>0, <1>1 DEF Grants
<1>4. SingleFlight'
  BY <1>1, <1>2 DEF SingleFlight
<1>5. Carried'
  <2>1. \A d \in Calls : call[d].rt = None
    BY <1>0 DEF Safe, Carried
  <2>2. \A d \in Calls : call'[d].set = call[d].set
    BY <1>0, <1>1 DEF Safe, Carried
  <2>3. \A d \in Calls : Grants(d) => d # c /\ call'[d].who = call[d].who
    BY <1>0, <1>1
  <2> QED
    BY <1>1, <1>2, <1>3, <2>1, <2>2, <2>3 DEF Safe, Carried
<1>6. jar.rt # None => tok[jar.rt] # Spent
  BY <1>0 DEF Safe, Cookies, Awaited, Waiting
<1>7. Cookies'
  BY <1>1, <1>6 DEF Safe, Cookies
<1>8. PresentedOnce'
  BY <1>0, <1>1, <1>6 DEF PresentedOnce, Waiting
<1> QED
  BY <1>4, <1>5, <1>7, <1>8 DEF Safe

LEMMA FinishRefreshCalls ==
  ASSUME Safe, NEW c \in Calls, FinishRefresh(c)
  PROVE  /\ Waiting = {c}
         /\ \A d \in Calls : d # c /\ call[d].st # "queued" => call'[d] = call[d]
         /\ \A d \in Calls : d = c \/ call[d].st = "queued" =>
              /\ call'[d].st \in {"sent", "denied"}
              /\ call'[d].rt = None /\ call'[d].set = None /\ call'[d].who = None
              /\ call'[d].at \in {call[c].who, None}
<1>1. Waiting = {c}
  BY DEF Safe, SingleFlight, Waiting, FinishRefresh
<1>2. call[c].who \in Users \cup {None}
  BY DEF Safe, TypeOK
<1>3. \A b \in BOOLEAN :
        LET r == [Submitted EXCEPT !.again = b] IN
        r.st = "sent" /\ r.rt = None /\ r.set = None /\ r.who = None /\ r.at = None
  BY DEF Submitted, Idle
<1> QED
  BY <1>1, <1>2, <1>3, Records DEF FinishRefresh

LEMMA SafeFinishRefresh ==
  ASSUME Safe, TypeOK', NEW c \in Calls, FinishRefresh(c)
  PROVE  Safe'
<1>0. /\ call \in [Calls -> Record] /\ Grants(c)
      /\ call[c].set \in Tokens /\ call[c].who \in Users
  BY NoneAssumption DEF Safe, TypeOK, Record, FinishRefresh, Grants, Carried
<1>1. /\ jar' = [at |-> call[c].who, rt |-> call[c].set] /\ owner' = call[c].who
      /\ ~isRefreshing'
  BY DEF FinishRefresh, Store
<1>2. /\ \A d \in Calls : d # c => call[d].st \notin {"refreshing", "refreshed", "refused"}
      /\ \A d \in Calls : call[d].rt # None => d = c
  BY FinishRefreshCalls DEF Waiting, Safe, Carried
<1>3. \A d \in Calls : call'[d].rt = None
  BY <1>2, FinishRefreshCalls
<1>4. Waiting' = {} /\ \A d \in Calls : call'[d].st # "queued"
  BY <1>2, FinishRefreshCalls DEF Waiting
<1>5. \A d \in Calls : /\ Grants(d)' => Grants(d) /\ d # c /\ call'[d] = call[d]
                       /\ call'[d].set # None => Grants(d)' /\ call'[d] = call[d]
  BY <1>2, FinishRefreshCalls DEF Grants, Safe, Carried
<1>6. \A t \in Tokens : InUse(t)' => tok'[t] = tok[t]
  BY HeldKeeps DEF FinishRefresh
<1>7. SingleFlight'
  BY <1>1, <1>4 DEF SingleFlight
<1>8. ASSUME NEW d \in Calls, Grants(d), call'[d] = call[d]
      PROVE tok'[call[d].set] = tok[call[d].set]
  <2>1. PICK t \in Tokens : t = call[d].set
    BY <1>0, <1>8 DEF Safe, Carried, Record
  <2>2. InUse(t)'
    BY <1>8, <2>1 DEF InUse
  <2> QED
    BY <1>6, <2>1, <2>2
<1>9. tok'[call[c].set] = tok[call[c].set]
  <2>1. PICK t \in Tokens : t = call[c].set
    BY <1>0
  <2>2. InUse(t)'
    BY <1>1, <2>1 DEF InUse
  <2> QED
    BY <1>6, <2>1, <2>2
<1>10. Carried'
  <2>1. ASSUME NEW d \in Calls, Grants(d), d # c, call'[d] = call[d]
        PROVE  /\ call'[d].set # None
               /\ call'[d].who \in Users
               /\ tok'[call'[d].set] \in {call'[d].who, Ended, Unheard}
               /\ call'[d].set # jar'.rt
    <3>1. tok'[call[d].set] = tok[call[d].set]
      BY <1>8, <2>1
    <3>2. call[d].set # call[c].set
      BY <1>0, <2>1 DEF Safe, Carried
    <3> QED
      BY <1>1, <2>1, <3>1, <3>2 DEF Safe, Carried
  <2>2. ASSUME NEW d \in Calls, Grants(d), d # c, call'[d] = call[d],
               NEW e \in Calls, call'[e].set = call'[d].set
        PROVE  e = d
    <3>1. call'[e] = call[e]
      BY <1>5, <2>1, <2>2
    <3> QED
      BY <2>2, <3>1 DEF Safe, Carried
  <2>3. \A d \in Calls : Grants(d)' => Grants(d) /\ d # c /\ call'[d] = call[d]
    BY <1>5
  <2> QED
    BY <1>3, <1>5, <2>1, <2>2, <2>3 DEF Carried
<1>11. Cookies'
  BY <1>0, <1>1, <1>9, TokAssumption, NoneAssumption DEF Safe, Carried, Cookies
<1>12. PresentedOnce'
  BY <1>3 DEF PresentedOnce
<1> QED
  BY <1>7, <1>10, <1>11, <1>12 DEF Safe

LEMMA SafeLoseRefresh ==
  ASSUME Safe, TypeOK', NEW c \in Calls, LoseRefresh(c)
  PROVE  Safe'
<1>0. call \in [Calls -> Record] /\ c \in Waiting
  BY DEF Safe, TypeOK, Record, LoseRefresh, Waiting
<1>1. /\ call'[c].st = "refused" /\ call'[c].rt = call[c].rt /\ call'[c].set = None
      /\ \A d \in Calls : d # c => call'[d] = call[d]
      /\ UNCHANGED <<jar, owner, isRefreshing>>
      /\ \A t \in Tokens : tok'[t] \in {tok[t], Ended, Unheard}
      /\ \A t \in Tokens : Awaited(c, t) => tok'[t] \in {Ended, Unheard}
  BY <1>0, GivingUp DEF LoseRefresh, tab, Safe, TypeOK
<1>2. Waiting' = Waiting
  BY <1>0, <1>1 DEF Waiting
<1>3. /\ \A d \in Calls \ {c} : Grants(d)' <=> Grants(d)
      /\ ~(Grants(c)')
  BY <1>1 DEF Grants
<1>4. SingleFlight'
  BY <1>1, <1>2 DEF Safe, SingleFlight
<1>5. Carried'
  <2>1. \A d \in Calls : call'[d].rt = call[d].rt
    BY <1>1
  <2>2. \A d \in Calls : call'[d].set # None => d # c /\ call'[d].set = call[d].set
    BY <1>1
  <2>3. \A d \in Calls : Grants(d)' => d # c /\ Grants(d) /\ call'[d] = call[d]
    BY <1>1, <1>3
  <2>4. \A d \in Calls : Grants(d)' => tok'[call[d].set] \in {tok[call[d].set], Ended, Unheard}
    BY <1>0, <1>1, <2>3 DEF Safe, Carried, Record
  <2> QED
    BY <1>1, <1>2, <1>3, <2>1, <2>2, <2>3, <2>4 DEF Safe, Carried
<1>6. Cookies'
  <2>1. jar.rt # None => tok'[jar.rt] \in {tok[jar.rt], Ended, Unheard}
    BY <1>1 DEF Safe, TypeOK
  <2>2. ASSUME jar.rt # None, tok'[jar.rt] = Spent PROVE \E d \in Calls : Awaited(d, jar.rt)'
    <3>1. tok[jar.rt] = Spent
      BY <2>1, <2>2, TokAssumption
    <3>2. PICK d \in Calls : Awaited(d, jar.rt)
      BY <2>2, <3>1 DEF Safe, Cookies
    <3>3. d # c
      BY <1>1, <2>2, <3>2, TokAssumption DEF Safe, TypeOK
    <3> QED
      BY <1>1, <3>2, <3>3 DEF Awaited
  <2> QED
    BY <1>1, <2>1, <2>2 DEF Safe, Cookies
<1>7. PresentedOnce'
  BY <1>0, <1>1, TokAssumption DEF Safe, PresentedOnce, Record
<1> QED
  BY <1>4, <1>5, <1>6, <1>7 DEF Safe

(* Revocations and an access cookie that expires. *)
LEMMA SafeOutside ==
  ASSUME Safe, TypeOK', UNCHANGED <<call, owner, isRefreshing>>, jar'.rt = jar.rt,
         jar'.at \in {jar.at, None},
         \A t \in Tokens : tok'[t] = tok[t] \/ (tok[t] \in Users /\ tok'[t] \in {Ended, Unheard})
  PROVE  Safe'
<1>1. Waiting' = Waiting /\ \A c \in Calls : Grants(c)' <=> Grants(c)
  BY DEF Waiting, Grants
<1>2. SingleFlight'
  BY <1>1 DEF Safe, SingleFlight
<1>3. Carried'
  <2>1. \A c \in Calls : Grants(c) => call[c].set \in Tokens
    BY DEF Safe, TypeOK, Carried
  <2>2. \A c \in Calls : Grants(c) => tok'[call[c].set] \in {call[c].who, Ended, Unheard}
    BY <2>1 DEF Safe, Carried
  <2> QED
    BY <1>1, <2>2 DEF Safe, Carried
<1>4. jar' \in [at : Users \cup {None}, rt : Tokens \cup {None}]
  BY DEF TypeOK
<1>5. jar = NoCookies => jar' = NoCookies
  BY <1>4 DEF NoCookies
<1>6. Cookies'
  <2>1. jar.rt # None => tok'[jar.rt] = tok[jar.rt]
                         \/ (tok[jar.rt] \in Users /\ tok'[jar.rt] \in {Ended, Unheard})
    BY DEF Safe, TypeOK
  <2>2. \A t : (\E d \in Calls : Awaited(d, t)) => \E d \in Calls : Awaited(d, t)'
    BY DEF Awaited
  <2>3. jar'.at \in {None, owner}
    BY DEF Safe, Cookies
  <2> QED
    BY <1>5, <2>1, <2>2, <2>3, TokAssumption DEF Safe, Cookies
<1>7. PresentedOnce'
  BY TokAssumption DEF Safe, TypeOK, PresentedOnce
<1> QED
  BY <1>2, <1>3, <1>6, <1>7 DEF Safe

LEMMA SafeStep == Safe /\ [Next]_vars => Safe'
<1> SUFFICES ASSUME Safe, [Next]_vars PROVE Safe'
  OBVIOUS
<1>0. TypeOK'
  BY TypeStep DEF Safe
<1>1. ASSUME NEW c \in Calls, Plain(c) PROVE Safe'
  BY <1>0, <1>1, PlainKeeps
<1>2. ASSUME NEW p \in Pages, Reload(p) PROVE Safe'
  BY <1>0, <1>2, SafeLoad DEF Reload
<1>3. ASSUME NEW p \in Pages, Navigate(p) PROVE Safe'
  BY <1>0, <1>3, SafeOutside DEF Navigate, history
<1>4. CASE UserActs
  BY <1>1, <1>2, <1>3, <1>4, PlainSteps DEF UserActs
<1>5. CASE ExpireCookie
  <2>1. jar'.rt = jar.rt /\ jar'.at = None
    BY <1>5 DEF ExpireCookie, Safe, TypeOK
  <2> QED
    BY <1>0, <1>5, <2>1, SafeOutside DEF ExpireCookie, tab, history
<1>6. ASSUME NEW u \in Users, RevokeAll(u) PROVE Safe'
  <2>1. \A t \in Tokens : tok'[t] = tok[t] \/ (tok[t] \in Users /\ tok'[t] \in {Ended, Unheard})
    BY <1>6 DEF RevokeAll, Revoked
  <2> QED
    BY <1>0, <1>6, <2>1, SafeOutside DEF RevokeAll, tab
<1>7. CASE Deliver
  BY <1>0, <1>1, <1>7, PlainSteps, SafeDeliverLogout DEF Deliver
<1>8. ASSUME NEW c \in Calls, ServeSignIn(c) PROVE Safe'
  <2>1. CASE Answer(c, Denied(c)) /\ UNCHANGED tok
    <3>1. call'[c] = Denied(c) /\ \A d \in Calls \ {c} : call'[d] = call[d]
      BY <2>1 DEF Answer, Safe, TypeOK
    <3>2. Plain(c)
      BY <1>8, <2>1, <3>1 DEF ServeSignIn, Denied, Idle, Plain, Waiting, tab
    <3> QED
      BY <1>1, <3>2
  <2>2. ASSUME NEW u \in Users, NEW t \in Tokens, Fresh(t), Answer(c, Granted(u, t)),
               tok' = [tok EXCEPT ![t] = u]
        PROVE  Safe'
    <3>1. c \in SignIns /\ call[c].st = "sent" /\ UNCHANGED <<jar, tab, owner>>
      BY <1>8 DEF ServeSignIn
    <3> QED
      BY <1>0, <2>2, <3>1, SafeServeSignIn
  <2> QED
    BY <1>8, <2>1, <2>2 DEF ServeSignIn
<1>9. ASSUME NEW c \in Calls, Handle(c) PROVE Safe'
  BY <1>0, <1>1, <1>8, <1>9, PlainSteps, SafeServeRefresh DEF Handle
<1>10. ASSUME NEW c \in Calls, RejectDenied(c) \/ JoinQueue(c) \/ Lose(c) PROVE Safe'
  BY <1>1, <1>10, PlainSteps DEF RejectDenied, Lose
<1>11. ASSUME NEW c \in Calls, FailRefresh(c) PROVE Safe'
  BY <1>0, <1>11, SafeLoad DEF FailRefresh
<1>12. ASSUME NEW c \in Calls, Arrive(c) PROVE Safe'
  BY <1>0, <1>10, <1>11, <1>12, SafeDeliverSignIn, SafeStartRefresh, SafeFinishRefresh
  DEF Arrive
<1>13. CASE UNCHANGED vars
  BY <1>0, <1>13, SafeOutside DEF vars
<1>14. CASE Next
  BY <1>0, <1>4, <1>5, <1>6, <1>7, <1>9, <1>10, <1>12, <1>14, SafeLoseRefresh DEF Next
<1> QED
  BY <1>13, <1>14

LEMMA Safety == Spec => []Safe
  BY SafeInit, SafeStep, PTL DEF Spec

(* There is at most one refresh at a time, the queue exists only while there *)
(* is one, and isRefreshing says so: no call is left in the queue.           *)
THEOREM OneRefreshAtATime == Spec => []SingleFlight
  BY Safety, PTL DEF Safe

(* No refresh presents a token that has been exchanged: from one tab the      *)
(* rotation of AuthSessions never sees a token twice.                        *)
THEOREM NoTokenTwice == Spec => []PresentedOnce
  BY Safety, PTL DEF Safe

-----------------------------------------------------------------------------
(* After a logout. *)

LEMMA SilentStep == Safe /\ Silent /\ [Next]_vars => Silent'
<1> SUFFICES ASSUME Safe, Silent, [Next]_vars, quiet'
             PROVE  /\ jar' = NoCookies /\ user' = None
                    /\ \A c \in SignIns \cup {"me"} : call'[c].st = "idle"
                    /\ \A c \in Waiting' : call'[c].rt = None /\ call'[c].st # "refreshed"
  BY DEF Silent, InFlight
<1> DEFINE P == /\ jar' = NoCookies /\ user' = None
                /\ \A c \in SignIns \cup {"me"} : call'[c].st = "idle"
                /\ \A c \in Waiting' : call'[c].rt = None /\ call'[c].st # "refreshed"
<1> USE CallNames, IdleRecord
<1>0. call \in [Calls -> Record] /\ jar.at \in Users \cup {None}
  BY DEF Safe, TypeOK, Record
<1>1. CASE DeliverLogout
  <2>1. /\ call'["logout"] = Idle /\ \A d \in Calls : d # "logout" => call'[d] = call[d]
    BY <1>0, <1>1 DEF DeliverLogout
  <2>2. "logout" \notin SignIns \cup {"me"}
    BY DEF SignIns
  <2>3. /\ \A c \in SignIns \cup {"me"} : call[c].st = "idle"
        /\ \A c \in Calls \ {"logout"} : c \notin Waiting
    BY <1>1, <2>2 DEF DeliverLogout, Overlaps, InFlight
  <2>4. \A c \in Calls : c \notin Waiting'
    BY <2>1, <2>3 DEF Waiting
  <2> QED
    BY <1>1, <2>1, <2>2, <2>3, <2>4 DEF DeliverLogout, Waiting
<1>2. ASSUME NEW p, Load(p) PROVE FALSE
  BY <1>2 DEF Load
<1>3. CASE RefreshUser \/ SubmitLogin \/ ClickGoogle
  BY <1>3 DEF RefreshUser, SubmitLogin, ClickGoogle
<1>4. ASSUME ~DeliverLogout, ~(RefreshUser \/ SubmitLogin \/ ClickGoogle),
             \A p : ~Load(p)
      PROVE P
  <2>1. quiet
    BY <1>4 DEF Next, UserActs, Reload, Navigate, Fetch, ClosePopup, ClickLogout,
      ExpireCookie, RevokeAll, Deliver, DeliverMe, Handle, Serve, ServeSignIn, ServeRefresh,
      Arrive, DeliverSignIn, RejectDenied, Rejects, JoinQueue, StartRefresh, FinishRefresh,
      FailRefresh, Lose, LoseRefresh, history, vars
  <2>2. /\ jar = NoCookies /\ jar.at = None /\ jar.rt = None /\ user = None
        /\ \A c \in SignIns \cup {"me"} : call[c].st = "idle"
        /\ \A c \in Waiting : call[c].rt = None /\ call[c].st # "refreshed"
    BY <2>1 DEF Silent, InFlight, NoCookies
  <2>3. ASSUME NEW c \in Calls, c \notin SignIns \cup {"me"},
               jar' = jar, user' = None,
               \A d \in Calls \ {c} : call'[d] = call[d],
               call'[c].rt = None, call'[c].st # "refreshed"
        PROVE  P
    BY <2>2, <2>3 DEF Waiting
  <2>4. ASSUME NEW c \in Calls, InFlight(c) PROVE c \notin SignIns \cup {"me"}
    BY <2>2, <2>4 DEF InFlight
  <2>5. ASSUME UNCHANGED <<jar, user, call>> PROVE P
    BY <2>2, <2>5 DEF Waiting
  <2>6. ASSUME NEW c \in DataCalls, Fetch(c) PROVE P
    <3>1. c \in Calls /\ c \notin SignIns \cup {"me"}
      OBVIOUS
    <3>2. /\ \A d \in Calls \ {c} : call'[d] = call[d]
          /\ call'[c].rt = None /\ call'[c].st # "refreshed"
          /\ jar' = jar /\ user' = None
      BY <1>0, <2>2, <2>6, Records DEF Fetch, tab
    <3> QED
      BY <2>3, <3>1, <3>2
  <2>7. ~ClosePopup /\ ~ClickLogout /\ ~DeliverMe /\ ~ExpireCookie
    BY <2>2 DEF ClosePopup, ClickLogout, DeliverMe, ExpireCookie, SignIns
  <2>8. ASSUME NEW c \in Calls, Serve(c) PROVE P
    <3>1. c \notin SignIns \cup {"me"}
      BY <2>2, <2>8 DEF Serve
    <3>2. /\ Denied(c).rt = None /\ Denied(c).st # "refreshed"
          /\ Granted(call[c].at, None).rt = None /\ Granted(call[c].at, None).st # "refreshed"
      BY DEF Denied, Granted, Idle
    <3>3. /\ \A d \in Calls \ {c} : call'[d] = call[d]
          /\ call'[c].rt = None /\ call'[c].st # "refreshed"
          /\ jar' = jar /\ user' = None
      BY <1>0, <2>2, <2>8, <3>2 DEF Serve, Answer, tab
    <3> QED
      BY <2>3, <3>1, <3>3
  <2>9. ASSUME NEW c \in Calls PROVE ~ServeSignIn(c) /\ ~DeliverSignIn(c) /\ ~FinishRefresh(c)
    BY <2>2 DEF ServeSignIn, DeliverSignIn, FinishRefresh, Waiting
  <2>10. ASSUME NEW c \in Calls, ServeRefresh(c) PROVE P
    <3>1. c \notin SignIns \cup {"me"} /\ call[c].rt = None
      BY <2>2, <2>10 DEF ServeRefresh, Waiting
    <3>2. call' = [call EXCEPT ![c] = [call[c] EXCEPT !.st = "refused"]]
      BY <2>10, <3>1 DEF ServeRefresh, Answer
    <3>3. /\ \A d \in Calls \ {c} : call'[d] = call[d]
          /\ call'[c].rt = None /\ call'[c].st # "refreshed"
      BY <1>0, <3>1, <3>2 DEF Record
    <3> QED
      BY <2>2, <2>3, <2>10, <3>1, <3>3 DEF ServeRefresh, tab
  <2>11. ASSUME NEW c \in Calls, InFlight(c), Rejects(c) PROVE P
    <3>1. c \notin SignIns \cup {"me"}
      BY <2>4, <2>11
    <3>2. /\ \A d \in Calls \ {c} : call'[d] = call[d]
          /\ call'[c] = Idle /\ jar' = jar /\ user' = None
      BY <1>0, <2>2, <2>11, <3>1 DEF Rejects
    <3> QED
      BY <2>3, <3>1, <3>2
  <2>12. ASSUME NEW c \in Calls, JoinQueue(c) PROVE P
    <3>1. c \notin SignIns \cup {"me"}
      BY <2>2, <2>12 DEF JoinQueue, Intercepted
    <3>2. /\ \A d \in Calls \ {c} : call'[d] = call[d]
          /\ call'[c].rt = None /\ call'[c].st # "refreshed"
          /\ jar' = jar /\ user' = None
      BY <1>0, <2>2, <2>12 DEF JoinQueue, Idle, tab
    <3> QED
      BY <2>3, <3>1, <3>2
  <2>13. ASSUME NEW c \in Calls, StartRefresh(c) PROVE P
    <3>1. c \notin SignIns \cup {"me"}
      BY <2>2, <2>13 DEF StartRefresh, Intercepted
    <3>2. /\ \A d \in Calls \ {c} : call'[d] = call[d]
          /\ call'[c].rt = None /\ call'[c].st # "refreshed"
          /\ jar' = jar /\ user' = None
      BY <1>0, <2>2, <2>13 DEF StartRefresh, Refreshing, Idle
    <3> QED
      BY <2>3, <3>1, <3>2
  <2>14. ASSUME NEW c \in Calls, LoseRefresh(c) PROVE P
    <3>1. c \notin SignIns \cup {"me"} /\ c \in Waiting
      BY <2>2, <2>14 DEF LoseRefresh, Waiting
    <3>2. /\ \A d \in Calls \ {c} : call'[d] = call[d]
          /\ call'[c].rt = None /\ call'[c].st # "refreshed"
          /\ jar' = jar /\ user' = None
      BY <1>0, <2>2, <2>14, <3>1 DEF LoseRefresh, tab
    <3> QED
      BY <2>3, <3>1, <3>2
  <2> HIDE DEF P
  <2>15. CASE UserActs
    BY <1>4, <2>5, <2>6, <2>7, <2>15 DEF UserActs, Reload, Navigate, history
  <2>16. ASSUME NEW c \in Calls, Arrive(c) PROVE P
    BY <1>4, <2>9, <2>11, <2>12, <2>13, <2>16
    DEF Arrive, RejectDenied, FailRefresh, InFlight
  <2>17. ASSUME NEW c \in Calls, Handle(c) PROVE P
    BY <2>8, <2>9, <2>10, <2>17 DEF Handle
  <2>18. ASSUME NEW c \in Calls, Lose(c) PROVE P
    BY <2>11, <2>18 DEF Lose, InFlight
  <2>19. ASSUME NEW u \in Users, RevokeAll(u) PROVE P
    BY <2>5, <2>19 DEF RevokeAll, tab
  <2>20. CASE UNCHANGED vars
    BY <2>5, <2>20 DEF vars
  <2> QED
    BY <1>4, <2>7, <2>14, <2>15, <2>16, <2>17, <2>18, <2>19, <2>20 DEF Next, Deliver
<1> QED
  BY <1>1, <1>2, <1>3, <1>4

-----------------------------------------------------------------------------
(* Sign-ins that overlap nothing. *)

(* The step starts no sign-in, no user fetch and no refresh. *)
Calm ==
  /\ crossed' = crossed
  /\ Waiting' \subseteq Waiting
  /\ \A c \in SignIns \cup {"me"} : call[c].st = "idle" => call'[c].st = "idle"

LEMMA CalmSteps ==
  ASSUME Safe,
         \/ \E p \in Pages : Navigate(p)
         \/ \E c \in DataCalls : Fetch(c)
         \/ ClosePopup \/ ClickLogout \/ DeliverMe \/ DeliverLogout \/ ExpireCookie
         \/ \E u \in Users : RevokeAll(u)
         \/ \E c \in Calls : \/ Handle(c) \/ DeliverSignIn(c) \/ RejectDenied(c)
                             \/ JoinQueue(c) \/ FinishRefresh(c) \/ Lose(c)
                             \/ LoseRefresh(c)
         \/ UNCHANGED vars
  PROVE  Calm
<1> USE CallNames, IdleRecord
<1>0. call \in [Calls -> Record] /\ jar.at \in Users \cup {None}
  BY DEF Safe, TypeOK, Record
<1>1. ASSUME crossed' = crossed, call' = call PROVE Calm
  BY <1>1 DEF Calm, Waiting
<1>2. ASSUME NEW c \in Calls, crossed' = crossed,
             \A d \in Calls \ {c} : call'[d] = call[d],
             call'[c].st \in {"refreshing", "refreshed", "refused"} => c \in Waiting,
             c \in SignIns \cup {"me"} => call[c].st # "idle"
      PROVE  Calm
  BY <1>2 DEF Calm, Waiting
<1>3. ASSUME NEW c \in DataCalls, Fetch(c) PROVE Calm
  <2>1. /\ \A d \in Calls \ {c} : call'[d] = call[d]
        /\ call'[c].st \in {"sent", "denied"} /\ crossed' = crossed
        /\ c \in Calls /\ c \notin SignIns \cup {"me"}
    BY <1>0, <1>3, Records DEF Fetch, history
  <2> QED
    BY <1>2, <2>1
<1>4. CASE ClosePopup
  BY <1>0, <1>2, <1>4 DEF ClosePopup, SignIns, history
<1>5. CASE ClickLogout
  <2>1. /\ \A d \in Calls \ {"logout"} : call'[d] = call[d]
        /\ call'["logout"].st \in {"sent", "denied"} /\ crossed' = crossed
        /\ "logout" \in Calls /\ "logout" \notin SignIns \cup {"me"}
    BY <1>0, <1>5, Records DEF ClickLogout, history, SignIns
  <2> QED
    BY <1>2, <2>1
<1>6. CASE DeliverMe
  BY <1>0, <1>2, <1>6 DEF DeliverMe, history
<1>7. CASE DeliverLogout
  BY <1>0, <1>2, <1>7 DEF DeliverLogout, SignIns
<1>8. ASSUME NEW c \in Calls, Serve(c) PROVE Calm
  <2>1. Denied(c).st = "denied" /\ Granted(call[c].at, None).st = "ok"
    BY DEF Denied, Granted, Idle
  <2> QED
    BY <1>0, <1>2, <1>8, <2>1 DEF Serve, Answer
<1>9. ASSUME NEW c \in Calls, ServeSignIn(c) PROVE Calm
  <2>1. Denied(c).st = "denied" /\ \A u, t : Granted(u, t).st = "ok"
    BY DEF Denied, Granted, Idle
  <2> QED
    BY <1>0, <1>2, <1>9, <2>1 DEF ServeSignIn, Answer
<1>10. ASSUME NEW c \in Calls, ServeRefresh(c) \/ LoseRefresh(c) PROVE Calm
  <2>1. c \in Waiting /\ call[c].st # "idle" /\ crossed' = crossed
    BY <1>10 DEF ServeRefresh, LoseRefresh, Waiting
  <2>2. \A d \in Calls \ {c} : call'[d] = call[d]
    BY <1>0, <1>10 DEF ServeRefresh, LoseRefresh, Answer
  <2> QED
    BY <1>2, <2>1, <2>2
<1>11. ASSUME NEW c \in Calls, DeliverSignIn(c) PROVE Calm
  BY <1>0, <1>2, <1>11 DEF DeliverSignIn
<1>12. ASSUME NEW c \in Calls, call[c].st # "idle", Rejects(c) PROVE Calm
  BY <1>0, <1>2, <1>12 DEF Rejects, history
<1>13. ASSUME NEW c \in Calls, JoinQueue(c) PROVE Calm
  <2>1. [Idle EXCEPT !.st = "queued"].st = "queued"
    BY DEF Idle
  <2> QED
    BY <1>0, <1>2, <1>13, <2>1 DEF JoinQueue, Intercepted, history
<1>14. ASSUME NEW c \in Calls, FinishRefresh(c) PROVE Calm
  <2>1. \A d \in Calls : d # c /\ call[d].st # "queued" => call'[d] = call[d]
    BY <1>14, FinishRefreshCalls
  <2>2. \A d \in Calls : d = c \/ call[d].st = "queued" => call'[d].st \in {"sent", "denied"}
    BY <1>14, FinishRefreshCalls
  <2>3. call[c].st = "refreshed" /\ crossed' = crossed
    BY <1>14 DEF FinishRefresh
  <2> QED
    BY <2>1, <2>2, <2>3 DEF Calm, Waiting
<1> QED
  BY <1>1, <1>3, <1>4, <1>5, <1>6, <1>7, <1>8, <1>9, <1>10, <1>11, <1>12, <1>13, <1>14
  DEF Navigate, ExpireCookie, RevokeAll, Handle, RejectDenied, Lose, history, tab, vars

LEMMA AloneStep == Safe /\ Alone /\ [Next]_vars => Alone'
<1> SUFFICES ASSUME Safe, Alone, [Next]_vars, ~crossed'
             PROVE  \A s \in SignIns : call'[s].st # "idle" =>
                      call'["me"].st = "idle" /\ Waiting' \subseteq {s}
  BY DEF Alone, InFlight
<1> DEFINE P == \A s \in SignIns : call'[s].st # "idle" =>
                  call'["me"].st = "idle" /\ Waiting' \subseteq {s}
<1> USE CallNames, IdleRecord
<1>0. call \in [Calls -> Record] /\ jar.at \in Users \cup {None}
  BY DEF Safe, TypeOK, Record
<1>1. CASE Calm
  BY <1>1 DEF Calm, Alone, InFlight
<1>2. ASSUME NEW p, Load(p) PROVE P
  BY <1>2 DEF Load, SignIns
<1>3. CASE RefreshUser
  BY <1>0, <1>3 DEF RefreshUser, InFlight, SignIns
<1>4. ASSUME NEW s \in SignIns, call' = [call EXCEPT ![s] = Submitted],
             ~InFlight(s), ~Overlaps(s)
      PROVE P
  <2>1. \A d \in Calls \ {s} : call'[d] = call[d]
    BY <1>0, <1>4
  <2>2. /\ call["me"].st = "idle" /\ "me" # s
        /\ \A d \in SignIns \ {s} : call[d].st = "idle"
        /\ Waiting = {}
    BY <1>4 DEF Overlaps, InFlight, SignIns, Waiting
  <2> QED
    BY <1>0, <1>4, <2>1, <2>2 DEF Waiting
<1>5. CASE SubmitLogin
  BY <1>4, <1>5 DEF SubmitLogin, SignIns
<1>6. CASE ClickGoogle
  BY <1>4, <1>6 DEF ClickGoogle, SignIns
<1>7. ASSUME NEW c \in Calls, StartRefresh(c) PROVE P
  <2>1. Waiting = {} /\ call[c].st = "denied" /\ ~crossed
    BY <1>7 DEF StartRefresh, Intercepted, Safe, SingleFlight
  <2>2. \A d \in Calls \ {c} : call'[d] = call[d]
    BY <1>0, <1>7 DEF StartRefresh
  <2>3. Waiting' \subseteq {c}
    BY <2>1, <2>2 DEF Waiting
  <2>4. \A s \in SignIns \ {c} : call'[s].st = "idle"
    BY <1>7, <2>2 DEF StartRefresh, InFlight
  <2>5. c \in SignIns => call'["me"].st = "idle"
    BY <2>1, <2>2 DEF Alone, InFlight, SignIns
  <2> QED
    BY <2>3, <2>4, <2>5
<1> HIDE DEF P
<1>8. ASSUME NEW c \in Calls, Arrive(c) PROVE P
  BY <1>1, <1>2, <1>7, <1>8, CalmSteps DEF Arrive, FailRefresh, P
<1>9. CASE UserActs
  BY <1>1, <1>2, <1>3, <1>5, <1>6, <1>9, CalmSteps DEF UserActs, Reload, P
<1>10. CASE Next
  BY <1>1, <1>8, <1>9, <1>10, CalmSteps DEF Next, Deliver, P
<1> QED
  BY <1>1, <1>10, CalmSteps DEF P

(* What a step may do to the owner, to the user fetch and to the refreshes   *)
(* without bringing in another user.                                         *)
SameUser(w) ==
  /\ owner' \in {w, None}
  /\ user' \in {w, None}
  /\ call'["me"].st # "idle" => call'["me"].at \in {w, None} /\ call'["me"].who \in {w, None}
Refreshes ==
  \A c \in Waiting' : call'[c].st # "refused" =>
    /\ c \in Waiting /\ call'[c] = call[c]
    /\ call[c].st = "refreshing" /\ call[c].rt # None
         => tok'[call[c].rt] \in {tok[call[c].rt], Ended, Unheard}

LEMMA SameUserStep ==
  ASSUME NEW w, One(w), SameUser(w), Refreshes
  PROVE  One(w)'
<1>1. ASSUME NEW c \in Waiting', call'[c].st # "refused"
      PROVE  /\ call'[c].st = "refreshed" => call'[c].who = w
             /\ call'[c].st = "refreshing" /\ call'[c].rt # None
                  => tok'[call'[c].rt] \in {w, Ended, Unheard, Spent}
  BY <1>1 DEF Refreshes, One
<1> QED
  BY <1>1 DEF One, SameUser, InFlight

LEMMA SingleLoad ==
  ASSUME Safe, jar' = jar, owner' = owner, NEW p, Load(p)
  PROVE  Single'
<1>0. jar.at \in {owner, None} /\ owner \in Users \cup {None}
  BY DEF Safe, TypeOK, Cookies
<1>1. \A c \in Calls : call'[c].st \in {"idle", "sent", "denied"}
  BY <1>0, Records, IdleRecord DEF Load
<1>2. Waiting' = {}
  BY <1>1 DEF Waiting
<1>3. call'["me"].at = jar.at /\ call'["me"].who = None
  BY <1>0, Records, CallNames DEF Load
<1>4. user' = None
  BY DEF Load
<1>5. PICK w \in Users \cup {None} : w = owner
  BY <1>0
<1>6. One(w)'
  BY <1>0, <1>2, <1>3, <1>4, <1>5 DEF One
<1> QED
  BY <1>6 DEF Single

LEMMA SingleStep == Safe /\ Alone /\ Single /\ [Next]_vars => Single'
<1> DEFINE P == \E w \in Users \cup {None} : One(w)'
<1> SUFFICES ASSUME Safe, Alone, Single, [Next]_vars, ~crossed'
             PROVE  P
  BY DEF Single
<1> USE CallNames, IdleRecord
<1>0. /\ call \in [Calls -> Record] /\ jar.at \in Users \cup {None}
      /\ owner \in Users \cup {None} /\ jar.at \in {owner, None}
      /\ owner = None => jar.rt = None
  BY DEF Safe, TypeOK, Record, Cookies, NoCookies
<1>1. ASSUME NEW p, jar' = jar, owner' = owner, Load(p) PROVE P
  BY <1>1, SingleLoad DEF Single, Load
<1>2. ASSUME ~crossed, \A w \in Users \cup {None} : One(w) => SameUser(w), Refreshes PROVE P
  <2>1. PICK w \in Users \cup {None} : One(w)
    BY <1>2 DEF Single
  <2> QED
    BY <1>2, <2>1, SameUserStep
(* Steps of one call that is no refresh. *)
<1>3. ASSUME NEW c \in Calls, call'[c].st \notin {"refreshing", "refreshed", "refused"},
             \A d \in Calls \ {c} : call'[d] = call[d],
             \A t \in Tokens : InUse(t)' /\ tok[t] # Spent => tok'[t] \in {tok[t], Ended, Unheard}
      PROVE  Refreshes
  <2> SUFFICES ASSUME NEW d \in Waiting'
               PROVE  /\ d \in Waiting /\ call'[d] = call[d]
                      /\ call[d].st = "refreshing" /\ call[d].rt # None
                           => tok'[call[d].rt] \in {tok[call[d].rt], Ended, Unheard}
    BY DEF Refreshes
  <2>1. d \in Calls /\ d # c /\ call'[d] = call[d] /\ d \in Waiting
    BY <1>3 DEF Waiting
  <2>2. ASSUME call[d].st = "refreshing", call[d].rt # None
        PROVE  tok'[call[d].rt] \in {tok[call[d].rt], Ended, Unheard}
    <3>1. PICK t \in Tokens : t = call[d].rt
      BY <1>0, <2>1, <2>2 DEF Record
    <3>2. InUse(t)'
      BY <2>1, <3>1 DEF InUse
    <3>3. tok[t] # Spent
      BY <2>1, <2>2, <3>1 DEF Safe, PresentedOnce
    <3> QED
      BY <1>3, <3>1, <3>2, <3>3
  <2> QED
    BY <2>1, <2>2
<1>4. ASSUME NEW c \in Calls, ~crossed, UNCHANGED <<owner, user>>,
             call'[c].st \notin {"refreshing", "refreshed", "refused"},
             \A d \in Calls \ {c} : call'[d] = call[d],
             \A t \in Tokens : InUse(t)' /\ tok[t] # Spent => tok'[t] \in {tok[t], Ended, Unheard},
             c = "me" /\ call'[c].st # "idle" =>
               /\ call'[c].at \in {owner, None}
               /\ call'[c].who \in {None}
      PROVE  P
  <2>1. Refreshes
    BY <1>3, <1>4
  <2>2. \A w \in Users \cup {None} : One(w) => SameUser(w)
    BY <1>4 DEF One, SameUser, InFlight
  <2> QED
    BY <1>2, <1>4, <2>1, <2>2
<1>5. ASSUME NEW c \in DataCalls, Fetch(c) PROVE P
  <2>1. /\ call'[c].st \in {"sent", "denied"} /\ \A d \in Calls \ {c} : call'[d] = call[d]
        /\ UNCHANGED <<owner, user, tok, crossed>>
    BY <1>0, <1>5, Records DEF Fetch, tab, history
  <2> QED
    BY <1>4, <2>1
<1>6. CASE RefreshUser
  <2>1. /\ call'["me"].st \in {"sent", "denied"}
        /\ call'["me"].at = jar.at /\ call'["me"].who = None
        /\ \A d \in Calls \ {"me"} : call'[d] = call[d]
        /\ UNCHANGED <<owner, user, tok>> /\ ~crossed
    BY <1>0, <1>6, Records DEF RefreshUser, tab
  <2> QED
    BY <1>0, <1>4, <2>1
<1>7. CASE SubmitLogin
  BY <1>0, <1>4, <1>7 DEF SubmitLogin, tab
<1>8. CASE ClickGoogle
  BY <1>0, <1>4, <1>8 DEF ClickGoogle, tab
<1>9. CASE ClosePopup
  BY <1>0, <1>4, <1>9 DEF ClosePopup, tab, history
<1>10. CASE ClickLogout
  <2>1. /\ call'["logout"].st \in {"sent", "denied"}
        /\ \A d \in Calls \ {"logout"} : call'[d] = call[d]
        /\ UNCHANGED <<owner, user, tok, crossed>>
    BY <1>0, <1>10, Records DEF ClickLogout, tab, history
  <2> QED
    BY <1>4, <2>1
<1>11. CASE DeliverMe
  <2>1. /\ call'["me"] = Idle /\ \A d \in Calls \ {"me"} : call'[d] = call[d]
        /\ user' = call["me"].who /\ InFlight("me") /\ UNCHANGED <<owner, tok, crossed>>
    BY <1>0, <1>11 DEF DeliverMe, Show, history, InFlight
  <2>2. Refreshes
    BY <1>3, <2>1
  <2>3. \A w \in Users \cup {None} : One(w) => SameUser(w)
    BY <2>1 DEF One, SameUser
  <2> QED
    BY <1>2, <2>1, <2>2, <2>3
<1>12. CASE DeliverLogout
  <2>1. /\ call'["logout"] = Idle /\ \A d \in Calls \ {"logout"} : call'[d] = call[d]
        /\ user' = None /\ owner' = None /\ crossed' = crossed
    BY <1>0, <1>12 DEF DeliverLogout
  <2>2. \A t \in Tokens : InUse(t)' => tok'[t] = tok[t]
    BY <1>12, HeldKeeps DEF DeliverLogout
  <2>3. Refreshes
    BY <1>3, <2>1, <2>2
  <2>4. \A w \in Users \cup {None} : One(w) => SameUser(w)
    BY <2>1 DEF One, SameUser, InFlight
  <2> QED
    BY <1>2, <2>1, <2>3, <2>4
<1>13. ASSUME NEW c \in Calls, call[c].st # "idle", Rejects(c) PROVE P
  <2>1. /\ call'[c] = Idle /\ \A d \in Calls \ {c} : call'[d] = call[d]
        /\ user' \in {user, None} /\ UNCHANGED <<owner, crossed>>
    BY <1>0, <1>13 DEF Rejects, Show, history
  <2>2. \A t \in Tokens : InUse(t)' => tok'[t] = tok[t]
    BY <1>13, HeldKeeps DEF Rejects
  <2>3. Refreshes
    BY <1>3, <2>1, <2>2
  <2>4. \A w \in Users \cup {None} : One(w) => SameUser(w)
    BY <2>1 DEF One, SameUser, InFlight
  <2> QED
    BY <1>2, <2>1, <2>3, <2>4
<1>14. ASSUME NEW c \in Calls, JoinQueue(c) PROVE P
  <2>1. LET r == [Idle EXCEPT !.st = "queued"] IN
        r.st = "queued" /\ r.at = None /\ r.who = None
    BY DEF Idle
  <2> QED
    BY <1>0, <1>4, <1>14, <2>1 DEF JoinQueue, tab, history
<1>15. ASSUME NEW c \in Calls, Serve(c) PROVE P
  <2>1. /\ Denied(c).st = "denied" /\ Denied(c).at = None /\ Denied(c).who = None
        /\ Granted(call[c].at, None).st = "ok" /\ Granted(call[c].at, None).at = None
        /\ Granted(call[c].at, None).who = call[c].at
    BY DEF Denied, Granted, Idle
  <2>2. /\ \A d \in Calls \ {c} : call'[d] = call[d]
        /\ call'[c] = Idle \/ call'[c] = Denied(c) \/ call'[c] = Granted(call[c].at, None)
        /\ call[c].st = "sent" /\ UNCHANGED <<owner, user, crossed>>
    BY <1>0, <1>15 DEF Serve, Answer, tab
  <2>3. \A t \in Tokens : tok'[t] \in {tok[t], Ended, Unheard}
    BY <1>15 DEF Serve, Revoked
  <2>4. Refreshes
    BY <1>3, <2>1, <2>2, <2>3
  <2>5. \A w \in Users \cup {None} : One(w) => SameUser(w)
    BY <2>1, <2>2 DEF One, SameUser, InFlight
  <2> QED
    BY <1>2, <2>2, <2>4, <2>5
<1>16. ASSUME NEW c \in Calls, ServeSignIn(c) PROVE P
  <2>1. Denied(c).st = "denied" /\ \A u, t : Granted(u, t).st = "ok"
    BY DEF Denied, Granted, Idle
  <2>2. /\ \A d \in Calls \ {c} : call'[d] = call[d]
        /\ call'[c].st \in {"denied", "ok"} /\ c # "me"
        /\ UNCHANGED <<owner, user, crossed>>
    BY <1>0, <1>16, <2>1 DEF ServeSignIn, Answer, tab, SignIns
  <2>3. Refreshes
    <3>1. CASE UNCHANGED tok
      BY <1>3, <2>2, <3>1
    <3>2. ASSUME NEW u \in Users, NEW t \in Tokens, Fresh(t), tok' = [tok EXCEPT ![t] = u]
          PROVE Refreshes
      <4>1. \A d \in Waiting' : d \in Waiting /\ d \in Calls /\ call'[d] = call[d]
        BY <2>2 DEF Waiting
      <4>2. \A d \in Calls : call[d].rt # t
        BY <3>2 DEF Fresh
      <4>3. \A d \in Calls : call[d].rt # None => tok'[call[d].rt] = tok[call[d].rt]
        BY <1>0, <3>2, <4>2 DEF Record, Safe, TypeOK
      <4> QED
        BY <4>1, <4>3 DEF Refreshes
    <3> QED
      BY <1>16, <3>1, <3>2 DEF ServeSignIn
  <2>4. \A w \in Users \cup {None} : One(w) => SameUser(w)
    BY <2>2 DEF One, SameUser, InFlight
  <2> QED
    BY <1>2, <2>2, <2>3, <2>4
<1>17. ASSUME NEW c \in Calls, ServeRefresh(c) PROVE P
  <2>0. /\ UNCHANGED <<owner, user, crossed>> /\ c \in Waiting /\ InFlight(c)
        /\ Waiting = {c} /\ call[c].st = "refreshing"
    BY <1>17 DEF ServeRefresh, tab, Waiting, Safe, SingleFlight, InFlight
  <2>1. PICK w \in Users \cup {None} : One(w)
    BY <2>0 DEF Single
  <2>2. CASE call[c].rt = None \/ tok[call[c].rt] \notin Users
    <3>1. /\ call' = [call EXCEPT ![c] = [call[c] EXCEPT !.st = "refused"]] /\ tok' = tok
      BY <1>17, <2>2 DEF ServeRefresh, Answer
    <3>2. /\ call'[c].st = "refused" /\ call'[c].at = call[c].at /\ call'[c].who = call[c].who
          /\ \A d \in Calls \ {c} : call'[d] = call[d]
      BY <1>0, <3>1 DEF Record
    <3>3. Refreshes
      BY <2>0, <3>2 DEF Refreshes, Waiting
    <3>4. SameUser(w)
      BY <2>0, <2>1, <3>2 DEF One, SameUser, InFlight
    <3> QED
      BY <2>1, <3>3, <3>4, SameUserStep
  <2>3. CASE ~(call[c].rt = None \/ tok[call[c].rt] \notin Users)
    <3>1. PICK t \in Tokens :
            call' = [call EXCEPT ![c] = [call[c] EXCEPT !.st = "refreshed", !.set = t,
                                                        !.who = tok[call[c].rt]]]
      BY <1>17, <2>3 DEF ServeRefresh, Answer
    <3>2. /\ call'[c].st = "refreshed" /\ call'[c].at = call[c].at
          /\ call'[c].who = tok[call[c].rt]
          /\ \A d \in Calls \ {c} : call'[d] = call[d]
      BY <1>0, <3>1 DEF Record
    <3>3. tok[call[c].rt] = w
      BY <2>0, <2>1, <2>3, TokAssumption DEF One
    <3>4. \A d \in Waiting' : d = c
      BY <2>0, <3>2 DEF Waiting
    <3>5. One(w)'
      BY <2>0, <2>1, <3>2, <3>3, <3>4 DEF One, InFlight
    <3> QED
      BY <3>5
  <2> QED
    BY <2>2, <2>3
<1>18. ASSUME NEW c \in Calls, DeliverSignIn(c) PROVE P
  <2>1. /\ ~crossed /\ c \in SignIns /\ call[c].st = "ok" /\ call[c].who \in Users
        /\ owner' = call[c].who /\ user' = call[c].who
        /\ call'[c] = Idle /\ \A d \in Calls \ {c} : call'[d] = call[d]
    BY <1>0, <1>18 DEF DeliverSignIn, Store, Safe, Carried, Grants
  <2>2. call["me"].st = "idle" /\ "me" # c /\ Waiting \subseteq {c}
    BY <2>1 DEF Alone, InFlight, SignIns
  <2>3. Waiting' = {} /\ call'["me"].st = "idle"
    BY <2>1, <2>2 DEF Waiting
  <2>4. PICK w \in Users : w = call[c].who
    BY <2>1
  <2>5. One(w)'
    BY <2>1, <2>3, <2>4 DEF One, InFlight
  <2> QED
    BY <2>5
<1>19. ASSUME NEW c \in Calls, StartRefresh(c) PROVE P
  <2>1. /\ Waiting = {} /\ InFlight(c) /\ ~crossed /\ UNCHANGED <<owner, user, tok>>
        /\ \A d \in Calls \ {c} : call'[d] = call[d]
        /\ call'[c].st = "refreshing" /\ call'[c].rt = jar.rt
        /\ call'[c].at = None /\ call'[c].who = None
    BY <1>0, <1>19
    DEF StartRefresh, Refreshing, Idle, Intercepted, InFlight, Safe, SingleFlight
  <2>2. PICK w \in Users \cup {None} : One(w)
    BY <2>1 DEF Single
  <2>3. jar.rt # None => tok[jar.rt] \in {w, Ended, Unheard, Spent}
    BY <1>0, <2>2 DEF Safe, Cookies, One
  <2>4. \A d \in Waiting' : d = c
    BY <2>1 DEF Waiting
  <2>5. One(w)'
    BY <2>1, <2>2, <2>3, <2>4 DEF One, InFlight
  <2> QED
    BY <2>5
<1>20. ASSUME NEW c \in Calls, FinishRefresh(c) PROVE P
  <2>1. /\ owner' = call[c].who /\ UNCHANGED <<user, crossed>> /\ call[c].st = "refreshed"
    BY <1>20 DEF FinishRefresh, Store
  <2>2. Waiting = {c}
    BY <1>20, FinishRefreshCalls
  <2>3. PICK w \in Users \cup {None} : One(w)
    BY <2>1 DEF Single
  <2>4. call[c].who = w
    BY <2>1, <2>2, <2>3 DEF One
  <2>5. \A d \in Calls : d # c /\ call[d].st # "queued" => call'[d] = call[d]
    BY <1>20, FinishRefreshCalls
  <2>6. \A d \in Calls : d = c \/ call[d].st = "queued" =>
          /\ call'[d].st \in {"sent", "denied"} /\ call'[d].who = None
          /\ call'[d].at \in {call[c].who, None}
    BY <1>20, FinishRefreshCalls
  <2>7. Waiting' = {}
    BY <2>2, <2>5, <2>6 DEF Waiting
  <2>8. call'["me"].st # "idle" => call'["me"].at \in {w, None} /\ call'["me"].who \in {w, None}
    BY <2>3, <2>4, <2>5, <2>6 DEF One, InFlight
  <2>9. One(w)'
    BY <2>1, <2>3, <2>4, <2>7, <2>8 DEF One, InFlight
  <2> QED
    BY <2>9
<1>21. ASSUME NEW c \in Calls, LoseRefresh(c) PROVE P
  <2>1. /\ call'[c].st = "refused" /\ call'[c].at = call[c].at /\ call'[c].who = None
        /\ \A d \in Calls \ {c} : call'[d] = call[d]
        /\ InFlight(c) /\ Waiting = {c} /\ UNCHANGED <<owner, user, crossed>>
    BY <1>0, <1>21 DEF LoseRefresh, tab, Record, InFlight, Waiting, Safe, SingleFlight
  <2>2. Refreshes
    BY <2>1 DEF Refreshes, Waiting
  <2>3. \A w \in Users \cup {None} : One(w) => SameUser(w)
    BY <2>1 DEF One, SameUser, InFlight
  <2> QED
    BY <1>2, <2>1, <2>2, <2>3
<1>22. ASSUME UNCHANGED <<owner, call, crossed>>, user' = user,
              \A t \in Tokens : tok'[t] \in {tok[t], Ended, Unheard}
       PROVE  P
  <2>1. \A c \in Calls : call[c].rt # None => tok'[call[c].rt] \in {tok[call[c].rt], Ended, Unheard}
    BY <1>0, <1>22 DEF Record
  <2>2. Refreshes
    BY <1>22, <2>1 DEF Refreshes, Waiting
  <2>3. \A w \in Users \cup {None} : One(w) => SameUser(w)
    BY <1>22 DEF One, SameUser, InFlight
  <2> QED
    BY <1>2, <1>22, <2>2, <2>3
<1>23. ASSUME NEW p \in Pages, Reload(p) PROVE P
  BY <1>1, <1>23 DEF Reload
<1>24. ASSUME NEW c \in Calls, FailRefresh(c) PROVE P
  BY <1>1, <1>24 DEF FailRefresh
<1>25. ASSUME NEW p \in Pages, Navigate(p) PROVE P
  BY <1>22, <1>25 DEF Navigate, history
<1>26. CASE ExpireCookie
  BY <1>22, <1>26 DEF ExpireCookie, tab, history
<1>27. ASSUME NEW u \in Users, RevokeAll(u) PROVE P
  BY <1>22, <1>27 DEF RevokeAll, Revoked, tab
<1>28. CASE UNCHANGED vars
  BY <1>22, <1>28 DEF vars
<1> HIDE DEF P
<1>29. CASE UserActs
  BY <1>5, <1>6, <1>7, <1>8, <1>9, <1>10, <1>23, <1>25, <1>29 DEF UserActs
<1>30. ASSUME NEW c \in Calls, Arrive(c) PROVE P
  BY <1>13, <1>14, <1>18, <1>19, <1>20, <1>24, <1>30 DEF Arrive, RejectDenied
<1>31. ASSUME NEW c \in Calls, Handle(c) PROVE P
  BY <1>15, <1>16, <1>17, <1>31 DEF Handle
<1>32. ASSUME NEW c \in Calls, Lose(c) PROVE P
  BY <1>13, <1>32 DEF Lose
<1>33. CASE Next
  BY <1>11, <1>12, <1>21, <1>26, <1>27, <1>29, <1>30, <1>31, <1>32, <1>33 DEF Next, Deliver
<1> QED
  BY <1>28, <1>33

LEMMA InitIInv == Init => IInv
<1> SUFFICES ASSUME Init PROVE IInv
  OBVIOUS
<1>1. \A c \in Calls : call[c].st \in {"idle", "sent", "denied"}
  BY Records, IdleRecord DEF Init
<1>2. call["me"].at = None /\ call["me"].who = None
  BY Records, CallNames DEF Init
<1>3. Waiting = {} /\ \A c \in SignIns : ~InFlight(c)
  BY <1>1, IdleRecord, CallNames DEF Waiting, Init, InFlight, SignIns
<1>4. One(None)
  BY <1>2, <1>3 DEF One, Init
<1> QED
  BY <1>3, <1>4, SafeInit DEF IInv, Silent, Alone, Single, Init

LEMMA Invariance == Spec => []IInv
<1>1. IInv /\ [Next]_vars => IInv'
  BY SafeStep, SilentStep, AloneStep, SingleStep DEF IInv
<1> QED
  BY <1>1, InitIInv, PTL DEF Spec

(* Once a logout's answer has arrived with nothing else under way that signs  *)
(* in, no late answer brings cookies or a user back.                         *)
THEOREM LogoutIsSilent == Spec => []SignedOutStaysOut
<1>1. IInv => SignedOutStaysOut
  BY DEF IInv, Silent, SignedOutStaysOut
<1> QED
  BY <1>1, Invariance, PTL

(* The pages show the user of the cookies, unless a sign-in overlapped a      *)
(* request that stores a user or cookies.                                    *)
THEOREM ShownIsOwner == Spec => []ShownUserIsCookieUser
<1>1. IInv => ShownUserIsCookieUser
  BY DEF IInv, Single, One, ShownUserIsCookieUser
<1> QED
  BY <1>1, Invariance, PTL
=============================================================================
