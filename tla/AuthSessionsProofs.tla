------------------------- MODULE AuthSessionsProofs -------------------------
(* Theorems about AuthSessions, for every set of users, tokens and         *)
(* requests.                                                               *)
EXTENDS AuthSessions, TLAPS

(* A row of refresh_tokens is complete, and no column refers to a row that *)
(* was not inserted.                                                       *)
Rows ==
  \A t \in Tokens :
    /\ status[t] = "unborn" =>
         owner[t] = None /\ session[t] = None /\ parent[t] = None
    /\ status[t] # "unborn" =>
         /\ owner[t] \in Users
         /\ session[t] \in Tokens
         /\ status[session[t]] # "unborn"

(* A refresh in flight was presented with a token that exists.             *)
Presented == \A r \in Requests : Refreshing(r) => status[rtok[r]] # "unborn"

Inv == TypeOK /\ Rows /\ Presented

(* Who can still produce a successor in a session is unique: a live token, *)
(* or the one request that is exchanging the session's last token.         *)
OneCarrier ==
  /\ \A r \in Requests, t \in Tokens :
       Refreshing(r) /\ Live(t) /\ session[rtok[r]] = session[t] =>
         rtok[r] = t /\ pc[r] = "rotate"
  /\ \A q, r \in Requests :
       Refreshing(q) /\ Refreshing(r) /\ session[rtok[q]] = session[rtok[r]]
         => q = r

(* An exchanged token is dead and in nobody's hands.                       *)
Exchanged ==
  \A t \in Tokens : parent[t] # None =>
    /\ parent[t] \in Tokens
    /\ status[parent[t]] \notin {"live", "unborn"}
    /\ \A r \in Requests : ~(Refreshing(r) /\ rtok[r] = parent[t])

SerialInv ==
  Inv /\ OneLivePerSession /\ ExchangedOnce /\ OneCarrier /\ Exchanged

-----------------------------------------------------------------------------
(* The steps of Next, once and for all.                                    *)
LEMMA NextCases ==
  ASSUME Next
  PROVE  \/ \E r \in Requests, u \in Users : Login(r, u)
         \/ \E r \in Requests, u \in Users : ForceLogout(r, u)
         \/ \E r \in Requests, u \in Users : SuspendUser(r, u)
         \/ \E r \in Requests, u \in Users : DeactivateUser(r, u)
         \/ \E r \in Requests, t \in Tokens : RefreshLookup(r, t)
         \/ \E r \in Requests, t \in Tokens : SaveRefreshToken(r, t)
         \/ \E r \in Requests, t \in Tokens, c \in Channels : Logout(r, t, c)
         \/ \E r \in Requests : RefreshRotate(r)
         \/ \E r \in Requests : RefreshLoad(r)
         \/ \E r \in Requests : RevokeAll(r)
         \/ \E r \in Requests : Abort(r)
         \/ \E u \in Users : ReactivateUser(u)
         \/ \E t \in Tokens : Expire(t)
PROOF BY DEF Next

(* What a step that inserts no token may do to the table: statuses only    *)
(* leave "live", and the other columns stay.                               *)
NoInsert ==
  /\ UNCHANGED <<owner, session, parent>>
  /\ \A t \in Tokens : status'[t] = status[t]
                         \/ (Live(t) /\ status'[t] \in {"revoked", "expired"})

(* Every refresh in flight was in flight before, and has not passed the    *)
(* revocation of its token in this step.                                   *)
NoNewRefresh ==
  \A r \in Requests : Refreshing(r)' =>
    /\ Refreshing(r)
    /\ rtok'[r] = rtok[r]
    /\ pc[r] = "rotate" => pc'[r] = "rotate"

LEMMA InitInv == ASSUME Init PROVE Inv
PROOF BY DEF Init, Inv, TypeOK, Rows, Presented, Refreshing, RefreshPC

LEMMA TypeStep == ASSUME Inv, [Next]_vars PROVE TypeOK'
<1> USE NoneAssumption DEF Inv, TypeOK
<1>1. CASE UNCHANGED vars
  BY <1>1 DEF vars, account, table, local
<1>2. ASSUME NEW r \in Requests, NEW u \in Users,
             Login(r, u) \/ ForceLogout(r, u)
      PROVE TypeOK'
  BY <1>2 DEF Login, ForceLogout, Begin, account, table
<1>3. ASSUME NEW r \in Requests, NEW u \in Users,
             SuspendUser(r, u) \/ DeactivateUser(r, u)
      PROVE TypeOK'
  <2>1. deleted' \subseteq Users
    BY <1>3 DEF SuspendUser, DeactivateUser
  <2>2. active' \in [Users -> BOOLEAN]
    BY <1>3 DEF SuspendUser, DeactivateUser
  <2>3. UNCHANGED <<status, owner, session, parent, blacklist, ended>>
    BY <1>3 DEF SuspendUser, DeactivateUser, table
  <2>4. Begin(r, "revokeAll", u, None)
    BY <1>3 DEF SuspendUser, DeactivateUser
  <2> QED
    BY <2>1, <2>2, <2>3, <2>4 DEF Begin
<1>4. ASSUME NEW r \in Requests, NEW t \in Tokens, RefreshLookup(r, t)
      PROVE TypeOK'
  BY <1>4 DEF RefreshLookup, Begin, GetRefreshTokenByHash, Live, Rows, account,
              table
<1>5. ASSUME NEW r \in Requests, NEW t \in Tokens, SaveRefreshToken(r, t)
      PROVE TypeOK'
  BY <1>5 DEF SaveRefreshToken, Finish, account
<1>6. ASSUME NEW r \in Requests, NEW t \in Tokens, NEW c \in Channels,
             Logout(r, t, c)
      PROVE TypeOK'
  BY <1>6 DEF Logout, Begin, Rows, account, table
<1>7. ASSUME NEW r \in Requests, RefreshRotate(r)
      PROVE TypeOK'
  BY <1>7 DEF RefreshRotate, Goto, account
<1>8. ASSUME NEW r \in Requests, RefreshLoad(r)
      PROVE TypeOK'
  BY <1>8 DEF RefreshLoad, Goto, Finish, account, table
<1>9. ASSUME NEW r \in Requests, RevokeAll(r)
      PROVE TypeOK'
  BY <1>9 DEF RevokeAll, RevokeAllUserRefreshTokens, Finish, Live, account
<1>10. ASSUME NEW r \in Requests, Abort(r)
       PROVE TypeOK'
  BY <1>10 DEF Abort, Finish, account, table
<1>11. ASSUME NEW u \in Users, ReactivateUser(u)
       PROVE TypeOK'
  BY <1>11 DEF ReactivateUser, table, local
<1>12. ASSUME NEW t \in Tokens, Expire(t)
       PROVE TypeOK'
  BY <1>12 DEF Expire, account, local
<1> QED
  BY <1>1, <1>2, <1>3, <1>4, <1>5, <1>6, <1>7, <1>8, <1>9, <1>10, <1>11,
     <1>12, NextCases

(* All steps but three leave the refreshes in flight and the inserted      *)
(* tokens alone.                                                           *)
LEMMA StepShapes ==
  ASSUME TypeOK, [Next]_vars
  PROVE  \/ NoInsert /\ NoNewRefresh
         \/ \E r \in Requests, t \in Tokens : RefreshLookup(r, t)
         \/ \E r \in Requests : RefreshRotate(r)
         \/ \E r \in Requests, t \in Tokens : SaveRefreshToken(r, t)
<1> USE DEF TypeOK, NoInsert, NoNewRefresh, Refreshing, RefreshPC
<1>1. CASE UNCHANGED vars
  BY <1>1 DEF vars, account, table, local
<1>2. ASSUME NEW r \in Requests, NEW u \in Users,
             Login(r, u) \/ ForceLogout(r, u)
      PROVE NoInsert /\ NoNewRefresh
  BY <1>2 DEF Login, ForceLogout, Begin, table
<1>3. ASSUME NEW r \in Requests, NEW u \in Users,
             SuspendUser(r, u) \/ DeactivateUser(r, u)
      PROVE NoInsert /\ NoNewRefresh
  <2>1. UNCHANGED table /\ Begin(r, "revokeAll", u, None)
    BY <1>3 DEF SuspendUser, DeactivateUser
  <2> QED
    BY <2>1 DEF Begin, table
<1>4. ASSUME NEW r \in Requests, NEW t \in Tokens, NEW c \in Channels,
             Logout(r, t, c)
      PROVE NoInsert /\ NoNewRefresh
  BY <1>4 DEF Logout, Begin, table
<1>5. ASSUME NEW r \in Requests, RefreshLoad(r) \/ Abort(r)
      PROVE NoInsert /\ NoNewRefresh
  BY <1>5 DEF RefreshLoad, Abort, Goto, Finish, table
<1>6. ASSUME NEW r \in Requests, RevokeAll(r)
      PROVE NoInsert /\ NoNewRefresh
  <2>1. NoInsert
    BY <1>6 DEF RevokeAll, RevokeAllUserRefreshTokens, Live
  <2>2. NoNewRefresh
    BY <1>6 DEF RevokeAll, Finish
  <2> QED
    BY <2>1, <2>2
<1>7. ASSUME NEW u \in Users, ReactivateUser(u)
      PROVE NoInsert /\ NoNewRefresh
  BY <1>7 DEF ReactivateUser, table, local
<1>8. ASSUME NEW t \in Tokens, Expire(t)
      PROVE NoInsert /\ NoNewRefresh
  BY <1>8 DEF Expire, local, Live
<1> QED
  BY <1>1, <1>2, <1>3, <1>4, <1>5, <1>6, <1>7, <1>8, NextCases

LEMMA RowsStep == ASSUME Inv, [Next]_vars PROVE Rows'
<1> USE NoneAssumption DEF Inv, TypeOK, Rows
<1>1. CASE NoInsert
  BY <1>1 DEF NoInsert, Live
<1>2. ASSUME NEW r \in Requests, NEW t \in Tokens, RefreshLookup(r, t)
      PROVE Rows'
  BY <1>2 DEF RefreshLookup, table
<1>3. ASSUME NEW r \in Requests, RefreshRotate(r)
      PROVE Rows'
  <2>1. Refreshing(r) \/ rtok[r] = None
    BY <1>3 DEF RefreshRotate, Goto, Refreshing, RefreshPC
  <2> QED
    BY <1>3, <2>1 DEF RefreshRotate, Presented
<1>4. ASSUME NEW r \in Requests, NEW t \in Tokens, SaveRefreshToken(r, t)
      PROVE Rows'
  <2>1. Refreshing(r) \/ rtok[r] = None
    BY <1>4 DEF SaveRefreshToken, Finish, Refreshing, RefreshPC
  <2>2. session'[t] \in Tokens /\ (session'[t] = t \/ status[session'[t]] # "unborn")
    BY <1>4, <2>1 DEF SaveRefreshToken, Presented
  <2>3. ruser[r] \in Users /\ owner'[t] \in Users
    BY <1>4 DEF SaveRefreshToken, Finish
  <2>4. \A s \in Tokens : status'[s] = "unborn" <=> status[s] = "unborn" /\ s # t
    BY <1>4 DEF SaveRefreshToken
  <2>5. \A s \in Tokens : s # t =>
          owner'[s] = owner[s] /\ session'[s] = session[s] /\ parent'[s] = parent[s]
    BY <1>4 DEF SaveRefreshToken
  <2> QED
    BY <2>2, <2>3, <2>4, <2>5
<1> QED
  BY <1>1, <1>2, <1>3, <1>4, StepShapes

LEMMA PresentedStep == ASSUME Inv, [Next]_vars PROVE Presented'
<1> USE NoneAssumption DEF Inv, TypeOK, Presented, Refreshing, RefreshPC
<1>1. CASE NoInsert /\ NoNewRefresh
  BY <1>1 DEF NoInsert, NoNewRefresh, Live
<1>2. ASSUME NEW r \in Requests, NEW t \in Tokens, RefreshLookup(r, t)
      PROVE Presented'
  BY <1>2 DEF RefreshLookup, GetRefreshTokenByHash, Live, Begin, table
<1>3. ASSUME NEW r \in Requests, RefreshRotate(r)
      PROVE Presented'
  BY <1>3 DEF RefreshRotate, Goto
<1>4. ASSUME NEW r \in Requests, NEW t \in Tokens, SaveRefreshToken(r, t)
      PROVE Presented'
  BY <1>4 DEF SaveRefreshToken, Finish
<1> QED
  BY <1>1, <1>2, <1>3, <1>4, StepShapes

LEMMA InvStep == ASSUME Inv, [Next]_vars PROVE Inv'
PROOF BY TypeStep, RowsStep, PresentedStep DEF Inv

(* The invariant of the three: every table row is complete, no column and  *)
(* no request refers to a token that was not issued.                       *)
THEOREM Invariance == Spec => []Inv
<1>1. Init => Inv
  BY InitInv
<1>2. Inv /\ [Next]_vars => Inv'
  BY InvStep
<1> QED
  BY <1>1, <1>2, PTL DEF Spec

(* Every reachable state of the session tables and requests is well typed. *)
THEOREM TypeCorrectness == Spec => []TypeOK
<1>1. Inv => TypeOK
  BY DEF Inv
<1> QED
  BY <1>1, Invariance, PTL

-----------------------------------------------------------------------------
(* Final ends.                                                             *)

LEMMA ClosedStep ==
  ASSUME Inv, [Next]_vars, NEW s \in Tokens, session[s] = s, Closed(s)
  PROVE  Closed(s)'
<1> USE NoneAssumption DEF Inv, TypeOK, Closed
<1>1. CASE NoInsert /\ NoNewRefresh
  BY <1>1 DEF NoInsert, NoNewRefresh, Live
<1>2. ASSUME NEW r \in Requests, NEW t \in Tokens, RefreshLookup(r, t)
      PROVE Closed(s)'
  <2>1. Live(t) /\ session[t] # s
    BY <1>2 DEF RefreshLookup, GetRefreshTokenByHash
  <2>2. UNCHANGED <<status, session>>
    BY <1>2 DEF RefreshLookup, table
  <2>3. \A q \in Requests : Refreshing(q)' =>
          rtok'[q] = t \/ (Refreshing(q) /\ rtok'[q] = rtok[q])
    BY <1>2 DEF RefreshLookup, Begin, Refreshing, RefreshPC
  <2> QED
    BY <2>1, <2>2, <2>3 DEF Live
<1>3. ASSUME NEW r \in Requests, RefreshRotate(r)
      PROVE Closed(s)'
  BY <1>3 DEF RefreshRotate, Goto, Refreshing, RefreshPC, Live
<1>4. ASSUME NEW r \in Requests, NEW t \in Tokens, SaveRefreshToken(r, t)
      PROVE Closed(s)'
  <2>1. t # s
    BY <1>4 DEF SaveRefreshToken, Rows
  <2>2. rtok[r] # None => Refreshing(r)
    BY <1>4 DEF SaveRefreshToken, Finish, Refreshing, RefreshPC
  <2>3. session'[t] # s
    BY <1>4, <2>1, <2>2 DEF SaveRefreshToken
  <2>4. \A q \in Requests : Refreshing(q)' =>
          Refreshing(q) /\ rtok'[q] = rtok[q] /\ rtok[q] # t
    BY <1>4 DEF SaveRefreshToken, Finish, Refreshing, RefreshPC, Presented
  <2>5. \A x \in Tokens : x # t =>
          status'[x] = status[x] /\ session'[x] = session[x]
    BY <1>4 DEF SaveRefreshToken
  <2>6. \A q \in Requests : Refreshing(q)' => rtok'[q] \in Tokens
    BY <2>4 DEF Refreshing
  <2> QED
    BY <2>3, <2>4, <2>5, <2>6 DEF Live
<1> QED
  BY <1>1, <1>2, <1>3, <1>4, StepShapes

(* A session whose tokens are dead and that no request is refreshing never *)
(* has a live token again, with concurrent use of tokens and any statement *)
(* failing: nothing a request read earlier revives it.                     *)
THEOREM EndsAreFinal == Spec => EndIsFinal
<1>1. Inv /\ [Next]_vars =>
        [\A s \in Tokens : session[s] = s /\ Closed(s) => Closed(s)']_vars
  BY ClosedStep
<1> QED
  BY <1>1, Invariance, PTL DEF Spec, EndIsFinal

(* Only a request that stands before its insert gives a token to a user,   *)
(* and only one whose user may sign in comes to stand there.               *)
LEMMA DrainedStep ==
  ASSUME TypeOK, [Next]_vars, NEW u \in Users, ~MaySignIn(u), Drained(u)
  PROVE  /\ Drained(u)'
         /\ \A t \in Tokens : owner'[t] = u => owner[t] = u
<1> USE NoneAssumption DEF TypeOK, Drained
<1> DEFINE Goal == /\ Drained(u)'
                   /\ \A t \in Tokens : owner'[t] = u => owner[t] = u
<1>1. CASE UNCHANGED vars
  BY <1>1 DEF vars, account, table, local
<1>2. ASSUME NEW r \in Requests, NEW v \in Users,
             Login(r, v) \/ ForceLogout(r, v)
      PROVE Goal
  BY <1>2 DEF Login, ForceLogout, Begin, table
<1>3. ASSUME NEW r \in Requests, NEW v \in Users,
             SuspendUser(r, v) \/ DeactivateUser(r, v)
      PROVE Goal
  <2>1. UNCHANGED table /\ Begin(r, "revokeAll", v, None)
    BY <1>3 DEF SuspendUser, DeactivateUser
  <2> QED
    BY <2>1 DEF Begin, table
<1>4. ASSUME NEW r \in Requests, NEW t \in Tokens, RefreshLookup(r, t)
      PROVE Goal
  BY <1>4 DEF RefreshLookup, Begin, table
<1>5. ASSUME NEW r \in Requests, NEW t \in Tokens, SaveRefreshToken(r, t)
      PROVE Goal
  BY <1>5 DEF SaveRefreshToken, Finish
<1>6. ASSUME NEW r \in Requests, NEW t \in Tokens, NEW c \in Channels,
             Logout(r, t, c)
      PROVE Goal
  BY <1>6 DEF Logout, Begin, table
<1>7. ASSUME NEW r \in Requests, RefreshRotate(r)
      PROVE Goal
  BY <1>7 DEF RefreshRotate, Goto
<1>8. ASSUME NEW r \in Requests, RefreshLoad(r)
      PROVE Goal
  BY <1>8 DEF RefreshLoad, Goto, Finish, table
<1>9. ASSUME NEW r \in Requests, RevokeAll(r) \/ Abort(r)
      PROVE Goal
  BY <1>9 DEF RevokeAll, Abort, Finish, table
<1>10. ASSUME NEW v \in Users, ReactivateUser(v)
       PROVE Goal
  BY <1>10 DEF ReactivateUser, table, local
<1>11. ASSUME NEW t \in Tokens, Expire(t)
       PROVE Goal
  BY <1>11 DEF Expire, local
<1> QED
  BY <1>1, <1>2, <1>3, <1>4, <1>5, <1>6, <1>7, <1>8, <1>9, <1>10, <1>11,
     NextCases

(* Deactivation is final although ReactivateUser writes the deleted row.   *)
THEOREM DeletedUsersStayOut == Spec => DeletedStaysOut
<1>1. TypeOK /\ [Next]_vars =>
        [\A u \in deleted : Drained(u) => Drained(u)' /\ \A t \in Tokens :
           owner'[t] = u => owner[t] = u]_vars
  <2> SUFFICES ASSUME TypeOK, [Next]_vars, NEW u \in deleted, Drained(u)
               PROVE  Drained(u)' /\ \A t \in Tokens :
                        owner'[t] = u => owner[t] = u
    OBVIOUS
  <2>1. u \in Users /\ ~MaySignIn(u)
    BY DEF TypeOK, MaySignIn, GetByID
  <2> QED
    BY <2>1, DrainedStep
<1> QED
  BY <1>1, TypeCorrectness, PTL DEF Spec, DeletedStaysOut

(* A suspended user receives no token but from a request that had passed   *)
(* the IsActive check before.                                              *)
THEOREM SuspendedUsersStayOut == Spec => SuspendedStaysOut
<1>1. TypeOK /\ [Next]_vars =>
        [\A u \in Users : ~active[u] /\ Drained(u) => Drained(u)' /\
           \A t \in Tokens : owner'[t] = u => owner[t] = u]_vars
  <2> SUFFICES ASSUME TypeOK, [Next]_vars, NEW u \in Users, ~active[u],
                      Drained(u)
               PROVE  Drained(u)' /\ \A t \in Tokens :
                        owner'[t] = u => owner[t] = u
    OBVIOUS
  <2>1. ~MaySignIn(u)
    BY DEF MaySignIn
  <2> QED
    BY <2>1, DrainedStep
<1> QED
  BY <1>1, TypeCorrectness, PTL DEF Spec, SuspendedStaysOut

-----------------------------------------------------------------------------
(* Exact rotation, when the client serialises its refreshes and revoking   *)
(* the old token succeeds.  One lemma per shape of step.                   *)

LEMMA SerialInit == ASSUME Init PROVE SerialInv
<1>1. Inv
  BY InitInv
<1> QED
  BY <1>1 DEF Init, SerialInv, OneLivePerSession, ExchangedOnce, OneCarrier,
              Exchanged, Refreshing, RefreshPC, Live

SerialParts == OneLivePerSession /\ ExchangedOnce /\ OneCarrier /\ Exchanged

LEMMA SerialQuiet ==
  ASSUME SerialInv, NoInsert, NoNewRefresh
  PROVE  SerialParts'
<1> USE DEF SerialInv, Inv, TypeOK, NoInsert
<1>1. \A t \in Tokens : Live(t)' => Live(t)
  BY DEF Live
<1>2. OneLivePerSession'
  BY <1>1 DEF OneLivePerSession
<1>3. ExchangedOnce'
  BY DEF ExchangedOnce
<1>4. OneCarrier'
  BY <1>1 DEF OneCarrier, NoNewRefresh, Refreshing, RefreshPC
<1>5. Exchanged'
  BY <1>1 DEF Exchanged, NoNewRefresh, Live
<1> QED
  BY <1>2, <1>3, <1>4, <1>5 DEF SerialParts

LEMMA SerialLookup ==
  ASSUME SerialInv, ~ConcurrentUse,
         NEW r \in Requests, NEW t \in Tokens, RefreshLookup(r, t)
  PROVE  SerialParts'
<1> USE DEF SerialInv, Inv, TypeOK
<1>1. UNCHANGED <<status, session, parent>>
  BY DEF RefreshLookup, table
<1>2. Live(t) /\ rtok'[r] = t /\ pc'[r] = "rotate"
  BY DEF RefreshLookup, GetRefreshTokenByHash, Begin
<1>3. \A q \in Requests \ {r} :
        rtok'[q] = rtok[q] /\ pc'[q] = pc[q] /\ (Refreshing(q)' <=> Refreshing(q))
  BY DEF RefreshLookup, Begin, Refreshing, RefreshPC
<1>4. \A q \in Requests : Refreshing(q) => session[rtok[q]] # session[t]
  BY <1>2 DEF RefreshLookup, OneCarrier
<1>5. OneLivePerSession' /\ ExchangedOnce'
  BY <1>1 DEF OneLivePerSession, ExchangedOnce, Live
<1>6. OneCarrier'
  <2>1. ASSUME NEW q \in Requests, NEW s \in Tokens, Refreshing(q)', Live(s)',
               session'[rtok'[q]] = session'[s]
        PROVE  rtok'[q] = s /\ pc'[q] = "rotate"
    <3>1. Live(s)
      BY <1>1, <2>1 DEF Live
    <3>2. CASE q = r
      BY <1>1, <1>2, <2>1, <3>1, <3>2 DEF OneLivePerSession
    <3>3. CASE q # r
      BY <1>1, <1>3, <2>1, <3>1, <3>3 DEF OneCarrier
    <3> QED
      BY <3>2, <3>3
  <2>2. ASSUME NEW q \in Requests, NEW p \in Requests, Refreshing(q)',
               Refreshing(p)', session'[rtok'[q]] = session'[rtok'[p]]
        PROVE  q = p
    BY <1>1, <1>2, <1>3, <1>4, <2>2 DEF OneCarrier
  <2> QED
    BY <2>1, <2>2 DEF OneCarrier
<1>7. Exchanged'
  BY <1>1, <1>2, <1>3 DEF Exchanged, Live
<1> QED
  BY <1>5, <1>6, <1>7 DEF SerialParts

LEMMA SerialRotate ==
  ASSUME SerialInv, "revoke" \notin Faults,
         NEW r \in Requests, RefreshRotate(r)
  PROVE  SerialParts'
<1> USE DEF SerialInv, Inv, TypeOK
<1>1. /\ UNCHANGED <<session, parent, rtok>>
      /\ status' = [status EXCEPT ![rtok[r]] = "revoked"]
  BY DEF RefreshRotate, Goto
<1>2. \A t \in Tokens : Live(t)' => Live(t) /\ t # rtok[r]
  BY <1>1 DEF Live
<1>3. \A q \in Requests : /\ Refreshing(q)' <=> Refreshing(q)
                          /\ q # r => pc'[q] = pc[q]
  BY <1>1 DEF RefreshRotate, Goto, Refreshing, RefreshPC
<1>4. OneLivePerSession' /\ ExchangedOnce'
  BY <1>1, <1>2 DEF OneLivePerSession, ExchangedOnce
<1>5. OneCarrier'
  <2>1. ASSUME NEW q \in Requests, NEW s \in Tokens, Refreshing(q)', Live(s)',
               session'[rtok'[q]] = session'[s]
        PROVE  rtok'[q] = s /\ pc'[q] = "rotate"
    <3>1. /\ Refreshing(q) /\ Live(s) /\ s # rtok[r]
          /\ session[rtok[q]] = session[s] /\ rtok'[q] = rtok[q]
      BY <1>1, <1>2, <1>3, <2>1
    <3>2. rtok[q] = s /\ pc[q] = "rotate"
      BY <3>1 DEF OneCarrier
    <3> QED
      BY <1>3, <3>1, <3>2
  <2>2. ASSUME NEW q \in Requests, NEW p \in Requests, Refreshing(q)',
               Refreshing(p)', session'[rtok'[q]] = session'[rtok'[p]]
        PROVE  q = p
    BY <1>1, <1>3, <2>2 DEF OneCarrier
  <2> QED
    BY <2>1, <2>2 DEF OneCarrier
<1>6. Exchanged'
  <2>1. \A s \in Tokens : status[s] \notin {"live", "unborn"} =>
                           status'[s] \notin {"live", "unborn"}
    BY <1>1
  <2>2. \A q \in Requests : Refreshing(q)' => Refreshing(q) /\ rtok'[q] = rtok[q]
    BY <1>1, <1>3
  <2> QED
    BY <1>1, <2>1, <2>2 DEF Exchanged
<1> QED
  BY <1>4, <1>5, <1>6 DEF SerialParts

LEMMA SerialSave ==
  ASSUME SerialInv,
         NEW r \in Requests, NEW t \in Tokens, SaveRefreshToken(r, t)
  PROVE  SerialParts'
<1> USE NoneAssumption DEF SerialInv, Inv, TypeOK
<1>1. /\ pc[r] = "save" /\ status[t] = "unborn"
      /\ rtok[r] # None => Refreshing(r)
  BY DEF SaveRefreshToken, Finish, Refreshing, RefreshPC
<1>2. \A s \in Tokens \ {t} :
        status'[s] = status[s] /\ session'[s] = session[s] /\ parent'[s] = parent[s]
  BY DEF SaveRefreshToken
<1>3. /\ status'[t] = "live" /\ parent'[t] = rtok[r]
      /\ session'[t] = IF rtok[r] = None THEN t ELSE session[rtok[r]]
  BY DEF SaveRefreshToken
<1>4. \A q \in Requests : Refreshing(q)' =>
        /\ q # r /\ Refreshing(q) /\ rtok[q] \in Tokens \ {t}
        /\ rtok'[q] = rtok[q] /\ pc'[q] = pc[q]
  BY DEF SaveRefreshToken, Finish, Refreshing, RefreshPC, Presented
(* No other live token and no other refresh is in the new token's session. *)
<1>5. \A s \in Tokens \ {t} : session[s] = session'[t] => ~Live(s)
  BY <1>1, <1>3 DEF OneCarrier, Rows, Live
<1>6. \A q \in Requests : Refreshing(q)' => session[rtok[q]] # session'[t]
  BY <1>1, <1>3, <1>4 DEF OneCarrier, Rows, Presented
<1>7. OneLivePerSession'
  BY <1>2, <1>5 DEF OneLivePerSession, Live
<1>8. ExchangedOnce'
  BY <1>1, <1>2, <1>3 DEF ExchangedOnce, Exchanged
<1>9. OneCarrier'
  <2>1. ASSUME NEW q \in Requests, NEW s \in Tokens, Refreshing(q)', Live(s)',
               session'[rtok'[q]] = session'[s]
        PROVE  rtok'[q] = s /\ pc'[q] = "rotate"
    <3>1. s # t
      BY <1>2, <1>4, <1>6, <2>1
    <3> QED
      BY <1>2, <1>4, <2>1, <3>1 DEF OneCarrier, Live
  <2>2. ASSUME NEW q \in Requests, NEW p \in Requests, Refreshing(q)',
               Refreshing(p)', session'[rtok'[q]] = session'[rtok'[p]]
        PROVE  q = p
    BY <1>2, <1>4, <2>2 DEF OneCarrier
  <2> QED
    BY <2>1, <2>2 DEF OneCarrier
<1>10. Exchanged'
  <2>1. ASSUME NEW s \in Tokens, parent'[s] # None
        PROVE  /\ parent'[s] \in Tokens
               /\ status'[parent'[s]] \notin {"live", "unborn"}
               /\ \A q \in Requests : ~(Refreshing(q)' /\ rtok'[q] = parent'[s])
    <3>1. CASE s # t
      BY <1>1, <1>2, <1>4, <2>1, <3>1 DEF Exchanged
    <3>2. CASE s = t
      <4>1. Refreshing(r) /\ parent'[s] = rtok[r] /\ rtok[r] \in Tokens \ {t}
        BY <1>1, <1>3, <2>1, <3>2 DEF Presented
      <4>2. ~Live(rtok[r]) /\ status[rtok[r]] # "unborn"
        BY <1>1, <4>1 DEF OneCarrier, Presented
      <4>3. \A q \in Requests : ~(Refreshing(q)' /\ rtok'[q] = rtok[r])
        BY <1>4, <4>1 DEF OneCarrier
      <4> QED
        BY <1>2, <4>1, <4>2, <4>3 DEF Live
    <3> QED
      BY <3>1, <3>2
  <2> QED
    BY <2>1 DEF Exchanged
<1> QED
  BY <1>7, <1>8, <1>9, <1>10 DEF SerialParts

THEOREM SerialInvariance ==
  ASSUME ~ConcurrentUse, "revoke" \notin Faults
  PROVE  Spec => []SerialInv
<1>1. Init => SerialInv
  BY SerialInit
<1>2. SerialInv /\ [Next]_vars => SerialInv'
  <2> SUFFICES ASSUME SerialInv, [Next]_vars PROVE SerialInv'
    OBVIOUS
  <2>1. Inv'
    BY InvStep DEF SerialInv
  <2>2. SerialParts'
    BY StepShapes, SerialQuiet, SerialLookup, SerialRotate, SerialSave
       DEF SerialInv, Inv
  <2> QED
    BY <2>1, <2>2 DEF SerialInv, SerialParts
<1> QED
  BY <1>1, <1>2, PTL DEF Spec

(* A login session never has two live refresh tokens.                      *)
THEOREM OneLiveTokenPerSession ==
  ASSUME ~ConcurrentUse, "revoke" \notin Faults
  PROVE  Spec => []OneLivePerSession
<1>1. SerialInv => OneLivePerSession
  BY DEF SerialInv
<1> QED
  BY <1>1, SerialInvariance, PTL

(* A refresh token is exchanged for at most one successor.                 *)
THEOREM RotationIsExact ==
  ASSUME ~ConcurrentUse, "revoke" \notin Faults
  PROVE  Spec => []ExchangedOnce
<1>1. SerialInv => ExchangedOnce
  BY DEF SerialInv
<1> QED
  BY <1>1, SerialInvariance, PTL

-----------------------------------------------------------------------------
(* The implementation of LoginSessions: what each shape of step does to the *)
(* carriers of a session.                                                  *)

LEMMA OneOfSession ==
  ASSUME SerialInv, NEW s \in Tokens, NEW a \in Carriers(s), NEW b \in Carriers(s)
  PROVE  a = b
<1>1. /\ a \in Tokens /\ b \in Tokens /\ session[a] = session[b]
      /\ Live(a) \/ InFlight(a)
      /\ Live(b) \/ InFlight(b)
  BY DEF Carriers
<1>2. CASE Live(a) /\ Live(b)
  BY <1>1, <1>2 DEF SerialInv, OneLivePerSession
<1>3. ASSUME NEW x \in Tokens, NEW y \in Tokens, Live(x), InFlight(y),
             session[x] = session[y]
      PROVE  x = y
  BY <1>3 DEF InFlight, SerialInv, OneCarrier
<1>4. CASE InFlight(a) /\ InFlight(b)
  BY <1>1, <1>4 DEF InFlight, SerialInv, OneCarrier
<1> QED
  BY <1>1, <1>2, <1>3, <1>4

(* A step that hands no token on: sessions stay as they are or end.         *)
LEMMA EndingStep ==
  ASSUME SerialInv, UNCHANGED parent,
         \A t \in Tokens : status'[t] = "unborn" <=> status[t] = "unborn",
         \A s \in Tokens : Carriers(s)' \subseteq Carriers(s)
  PROVE  Sessions!Next
<1> DEFINE over == {s \in Tokens : Carriers(s)' = {}}
<1>1. \A s \in Tokens : Carriers(s)' = IF s \in over THEN {} ELSE Carriers(s)
  BY OneOfSession
<1>2. [s \in Tokens |-> Carriers(s)]' =
        [s \in Tokens |-> IF s \in over THEN {} ELSE [q \in Tokens |-> Carriers(q)][s]]
  BY <1>1
<1>3. {t \in Tokens : status[t] # "unborn"}' = {t \in Tokens : status[t] # "unborn"}
  OBVIOUS
<1>4. over \in SUBSET Tokens
  OBVIOUS
<1> HIDE DEF over
<1>5. Sessions!End(over)
  BY <1>2, <1>3 DEF Sessions!End
<1> QED
  BY <1>4, <1>5 DEF Sessions!Next

LEMMA QuietSession == ASSUME SerialInv, NoInsert, NoNewRefresh PROVE Sessions!Next
<1>1. \A t \in Tokens : Live(t)' => Live(t)
  BY DEF NoInsert, Live
<1>2. \A t \in Tokens : InFlight(t)' => InFlight(t)
  BY DEF NoNewRefresh, InFlight
<1>3. \A s \in Tokens : Carriers(s)' \subseteq Carriers(s)
  BY <1>1, <1>2 DEF Carriers, NoInsert
<1>4. \A t \in Tokens : status'[t] = "unborn" <=> status[t] = "unborn"
  BY DEF NoInsert, Live
<1> QED
  BY <1>3, <1>4, EndingStep DEF NoInsert

LEMMA LookupSession ==
  ASSUME SerialInv, NEW r \in Requests, NEW t \in Tokens, RefreshLookup(r, t)
  PROVE  Sessions!Next
<1> USE DEF SerialInv, Inv, TypeOK
<1>1. UNCHANGED <<status, session, parent>> /\ Live(t)
  BY DEF RefreshLookup, table, GetRefreshTokenByHash
<1>2. \A q \in Requests : Refreshing(q)' =>
        rtok'[q] = t \/ (Refreshing(q) /\ rtok'[q] = rtok[q])
  BY DEF RefreshLookup, Begin, Refreshing, RefreshPC
<1>3. \A s \in Tokens : InFlight(s)' => s = t \/ InFlight(s)
  BY <1>2 DEF InFlight
<1>4. \A s \in Tokens : Carriers(s)' \subseteq Carriers(s)
  BY <1>1, <1>3 DEF Carriers, Live
<1> QED
  BY <1>1, <1>4, EndingStep

(* The revoked token is still carried by its request.                       *)
LEMMA RotateSession ==
  ASSUME SerialInv, NEW r \in Requests, RefreshRotate(r)
  PROVE  Sessions!Next
<1> USE DEF SerialInv, Inv, TypeOK
<1>1. /\ UNCHANGED <<session, parent, rtok>> /\ pc[r] = "rotate"
      /\ \A t \in Tokens : status'[t] = status[t] \/ (t = rtok[r] /\ status'[t] = "revoked")
  BY DEF RefreshRotate, Goto
<1>2. \A q \in Requests : Refreshing(q)' <=> Refreshing(q)
  BY DEF RefreshRotate, Goto, Refreshing, RefreshPC
<1>3. \A t \in Tokens : InFlight(t)' => InFlight(t)
  BY <1>1, <1>2 DEF InFlight
<1>4. \A t \in Tokens : Live(t)' => Live(t)
  BY <1>1 DEF Live
<1>5. \A s \in Tokens : Carriers(s)' \subseteq Carriers(s)
  BY <1>1, <1>3, <1>4 DEF Carriers
<1>6. rtok[r] \in Tokens => status[rtok[r]] # "unborn"
  BY <1>1, NoneAssumption DEF Presented, Refreshing, RefreshPC
<1>7. \A t \in Tokens : status'[t] = "unborn" <=> status[t] = "unborn"
  BY <1>1, <1>6
<1> QED
  BY <1>1, <1>5, <1>7, EndingStep

(* The insert is the exchange.                                             *)
LEMMA SaveSession ==
  ASSUME SerialInv, NEW r \in Requests, NEW t \in Tokens, SaveRefreshToken(r, t)
  PROVE  Sessions!Next
<1> USE NoneAssumption DEF SerialInv, Inv, TypeOK
<1> DEFINE usable == [s \in Tokens |-> Carriers(s)]
           issued == {q \in Tokens : status[q] # "unborn"}
<1>0. PICK home \in Tokens : home = IF rtok[r] = None THEN t ELSE session[rtok[r]]
  BY DEF SaveRefreshToken, Finish, Refreshing, RefreshPC, Rows, Presented
<1>1. /\ status' = [status EXCEPT ![t] = "live"] /\ status[t] = "unborn"
      /\ session' = [session EXCEPT ![t] = home]
      /\ parent' = [parent EXCEPT ![t] = rtok[r]]
      /\ pc[r] = "save" /\ (rtok[r] # None => Refreshing(r))
  BY <1>0 DEF SaveRefreshToken, Finish, Refreshing, RefreshPC
<1>2. \A q \in Requests : Refreshing(q)' =>
        q # r /\ Refreshing(q) /\ rtok'[q] = rtok[q]
  BY DEF SaveRefreshToken, Finish, Refreshing, RefreshPC
<1>3. \A q \in Requests \ {r} : Refreshing(q) => Refreshing(q)' /\ rtok'[q] = rtok[q]
  BY DEF SaveRefreshToken, Finish, Refreshing, RefreshPC
<1>4. issued' = issued \cup {t} /\ t \notin issued
  BY <1>1
(* In the session of the new token nothing else can be exchanged any more,  *)
(* in the others everything is as before.                                  *)
<1>5. \A a \in Tokens \ {t} : /\ Live(a)' <=> Live(a)
                             /\ session'[a] = session[a]
                             /\ session[a] # t
  BY <1>1 DEF Live, Rows
<1>6. \A a \in Tokens : InFlight(a)' <=> InFlight(a) /\ a # rtok[r]
  <2>1. ASSUME NEW q \in Requests, Refreshing(q), Refreshing(r), rtok[q] = rtok[r]
        PROVE  q = r
    BY <2>1 DEF OneCarrier
  <2>2. ASSUME NEW a \in Tokens, InFlight(a)' PROVE InFlight(a) /\ a # rtok[r]
    <3>1. PICK q \in Requests : Refreshing(q)' /\ rtok'[q] = a
      BY <2>2 DEF InFlight
    <3>2. q # r /\ Refreshing(q) /\ rtok[q] = a
      BY <1>2, <3>1
    <3> QED
      BY <1>1, <2>1, <3>2 DEF InFlight
  <2>3. ASSUME NEW a \in Tokens, InFlight(a), a # rtok[r] PROVE InFlight(a)'
    BY <1>3, <2>3 DEF InFlight
  <2> QED
    BY <2>2, <2>3
<1>7. ~InFlight(t) /\ ~Live(t) /\ Live(t)' /\ session'[t] = home
  BY <1>1 DEF InFlight, Live, Presented
<1>8. \A s \in Tokens \ {home} : Carriers(s)' = Carriers(s)
  <2>1. ASSUME NEW s \in Tokens \ {home}, NEW a \in Tokens
        PROVE  a \in Carriers(s)' <=> a \in Carriers(s)
    <3>1. CASE a = t
      BY <1>1, <1>7, <2>1, <3>1 DEF Carriers
    <3>2. CASE a # t /\ a # rtok[r]
      BY <1>5, <1>6, <3>2 DEF Carriers
    <3>3. CASE a # t /\ a = rtok[r]
      BY <1>0, <1>5, <2>1, <3>3 DEF Carriers
    <3> QED
      BY <3>1, <3>2, <3>3
  <2> QED
    BY <2>1 DEF Carriers
<1>9. CASE rtok[r] = None
  <2>1. home = t
    BY <1>0, <1>9
  <2>2. Carriers(t)' = {t}
    BY <1>5, <1>7, <2>1 DEF Carriers
  <2>3. usable' = [usable EXCEPT ![t] = {t}]
    BY <1>8, <2>1, <2>2
  <2>4. UNCHANGED parent
    BY <1>1, <1>9 DEF Rows
  <2>5. Sessions!Login(t)
    BY <1>4, <2>3, <2>4 DEF Sessions!Login
  <2> QED
    BY <2>5 DEF Sessions!Next
<1>10. CASE rtok[r] # None
  <2>1. PICK old \in Tokens \ {t} : old = rtok[r] /\ Refreshing(r) /\ home = session[old]
    BY <1>0, <1>1, <1>10 DEF Presented
  <2>2. old \in Carriers(home)
    BY <2>1 DEF Carriers, InFlight
  <2>3. Carriers(home) = {old}
    BY <2>2, OneOfSession
  <2>4. Carriers(home)' = {t}
    <3>1. t \in Carriers(home)'
      BY <1>7 DEF Carriers
    <3>2. ASSUME NEW a \in Tokens \ {t}, a \in Carriers(home)' PROVE FALSE
      <4>1. a \in Carriers(home)
        BY <1>5, <1>6, <3>2 DEF Carriers
      <4>2. a = old
        BY <2>3, <4>1
      <4>3. ~InFlight(a)' /\ ~Live(a)'
        BY <1>1, <1>5, <1>6, <2>1, <4>2 DEF OneCarrier
      <4> QED
        BY <3>2, <4>3 DEF Carriers
    <3> QED
      BY <3>1, <3>2 DEF Carriers
  <2>5. usable' = [usable EXCEPT ![home] = {t}]
    BY <1>8, <2>4
  <2>6. usable[home] = {old}
    BY <2>3
  <2>7. parent' = [parent EXCEPT ![t] = old]
    BY <1>1, <2>1
  <2>8. Sessions!Exchange(home, old, t)
    BY <1>4, <2>5, <2>6, <2>7 DEF Sessions!Exchange
  <2> QED
    BY <2>1, <2>8 DEF Sessions!Next
<1> QED
  BY <1>9, <1>10

(* Rotation implements LoginSessions: whatever logins, refreshes, logouts,   *)
(* suspensions and aborted requests interleave, a session is handed on from  *)
(* one token to the next in what looks like one step, and an ended session   *)
(* never returns.                                                          *)
THEOREM Refinement ==
  ASSUME ~ConcurrentUse, "revoke" \notin Faults
  PROVE  Spec => ImplementsSessions
<1>1. Init => Sessions!Init
  <2> SUFFICES ASSUME Init PROVE Sessions!Init
    OBVIOUS
  <2>1. \A s \in Tokens : Carriers(s) = {}
    BY DEF Init, Carriers, InFlight, Refreshing, RefreshPC, Live
  <2>2. [s \in Tokens |-> Carriers(s)] = [s \in Tokens |-> {}]
    BY <2>1
  <2>3. {t \in Tokens : status[t] # "unborn"} = {}
    BY DEF Init
  <2> QED
    BY <2>2, <2>3 DEF Sessions!Init, Init
<1>2. SerialInv /\ [Next]_vars =>
        [Sessions!Next]_<<[s \in Tokens |-> Carriers(s)],
                          {t \in Tokens : status[t] # "unborn"}, parent>>
  BY StepShapes, QuietSession, LookupSession, RotateSession, SaveSession
     DEF SerialInv, Inv
<1> QED
  BY <1>1, <1>2, SerialInvariance, PTL DEF Spec, ImplementsSessions, Sessions!Spec
=============================================================================
