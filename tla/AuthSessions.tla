---------------------------- MODULE AuthSessions ----------------------------
(***************************************************************************)
(* Refresh-token sessions of the Go backend (auth_service.go,              *)
(* user_service.go, user_repo.go) as concurrent HTTP requests.             *)
(*                                                                         *)
(* Every request is a process that executes its handler one SQL statement  *)
(* (or Redis call) at a time: Postgres runs at READ COMMITTED, no handler  *)
(* of this component opens a transaction, so every statement is its own    *)
(* atomic step and whatever a request read earlier may be stale.           *)
(*                                                                         *)
(* A refresh token and the access token issued in the same response share  *)
(* one identifier of Tokens; `blacklist' is about the access half.         *)
(***************************************************************************)
EXTENDS FiniteSets

CONSTANTS
  Users,          \* accounts
  Tokens,         \* identifiers of issued token pairs
  Requests,       \* slots for concurrently executing HTTP requests
  None,           \* no user / no token
  ConcurrentUse,  \* may two requests present one refresh token at a time?
  Channels,       \* how a logout carries its access token
  Faults          \* statements whose failure is explored

Statement == {"revoke", "revokeAll", "blacklist"}

ASSUME NoneAssumption == None \notin Users \cup Tokens
ASSUME ParamAssumption ==
  /\ ConcurrentUse \in BOOLEAN
  /\ Channels \subseteq {"cookie", "header"}
  /\ Faults \subseteq Statement

VARIABLES
  active,     \* users.is_active
  deleted,    \* users whose deleted_at is set
  status,     \* refresh_tokens: unborn (no row), live, revoked or expired
  owner,      \* refresh_tokens.user_id
  blacklist,  \* access tokens under "blacklist:" in Redis
  pc,         \* the next statement of each request
  ruser,      \* the user a request works on
  rtok,       \* the token a request was presented with
  (* History variables: no step reads them. *)
  session,    \* the login a token descends from, named by its first token
  parent,     \* the token it was exchanged for
  ended       \* sessions that existed when their user's tokens were revoked

account == <<active, deleted>>
table   == <<status, owner, session, parent>>
local   == <<pc, ruser, rtok>>
vars == <<account, table, blacklist, local, ended>>

(* A request past the lookup of RefreshTokens and not answered yet. *)
RefreshPC == {"rotate", "load", "save"}
Refreshing(r) == pc[r] \in RefreshPC /\ rtok[r] # None

Live(t) == status[t] = "live"

TypeOK ==
  /\ active \in [Users -> BOOLEAN]
  /\ deleted \subseteq Users
  /\ status \in [Tokens -> {"unborn", "live", "revoked", "expired"}]
  /\ owner \in [Tokens -> Users \cup {None}]
  /\ blacklist \subseteq Tokens
  /\ pc \in [Requests -> {"idle", "rotate", "load", "save", "revokeAll"}]
  /\ ruser \in [Requests -> Users \cup {None}]
  /\ rtok \in [Requests -> Tokens \cup {None}]
  /\ \A r \in Requests : pc[r] # "idle" => ruser[r] \in Users
  /\ session \in [Tokens -> Tokens \cup {None}]
  /\ parent \in [Tokens -> Tokens \cup {None}]
  /\ ended \subseteq Tokens

Init ==
  /\ active = [u \in Users |-> TRUE]
  /\ deleted = {}
  /\ status = [t \in Tokens |-> "unborn"]
  /\ owner = [t \in Tokens |-> None]
  /\ blacklist = {}
  /\ pc = [r \in Requests |-> "idle"]
  /\ ruser = [r \in Requests |-> None]
  /\ rtok = [r \in Requests |-> None]
  /\ session = [t \in Tokens |-> None]
  /\ parent = [t \in Tokens |-> None]
  /\ ended = {}

-----------------------------------------------------------------------------
(* Request bookkeeping. *)

Begin(r, label, u, t) ==
  /\ pc[r] = "idle"
  /\ pc' = [pc EXCEPT ![r] = label]
  /\ ruser' = [ruser EXCEPT ![r] = u]
  /\ rtok' = [rtok EXCEPT ![r] = t]

Goto(r, from, to) ==
  /\ pc[r] = from
  /\ pc' = [pc EXCEPT ![r] = to]
  /\ UNCHANGED <<ruser, rtok>>

(* The handler returns: its locals are gone. *)
Finish(r, from) ==
  /\ pc[r] = from
  /\ pc' = [pc EXCEPT ![r] = "idle"]
  /\ ruser' = [ruser EXCEPT ![r] = None]
  /\ rtok' = [rtok EXCEPT ![r] = None]

-----------------------------------------------------------------------------
(* Mutants of GetRefreshTokenByHash: its nil result is not checked; its    *)
(* filters are gone.                                                       *)
FoundInAnyCase(t) == t \in Tokens
FoundUnfiltered(t) == status[t] # "unborn"

(* SELECT ... WHERE token_hash = $1 AND revoked = false AND expires_at >   *)
(* NOW().                                                                  *)
GetRefreshTokenByHash(t) == Live(t)

(* Mutant of GetByID: deleted_at is not looked at.                         *)
GetByIDUnfiltered(u) == u \in Users

(* SELECT ... WHERE id = $1 AND deleted_at IS NULL: whether a row returns. *)
GetByID(u) == u \notin deleted

(* Mutant of MaySignIn: the IsActive check is gone.                        *)
MaySignInUnchecked(u) == GetByID(u)

(* The IsActive check, on the row that GetByID or GetByEmail returned.      *)
MaySignIn(u) == GetByID(u) /\ active[u]

(* UPDATE ... SET revoked = true WHERE user_id = $1 AND revoked = false.   *)
RevokeAllUserRefreshTokens(u) ==
  [t \in Tokens |-> IF owner[t] = u /\ Live(t) THEN "revoked" ELSE status[t]]

(* Login: the row GetByEmail returned is active and its password matched;  *)
(* a refused login answers without reaching any statement of this module.  *)
Login(r, u) ==
  /\ MaySignIn(u)
  /\ Begin(r, "save", u, None)
  /\ UNCHANGED <<account, table, blacklist, ended>>

(* RefreshTokens: the token is looked up; an unknown, revoked or expired   *)
(* one is answered 401.  Without ConcurrentUse the client presents a token *)
(* again only after the previous answer.                                   *)
RefreshLookup(r, t) ==
  /\ GetRefreshTokenByHash(t)
  /\ ConcurrentUse \/ \A q \in Requests : ~(Refreshing(q) /\ rtok[q] = t)
  /\ Begin(r, "rotate", owner[t], t)
  /\ UNCHANGED <<account, table, blacklist, ended>>

(* Mutant of RefreshRotate: the old token is not revoked.                  *)
RefreshReuse(r) ==
  /\ Goto(r, "rotate", "load")
  /\ UNCHANGED <<account, table, blacklist, ended>>

(* RevokeRefreshToken by primary key.  Its error is only logged.           *)
RefreshRotate(r) ==
  /\ Goto(r, "rotate", "load")
  /\ \/ status' = [status EXCEPT ![rtok[r]] = "revoked"]
     \/ "revoke" \in Faults /\ status' = status
  /\ UNCHANGED <<account, owner, session, parent, blacklist, ended>>

(* GetByID, then the IsActive check on the row it returned.                *)
RefreshLoad(r) ==
  /\ pc[r] = "load"
  /\ \/ MaySignIn(ruser[r]) /\ Goto(r, "load", "save")
     \/ ~MaySignIn(ruser[r]) /\ Finish(r, "load")
  /\ UNCHANGED <<account, table, blacklist, ended>>

(* generateTokenResponse: SaveRefreshToken inserts the new row, for Login  *)
(* and RefreshTokens alike.                                                *)
SaveRefreshToken(r, t) ==
  /\ status[t] = "unborn"
  /\ Finish(r, "save")
  /\ status' = [status EXCEPT ![t] = "live"]
  /\ owner' = [owner EXCEPT ![t] = ruser[r]]
  /\ session' = [session EXCEPT ![t] =
                   IF rtok[r] = None THEN t ELSE session[rtok[r]]]
  /\ parent' = [parent EXCEPT ![t] = rtok[r]]
  /\ UNCHANGED <<account, blacklist, ended>>

(* JWTAuth lets an access token through unless it is blacklisted, then     *)
(* Logout blacklists it if the handler found it in the Authorization       *)
(* header; a session that authenticates by cookie passes "" instead.  The  *)
(* error of the Redis SET is ignored.                                      *)
Logout(r, t, channel) ==
  /\ status[t] # "unborn"
  /\ t \notin blacklist
  /\ Begin(r, "revokeAll", owner[t], t)
  /\ \/ channel = "header" /\ blacklist' = blacklist \cup {t}
     \/ channel = "header" /\ "blacklist" \in Faults /\ UNCHANGED blacklist
     \/ channel = "cookie" /\ UNCHANGED blacklist
  /\ UNCHANGED <<account, table, ended>>

(* ForceLogout by an administrator reaches the revocation at once.         *)
ForceLogout(r, u) ==
  /\ Begin(r, "revokeAll", u, None)
  /\ UNCHANGED <<account, table, blacklist, ended>>

(* UPDATE users SET is_active = false, whatever the row's state.           *)
SuspendUser(r, u) ==
  /\ active' = [active EXCEPT ![u] = FALSE]
  /\ Begin(r, "revokeAll", u, None)
  /\ UNCHANGED <<deleted, table, blacklist, ended>>

(* SoftDelete: no row matches a user that is already deleted.              *)
DeactivateUser(r, u) ==
  /\ deleted' = deleted \cup {u}
  /\ active' = IF u \in deleted THEN active ELSE [active EXCEPT ![u] = FALSE]
  /\ Begin(r, "revokeAll", u, None)
  /\ UNCHANGED <<table, blacklist, ended>>

(* UPDATE users SET is_active = true, a deleted user's row included.       *)
ReactivateUser(u) ==
  /\ active' = [active EXCEPT ![u] = TRUE]
  /\ UNCHANGED <<deleted, table, blacklist, local, ended>>

(* RevokeAllUserRefreshTokens, the last statement of Logout, ForceLogout,  *)
(* SuspendUser and DeactivateUser.  Only the first two report its error.   *)
RevokeAll(r) ==
  /\ Finish(r, "revokeAll")
  /\ \/ /\ status' = RevokeAllUserRefreshTokens(ruser[r])
        /\ ended' = ended \cup {s \in Tokens : owner[s] = ruser[r]}
     \/ /\ "revokeAll" \in Faults
        /\ UNCHANGED <<status, ended>>
  /\ UNCHANGED <<account, owner, session, parent, blacklist>>

(* The request stops between two statements: its context is cancelled (the *)
(* client or the proxy gave up) or the process is killed.                  *)
Abort(r) ==
  /\ pc[r] # "idle"
  /\ Finish(r, pc[r])
  /\ UNCHANGED <<account, table, blacklist, ended>>

(* expires_at passes.                                                      *)
Expire(t) ==
  /\ Live(t)
  /\ status' = [status EXCEPT ![t] = "expired"]
  /\ UNCHANGED <<account, owner, session, parent, blacklist, local, ended>>

Next ==
  \/ \E r \in Requests :
       \/ \E u \in Users : \/ Login(r, u)
                           \/ ForceLogout(r, u)
                           \/ SuspendUser(r, u)
                           \/ DeactivateUser(r, u)
       \/ \E t \in Tokens : \/ RefreshLookup(r, t)
                            \/ SaveRefreshToken(r, t)
                            \/ \E c \in Channels : Logout(r, t, c)
       \/ RefreshRotate(r)
       \/ RefreshLoad(r)
       \/ RevokeAll(r)
       \/ Abort(r)
  \/ \E u \in Users : ReactivateUser(u)
  \/ \E t \in Tokens : Expire(t)

Spec == Init /\ [][Next]_vars

-----------------------------------------------------------------------------
(* No live token and no refresh in flight descends from session s.         *)
Closed(s) ==
  /\ \A t \in Tokens : session[t] = s => ~Live(t)
  /\ \A r \in Requests : Refreshing(r) => session[rtok[r]] # s

(* Rotation is exact: a login session never has two live refresh tokens.   *)
(* Promised by RefreshTokens when the client serialises its refreshes and  *)
(* the revocation of the old token succeeds.                               *)
OneLivePerSession ==
  \A s, t \in Tokens : Live(s) /\ Live(t) /\ session[s] = session[t] => s = t

(* A refresh token is exchanged for at most one successor, however the     *)
(* requests of several users and administrators interleave (RefreshTokens, *)
(* same conditions).                                                       *)
ExchangedOnce ==
  \A s, t \in Tokens : parent[s] = parent[t] /\ parent[s] # None => s = t

(* The implementation of LoginSessions, under the same conditions: a token  *)
(* can be exchanged while it is live or a refresh that presented it is in   *)
(* flight.  Lookup, revocation, IsActive check and insert are four steps of *)
(* a request, yet every client sees one exchange.  (A refresh that is in    *)
(* flight when its session is revoked keeps it open: see                    *)
(* RevokeAllEndsSessions.)                                                  *)
InFlight(t) == \E r \in Requests : Refreshing(r) /\ rtok[r] = t
Carriers(s) == {t \in Tokens : session[t] = s /\ (Live(t) \/ InFlight(t))}
Sessions == INSTANCE LoginSessions WITH
  usable <- [s \in Tokens |-> Carriers(s)],
  issued <- {t \in Tokens : status[t] # "unborn"}
ImplementsSessions == Sessions!Spec

(* A session that has ended stays ended: once its tokens are dead and no   *)
(* refresh of it is in flight, no request, whatever it read before, brings *)
(* a token of it back (RefreshTokens against Logout, ForceLogout, Suspend).*)
EndIsFinal ==
  [][\A s \in Tokens : session[s] = s /\ Closed(s) => Closed(s)']_vars

(* No request can still insert a token for u.                              *)
Drained(u) == \A r \in Requests : ~(pc[r] = "save" /\ ruser[r] = u)

(* Deactivation is final: ReactivateUser does set is_active on the deleted *)
(* row, yet after the requests in flight have drained no token is minted   *)
(* for the user again (the deleted_at filters of GetByID and GetByEmail).  *)
DeletedStaysOut ==
  [][\A u \in deleted : Drained(u) => Drained(u)' /\ \A t \in Tokens :
       owner'[t] = u => owner[t] = u]_vars

(* A suspended user gets no token until the account is active again,       *)
(* except from the requests that had already passed the IsActive check.    *)
SuspendedStaysOut ==
  [][\A u \in Users : ~active[u] /\ Drained(u) => Drained(u)' /\
       \A t \in Tokens : owner'[t] = u => owner[t] = u]_vars

(* "ForceLogout revokes all sessions for a user" (user_service.go): no     *)
(* session opened before the revocation has a live token after it.         *)
RevokeAllEndsSessions ==
  \A t \in Tokens : Live(t) => session[t] \notin ended
=============================================================================
