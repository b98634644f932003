----------------------- MODULE PermissionCacheProofs -----------------------
(* Theorems about PermissionCache, for every set of users, roles,          *)
(* permissions and concurrent requests.                                    *)
EXTENDS PermissionCache, TLAPS

Labels == {"idle", "get", "select", "set", "grant", "users", "delete"}

(* The local variables of a request, typed.                                *)
Locals ==
  [pc : Labels, user : Users \cup {None}, role : Roles \cup {None},
   want : PermSets, read : PermSets, todo : SUBSET Users]

(* A request that resolves permissions works for a user, one that changes  *)
(* a role for a role.                                                      *)
WellFormed ==
  \A r \in Requests :
    /\ req[r].pc \in {"get", "select", "set"} => req[r].user \in Users
    /\ req[r].pc \in {"grant", "users"} => req[r].role \in Roles

Had(u, perms) == \A p \in perms : <<u, p>> \in held

(* What a request has read of a user's permissions was once true.          *)
KnownLocals ==
  \A r \in Requests :
    /\ req[r].pc = "set" => Had(req[r].user, req[r].read)
    /\ req[r].pc = "grant" /\ req[r].user # None =>
         Had(req[r].user, req[r].want)

(* Nothing that a request or Redis knows of a user's permissions was never *)
(* true.                                                                   *)
Known ==
  /\ Holdings \subseteq held
  /\ \A u \in Users : cache[u] # Miss => Had(u, cache[u])
  /\ KnownLocals
  /\ grants \subseteq held

Inv == TypeOK /\ WellFormed /\ Known

-----------------------------------------------------------------------------
(* The steps of Next, once and for all.                                    *)
LEMMA NextCases ==
  ASSUME Next
  PROVE  \/ \E r \in Requests : GetCached(r)
         \/ \E r \in Requests : LoadPermissions(r)
         \/ \E r \in Requests : StorePermissions(r)
         \/ \E r \in Requests : InsertPermissions(r)
         \/ \E r \in Requests : GetRoleUsers(r)
         \/ \E r \in Requests, u \in Users : InvalidateUserPermissionCache(r, u)
         \/ \E r \in Requests : Abort(r)
         \/ \E r \in Requests, u \in Users : RequirePermission(r, u)
         \/ \E r \in Requests, u \in Users : ForceLogout(r, u)
         \/ \E r \in Requests, s \in Roles : DeactivateRole(r, s)
         \/ \E r \in Requests, s \in Roles : ActivateRole(r, s)
         \/ \E r \in Requests, u \in Users, s \in Roles : AssignRole(r, u, s)
         \/ \E r \in Requests, u \in Users, s \in Roles : RemoveRole(r, u, s)
         \/ \E r \in Requests, s \in Roles, perms \in PermSets :
              RemovePermissionsFromRole(r, s, perms)
         \/ \E r \in Requests, a \in Users, s \in Roles, perms \in PermSets :
              AssignPermissionsToRole(r, a, s, perms)
         \/ \E u \in Users : Expire(u)
PROOF BY DEF Next, Step

LEMMA IdleLocals ==
  /\ Idle \in Locals
  /\ \A s \in Roles : RoleChanged(s) \in Locals
  /\ \A u \in Users : UserChanged(u) \in Locals
PROOF BY DEF Idle, Locals, Labels, RoleChanged, UserChanged, PermSets

LEMMA Resolved ==
  /\ \A u \in Users : GetUserPermissionStrings(u) \in PermSets
  /\ Holdings \subseteq Users \X Perms
  /\ \A u \in Users : Holdings \subseteq held => Had(u, GetUserPermissionStrings(u))
PROOF BY DEF GetUserPermissionStrings, PermSets, Holdings, Had

(* What a step does to the locals of the requests.                         *)
Others(r) == \A q \in Requests \ {r} : req'[q] = req[q]

LEMMA SetReq ==
  ASSUME TypeOK, NEW r \in Requests, NEW l \in Locals,
         req' = [req EXCEPT ![r] = l]
  PROVE  req' \in [Requests -> Locals] /\ req'[r] = l /\ Others(r)
PROOF BY DEF TypeOK, Locals, Labels, Others

LEMMA GotoReq ==
  ASSUME TypeOK, NEW r \in Requests, NEW label \in Labels, Goto(r, label)
  PROVE  /\ req' \in [Requests -> Locals] /\ Others(r)
         /\ req'[r].pc = label
         /\ req'[r].user = req[r].user /\ req'[r].role = req[r].role
         /\ req'[r].want = req[r].want /\ req'[r].read = req[r].read
         /\ req'[r].todo = req[r].todo
PROOF BY DEF TypeOK, Goto, Locals, Labels, Others

LEMMA FinishReq ==
  ASSUME TypeOK, NEW r \in Requests, Finish(r)
  PROVE  req' \in [Requests -> Locals] /\ req'[r] = Idle /\ Others(r)
PROOF BY SetReq, IdleLocals DEF Finish

LEMMA DecideReq ==
  ASSUME TypeOK, NEW r \in Requests, NEW perms, Decide(r, perms)
  PROVE  /\ req' \in [Requests -> Locals] /\ Others(r)
         /\ \/ req'[r] = Idle
            \/ /\ req'[r].pc = "grant" /\ req'[r].role \in Roles
               /\ req'[r].user = req[r].user /\ req'[r].want = req[r].want
               /\ req[r].want \subseteq perms
<1>1. CASE Finish(r)
  BY <1>1, FinishReq
<1>2. CASE req[r].role # None /\ req[r].want \subseteq perms /\ Goto(r, "grant")
  <2>1. "grant" \in Labels /\ req[r].role \in Roles
    BY <1>2 DEF Labels, TypeOK
  <2> QED
    BY <1>2, <2>1, GotoReq
<1> QED
  BY <1>1, <1>2 DEF Decide

(* A step of one request that changes neither tables nor Redis preserves   *)
(* the invariant if it keeps it for its own locals.                        *)
OwnLocals(r) ==
  /\ req'[r].pc \in {"get", "select", "set"} => req'[r].user \in Users
  /\ req'[r].pc \in {"grant", "users"} => req'[r].role \in Roles
  /\ req'[r].pc = "set" => Had(req'[r].user, req'[r].read)
  /\ req'[r].pc = "grant" /\ req'[r].user # None =>
       Had(req'[r].user, req'[r].want)

LEMMA IdleOwn ==
  ASSUME NEW r \in Requests, req'[r] = Idle PROVE OwnLocals(r)
PROOF BY DEF OwnLocals, Idle

LEMMA LocalsStep ==
  ASSUME Inv, NEW r \in Requests, req' \in [Requests -> Locals], Others(r),
         OwnLocals(r), held \subseteq held'
  PROVE  WellFormed' /\ KnownLocals'
<1> SUFFICES ASSUME NEW q \in Requests
             PROVE  /\ req'[q].pc \in {"get", "select", "set"} =>
                         req'[q].user \in Users
                    /\ req'[q].pc \in {"grant", "users"} =>
                         req'[q].role \in Roles
                    /\ req'[q].pc = "set" => Had(req[q].user, req[q].read)'
                    /\ req'[q].pc = "grant" /\ req'[q].user # None =>
                         Had(req[q].user, req[q].want)'
  BY DEF WellFormed, KnownLocals
<1>1. CASE q = r
  BY <1>1 DEF OwnLocals, Had
<1>2. CASE q # r
  BY <1>2 DEF Inv, WellFormed, Known, KnownLocals, Others, Had
<1> QED
  BY <1>1, <1>2

LEMMA QuietStep ==
  ASSUME Inv, NEW r \in Requests, req' \in [Requests -> Locals], Others(r),
         OwnLocals(r), UNCHANGED <<tables, cache, history>>
  PROVE  Inv'
<1>1. held' = held /\ grants' = grants /\ torn' = torn /\ cache' = cache
  BY DEF history
<1>2. Holdings' = Holdings
  BY DEF tables, Holdings, GetUserPermissionStrings
<1>3. TypeOK'
  BY <1>1 DEF Inv, TypeOK, tables, Locals, Labels
<1>4. WellFormed' /\ KnownLocals'
  BY <1>1, LocalsStep
<1>5. \A u \in Users : (cache[u] # Miss => Had(u, cache[u]))'
  BY <1>1 DEF Inv, Known, Had
<1> QED
  BY <1>1, <1>2, <1>3, <1>4, <1>5 DEF Inv, Known

LEMMA BeginStep ==
  ASSUME Inv, NEW r \in Requests, NEW l \in Locals,
         l.pc \in {"get", "delete"} \/ (l.pc = "grant" /\ l.user = None),
         l.pc = "get" => l.user \in Users,
         l.pc = "grant" => l.role \in Roles,
         Begin(r, l), UNCHANGED <<tables, cache, history>>
  PROVE  Inv'
<1>1. req' \in [Requests -> Locals] /\ req'[r] = l /\ Others(r)
  BY SetReq DEF Begin, Inv
<1>2. OwnLocals(r)
  BY <1>1 DEF OwnLocals
<1> QED
  BY <1>1, <1>2, QuietStep

LEMMA RequireStep ==
  ASSUME Inv, NEW r \in Requests, NEW u \in Users,
         RequirePermission(r, u) \/ ForceLogout(r, u)
  PROVE  Inv'
<1>1. CASE RequirePermission(r, u)
  <2> DEFINE l == [Idle EXCEPT !.pc = "get", !.user = u]
  <2>1. l \in Locals /\ l.pc = "get" /\ l.user = u
    BY DEF Idle, Locals, Labels, PermSets
  <2> HIDE DEF l
  <2>2. Begin(r, l)
    BY <1>1 DEF RequirePermission, l
  <2> QED
    BY <1>1, <2>1, <2>2, BeginStep DEF RequirePermission
<1>2. CASE ForceLogout(r, u)
  <2>1. UserChanged(u) \in Locals /\ UserChanged(u).pc = "delete"
    BY IdleLocals DEF UserChanged, Idle
  <2> QED
    BY <1>2, <2>1, BeginStep DEF ForceLogout
<1> QED
  BY <1>1, <1>2

LEMMA GuardStep ==
  ASSUME Inv, NEW r \in Requests, NEW a \in Users, NEW s \in Roles,
         NEW perms \in PermSets, AssignPermissionsToRole(r, a, s, perms)
  PROVE  Inv'
<1> DEFINE free == [Idle EXCEPT !.pc = "grant", !.role = s, !.want = perms]
           checked == [Idle EXCEPT !.pc = "get", !.user = a, !.role = s,
                                   !.want = perms]
<1>1. /\ free \in Locals /\ free.pc = "grant" /\ free.user = None
      /\ free.role = s
  BY DEF Idle, Locals, Labels, PermSets
<1>2. checked \in Locals /\ checked.pc = "get" /\ checked.user = a
  BY DEF Idle, Locals, Labels, PermSets
<1>3. Begin(r, free) \/ Begin(r, checked)
  BY DEF AssignPermissionsToRole
<1>4. UNCHANGED <<tables, cache, history>>
  BY DEF AssignPermissionsToRole
<1> HIDE DEF free, checked
<1> QED
  BY <1>1, <1>2, <1>3, <1>4, BeginStep

LEMMA GetStep ==
  ASSUME Inv, NEW r \in Requests, GetCached(r) PROVE Inv'
<1>1. req[r].pc = "get" /\ req[r].user \in Users
  BY DEF GetCached, At, Inv, WellFormed
<1>2. CASE cache[req[r].user] # Miss /\ Decide(r, cache[req[r].user])
  <2>1. Had(req[r].user, cache[req[r].user])
    BY <1>1, <1>2 DEF Inv, Known
  <2>2. req' \in [Requests -> Locals] /\ Others(r)
    BY <1>2, DecideReq DEF Inv
  <2>3. OwnLocals(r)
    BY <1>2, <2>1, DecideReq, IdleOwn DEF Inv, OwnLocals, Had
  <2> QED
    BY <2>2, <2>3, QuietStep DEF GetCached
<1>3. CASE Goto(r, "select")
  <2>1. /\ req' \in [Requests -> Locals] /\ Others(r)
        /\ req'[r].pc = "select" /\ req'[r].user = req[r].user
    BY <1>3, GotoReq DEF Inv, Labels
  <2>2. OwnLocals(r)
    BY <1>1, <2>1 DEF OwnLocals
  <2> QED
    BY <2>1, <2>2, QuietStep DEF GetCached
<1> QED
  BY <1>2, <1>3 DEF GetCached

LEMMA LoadStep ==
  ASSUME Inv, NEW r \in Requests, LoadPermissions(r) PROVE Inv'
<1>1. req[r].pc = "select" /\ req[r].user \in Users
  BY DEF LoadPermissions, At, Inv, WellFormed
<1>2. GetUserPermissionStrings(req[r].user) \in PermSets
  BY <1>1, Resolved
<1>3. /\ req' \in [Requests -> Locals] /\ Others(r) /\ req'[r].pc = "set"
      /\ req'[r].user = req[r].user
      /\ req'[r].read = GetUserPermissionStrings(req[r].user)
  BY <1>2 DEF LoadPermissions, Inv, TypeOK, Locals, Labels, Others
<1>4. OwnLocals(r)
  BY <1>1, <1>3, Resolved DEF OwnLocals, Inv, Known
<1> QED
  BY <1>3, <1>4, QuietStep DEF LoadPermissions

LEMMA StoreStep ==
  ASSUME Inv, NEW r \in Requests, StorePermissions(r) PROVE Inv'
<1> DEFINE u == req[r].user
<1>1. /\ req[r].pc = "set" /\ u \in Users /\ req[r].read \in PermSets
      /\ Had(u, req[r].read)
  BY DEF StorePermissions, At, Inv, WellFormed, Known, KnownLocals, TypeOK
<1>2. req' \in [Requests -> Locals] /\ Others(r)
  BY DecideReq DEF StorePermissions, Inv
<1>3. OwnLocals(r)
  BY <1>1, DecideReq, IdleOwn DEF StorePermissions, Inv, OwnLocals, Had
<1>4. UNCHANGED <<tables, held, grants>> /\ held' = held /\ grants' = grants
  BY DEF StorePermissions
<1>5. /\ cache' \in [Users -> {Miss} \cup PermSets]
      /\ \A v \in Users : cache'[v] \in {cache[v], req[r].read}
      /\ \A v \in Users : v # u => cache'[v] = cache[v]
      /\ torn' \subseteq Users
  BY <1>1 DEF StorePermissions, Inv, TypeOK
<1>6. TypeOK'
  BY <1>2, <1>4, <1>5 DEF Inv, TypeOK, tables, Locals, Labels
<1>7. \A v \in Users : (cache[v] # Miss => Had(v, cache[v]))'
  BY <1>1, <1>4, <1>5 DEF Inv, Known, Had
<1>8. Holdings' = Holdings
  BY <1>4 DEF tables, Holdings, GetUserPermissionStrings
<1>9. WellFormed' /\ KnownLocals'
  BY <1>2, <1>3, <1>4, LocalsStep
<1> QED
  BY <1>4, <1>6, <1>7, <1>8, <1>9, Zenon DEF Inv, Known

(* A change of the tables, made by a request that goes on to invalidate.   *)
LEMMA TablesStep ==
  ASSUME Inv, NEW r \in Requests, req' \in [Requests -> Locals], Others(r),
         req'[r].pc \in {"users", "delete"},
         req'[r].pc = "users" => req'[r].role \in Roles,
         userRoles' \subseteq Users \X Roles,
         rolePerms' \subseteq Roles \X Perms,
         roleActive' \in [Roles -> BOOLEAN],
         held' = held \cup Holdings', UNCHANGED <<cache, torn>>,
         grants' \subseteq held
  PROVE  Inv'
<1>1. Holdings' \subseteq Users \X Perms
  BY DEF Holdings
<1>2. TypeOK'
  BY <1>1 DEF Inv, TypeOK, Locals, Labels
<1>3. OwnLocals(r)
  BY DEF OwnLocals
<1>4. WellFormed' /\ KnownLocals'
  BY <1>3, LocalsStep
<1>5. \A v \in Users : (cache[v] # Miss => Had(v, cache[v]))'
  BY DEF Inv, Known, Had
<1> QED
  BY <1>2, <1>4, <1>5 DEF Inv, Known

LEMMA InsertStep ==
  ASSUME Inv, NEW r \in Requests, InsertPermissions(r) PROVE Inv'
<1>1. /\ req[r].pc = "grant" /\ req[r].role \in Roles
      /\ req[r].want \subseteq Perms /\ req[r].user \in Users \cup {None}
      /\ req[r].user # None => Had(req[r].user, req[r].want)
  BY DEF InsertPermissions, At, Inv, WellFormed, Known, KnownLocals, TypeOK,
         PermSets
<1>2. /\ req' \in [Requests -> Locals] /\ Others(r)
      /\ req'[r] = RoleChanged(req[r].role)
  BY <1>1, SetReq, IdleLocals DEF InsertPermissions, Inv
<1>3. req'[r].pc = "users" /\ req'[r].role = req[r].role
  BY <1>2 DEF RoleChanged, Idle
<1>4. rolePerms' \subseteq Roles \X Perms
  BY <1>1 DEF InsertPermissions, Inv, TypeOK
<1>5. grants' \subseteq held
  BY <1>1 DEF InsertPermissions, Inv, Known, Had
<1>6. /\ userRoles' \subseteq Users \X Roles
      /\ roleActive' \in [Roles -> BOOLEAN]
      /\ held' = held \cup Holdings' /\ UNCHANGED <<cache, torn>>
  BY DEF InsertPermissions, Inv, TypeOK
<1> QED
  BY <1>1, <1>2, <1>3, <1>4, <1>5, <1>6, TablesStep

LEMMA ChangeStep ==
  ASSUME Inv, NEW r \in Requests, NEW l \in Locals, Change(r, l),
         l.pc \in {"users", "delete"}, l.pc = "users" => l.role \in Roles,
         userRoles' \subseteq Users \X Roles,
         rolePerms' \subseteq Roles \X Perms,
         roleActive' \in [Roles -> BOOLEAN]
  PROVE  Inv'
<1>1. req' \in [Requests -> Locals] /\ req'[r] = l /\ Others(r)
  BY SetReq DEF Change, Begin, Inv
<1>2. /\ held' = held \cup Holdings' /\ UNCHANGED <<cache, torn>>
      /\ grants' \subseteq held
  BY DEF Change, Inv, Known
<1> QED
  BY <1>1, <1>2, TablesStep

LEMMA RoleStep ==
  ASSUME Inv, NEW r \in Requests, NEW s \in Roles,
         \/ DeactivateRole(r, s)
         \/ ActivateRole(r, s)
         \/ \E perms \in PermSets : RemovePermissionsFromRole(r, s, perms)
  PROVE  Inv'
<1>1. /\ RoleChanged(s) \in Locals /\ RoleChanged(s).pc = "users"
      /\ RoleChanged(s).role = s
  BY IdleLocals DEF RoleChanged, Idle
<1>2. /\ userRoles' \subseteq Users \X Roles
      /\ rolePerms' \subseteq Roles \X Perms
      /\ roleActive' \in [Roles -> BOOLEAN]
  BY DEF Inv, TypeOK, DeactivateRole, ActivateRole, RemovePermissionsFromRole
<1>3. Change(r, RoleChanged(s))
  BY DEF DeactivateRole, ActivateRole, RemovePermissionsFromRole
<1> QED
  BY <1>1, <1>2, <1>3, ChangeStep

LEMMA AssignmentStep ==
  ASSUME Inv, NEW r \in Requests, NEW u \in Users, NEW s \in Roles,
         AssignRole(r, u, s) \/ RemoveRole(r, u, s)
  PROVE  Inv'
<1>1. UserChanged(u) \in Locals /\ UserChanged(u).pc = "delete"
  BY IdleLocals DEF UserChanged, Idle
<1>2. /\ userRoles' \subseteq Users \X Roles
      /\ rolePerms' \subseteq Roles \X Perms
      /\ roleActive' \in [Roles -> BOOLEAN]
  BY DEF Inv, TypeOK, AssignRole, RemoveRole
<1>3. Change(r, UserChanged(u))
  BY DEF AssignRole, RemoveRole
<1> QED
  BY <1>1, <1>2, <1>3, ChangeStep

LEMMA UsersStep ==
  ASSUME Inv, NEW r \in Requests, GetRoleUsers(r) PROVE Inv'
<1>1. CASE Finish(r)
  BY <1>1, FinishReq, IdleOwn, QuietStep DEF GetRoleUsers, Inv
<1>2. CASE ~Finish(r)
  <2>1. PICK h \in SUBSET Users :
          req' = [req EXCEPT ![r] = [Idle EXCEPT !.pc = "delete", !.todo = h]]
    BY <1>2 DEF GetRoleUsers
  <2> DEFINE l == [Idle EXCEPT !.pc = "delete", !.todo = h]
  <2>2. l \in Locals /\ l.pc = "delete"
    BY DEF Idle, Locals, Labels, PermSets
  <2>3. req' \in [Requests -> Locals] /\ Others(r) /\ req'[r].pc = "delete"
    BY <2>1, <2>2, SetReq DEF Inv
  <2>4. OwnLocals(r)
    BY <2>3 DEF OwnLocals
  <2> QED
    BY <2>3, <2>4, QuietStep DEF GetRoleUsers
<1> QED
  BY <1>1, <1>2

(* An entry may go at any time.                                            *)
LEMMA DropStep ==
  ASSUME Inv, NEW u \in Users, cache' \in {cache, [cache EXCEPT ![u] = Miss]},
         torn' \subseteq torn, UNCHANGED <<tables, held, grants>>,
         req' \in [Requests -> Locals], WellFormed', KnownLocals'
  PROVE  Inv'
<1>1. TypeOK'
  BY DEF Inv, TypeOK, tables, Locals, Labels
<1>2. Holdings' = Holdings
  BY DEF tables, Holdings, GetUserPermissionStrings
<1>3. /\ \A v \in Users : cache'[v] \in {Miss, cache[v]}
      /\ held' = held /\ grants' = grants
  BY DEF Inv, TypeOK
<1>4. \A v \in Users : (cache[v] # Miss => Had(v, cache[v]))'
  BY <1>3 DEF Inv, Known, Had
<1> QED
  BY <1>1, <1>2, <1>3, <1>4, Zenon DEF Inv, Known

LEMMA DeleteStep ==
  ASSUME Inv, NEW r \in Requests, NEW u \in Users,
         InvalidateUserPermissionCache(r, u)
  PROVE  Inv'
<1>1. req[r] \in Locals /\ req[r].pc = "delete"
  BY DEF InvalidateUserPermissionCache, At, Inv, TypeOK, Locals, Labels
<1>2. req' \in [Requests -> Locals] /\ Others(r)
  BY <1>1, FinishReq
  DEF InvalidateUserPermissionCache, Inv, TypeOK, Locals, Labels, Others
<1>3. req'[r].pc \in {"idle", "delete"}
  BY <1>1, FinishReq DEF InvalidateUserPermissionCache, Inv, TypeOK, Idle
<1>4. OwnLocals(r)
  BY <1>3 DEF OwnLocals
<1>5. /\ cache' \in {cache, [cache EXCEPT ![u] = Miss]}
      /\ torn' \subseteq torn /\ UNCHANGED <<tables, held, grants>>
  BY DEF InvalidateUserPermissionCache
<1>6. WellFormed' /\ KnownLocals'
  BY <1>2, <1>4, <1>5, LocalsStep
<1> QED
  BY <1>2, <1>5, <1>6, DropStep

LEMMA ExpireStep ==
  ASSUME Inv, NEW u \in Users, Expire(u) PROVE Inv'
<1>1. req' \in [Requests -> Locals]
  BY DEF Expire, Inv, TypeOK, Locals, Labels
<1>2. WellFormed' /\ KnownLocals'
  BY DEF Expire, Inv, Known, WellFormed, KnownLocals, Had
<1> QED
  BY <1>1, <1>2, DropStep DEF Expire

LEMMA AbortStep ==
  ASSUME Inv, NEW r \in Requests, Abort(r) PROVE Inv'
PROOF BY FinishReq, IdleOwn, QuietStep DEF Abort, Inv

LEMMA InitInv == ASSUME Init PROVE Inv
<1>1. Holdings \subseteq Users \X Perms
  BY Resolved
<1>2. TypeOK
  BY <1>1, IdleLocals DEF Init, TypeOK, Locals, Labels
<1>3. WellFormed /\ KnownLocals
  BY DEF Init, WellFormed, KnownLocals, Idle
<1> QED
  BY <1>2, <1>3, Zenon DEF Inv, Known, Init

LEMMA InvStep == ASSUME Inv, [Next]_vars PROVE Inv'
<1>1. CASE Next
  BY <1>1, NextCases, RequireStep, GuardStep, GetStep, LoadStep, StoreStep,
     InsertStep, RoleStep, AssignmentStep, UsersStep, DeleteStep, ExpireStep,
     AbortStep
<1>2. CASE UNCHANGED vars
  BY <1>2 DEF Inv, TypeOK, WellFormed, Known, KnownLocals, Had, Holdings,
              GetUserPermissionStrings, vars, tables, history
<1> QED
  BY <1>1, <1>2

-----------------------------------------------------------------------------
(* The strengthened invariant holds in every reachable state.              *)
THEOREM Invariance == Spec => []Inv
PROOF BY InitInv, InvStep, PTL DEF Spec

(* Every reachable state is well typed: the tables, Redis entries and      *)
(* locals of rbac_service.go keep within their ranges.                     *)
THEOREM TypeCorrectness == Spec => []TypeOK
<1>1. Inv => TypeOK
  BY DEF Inv
<1> QED
  BY <1>1, Invariance, PTL

(* checkPrivilegeEscalation: whoever adds a permission to a role has had   *)
(* it, however outdated the set that the guard read, whatever fails.       *)
THEOREM GuardSound == Spec => []GrantedWasHeld
<1>1. Inv => GrantedWasHeld
  BY DEF Inv, Known, GrantedWasHeld
<1> QED
  BY <1>1, Invariance, PTL

-----------------------------------------------------------------------------
(* No invalidation is lost: neither the query of a role's users nor a DEL  *)
(* fails, and no request dies.  Redis GET and SET may still fail.          *)
Reliable == Faults \cap {"roleUsers", "delete", "abort"} = {}

Covered(u) == Stale(u) => Pending(u) \/ u \in torn

(* What a user's entry is compared with depends on the user's own rows.    *)
SamePerms(u) == GetUserPermissionStrings(u)' = GetUserPermissionStrings(u)

SameEntry(u) == cache'[u] = cache[u] /\ (u \in torn <=> u \in torn')

LEMMA KeepsCovered ==
  ASSUME NEW u \in Users, SamePerms(u), SameEntry(u), Covered(u),
         Pending(u) => Pending(u)'
  PROVE  Covered(u)'
PROOF BY DEF Covered, Stale, SamePerms, SameEntry

(* A request with no invalidation ahead of it is not what u is waiting     *)
(* for.                                                                    *)
LEMMA KeepsPending ==
  ASSUME NEW r \in Requests, NEW u \in Users, Others(r),
         req[r].pc \notin {"users", "delete"},
         \A s : <<u, s>> \in userRoles => <<u, s>> \in userRoles',
         Pending(u)
  PROVE  Pending(u)'
PROOF BY DEF Pending, At, Others

LEMMA QuietCovered ==
  ASSUME NEW r \in Requests, NEW u \in Users, Others(r), Covered(u),
         req[r].pc \notin {"users", "delete"}, UNCHANGED <<tables, cache, torn>>
  PROVE  Covered(u)'
<1>1. SamePerms(u)
  BY DEF SamePerms, tables, GetUserPermissionStrings
<1>2. Pending(u) => Pending(u)'
  BY KeepsPending DEF tables
<1> QED
  BY <1>1, <1>2, KeepsCovered DEF SameEntry

LEMMA RequestCovered ==
  ASSUME Inv, NEW r \in Requests, NEW u \in Users, Covered(u),
         \/ GetCached(r)
         \/ LoadPermissions(r)
         \/ \E v \in Users : RequirePermission(r, v) \/ ForceLogout(r, v)
         \/ \E a \in Users, s \in Roles, perms \in PermSets :
              AssignPermissionsToRole(r, a, s, perms)
  PROVE  Covered(u)'
<1>1. Others(r)
  BY DEF Inv, TypeOK, Others, GetCached, Decide, Goto, Finish, Begin,
         LoadPermissions, RequirePermission, ForceLogout,
         AssignPermissionsToRole
<1>2. req[r].pc \notin {"users", "delete"}
  BY DEF GetCached, LoadPermissions, RequirePermission, ForceLogout,
         AssignPermissionsToRole, Begin, At
<1>3. UNCHANGED <<tables, cache, torn>>
  BY DEF GetCached, LoadPermissions, RequirePermission, ForceLogout,
         AssignPermissionsToRole, history
<1> QED
  BY <1>1, <1>2, <1>3, QuietCovered

LEMMA StoreCovered ==
  ASSUME Inv, NEW r \in Requests, NEW u \in Users, Covered(u),
         StorePermissions(r)
  PROVE  Covered(u)'
<1>1. Others(r) /\ req[r].pc = "set" /\ UNCHANGED tables
  BY DecideReq DEF StorePermissions, At, Inv
<1>2. SamePerms(u) /\ (Pending(u) => Pending(u)')
  BY <1>1, KeepsPending DEF SamePerms, tables, GetUserPermissionStrings
<1>3. CASE UNCHANGED <<cache, torn>>
  BY <1>1, <1>3, QuietCovered
<1>4. CASE /\ cache' = [cache EXCEPT ![req[r].user] = req[r].read]
           /\ torn' = IF req[r].read = GetUserPermissionStrings(req[r].user)
                        THEN torn \ {req[r].user} ELSE torn \cup {req[r].user}
  <2>1. CASE u # req[r].user
    <3>1. SameEntry(u)
      BY <1>4, <2>1 DEF SameEntry, Inv, TypeOK
    <3> QED
      BY <1>2, <3>1, KeepsCovered
  <2>2. CASE u = req[r].user
    <3>1. cache'[u] = req[r].read
      BY <1>4, <2>2 DEF Inv, TypeOK
    <3>2. req[r].read = GetUserPermissionStrings(u)' \/ u \in torn'
      BY <1>2, <1>4, <2>2 DEF SamePerms
    <3> QED
      BY <3>1, <3>2 DEF Covered, Stale
  <2> QED
    BY <2>1, <2>2
<1> QED
  BY <1>3, <1>4 DEF StorePermissions

(* A change of role s concerns the users who have it, and they wait for    *)
(* its invalidation.                                                       *)
LEMMA RoleCovered ==
  ASSUME Inv, NEW r \in Requests, NEW u \in Users, NEW s \in Roles, Covered(u),
         Others(r), req[r].pc \in {"idle", "grant"},
         req'[r].pc = "users" /\ req'[r].role = s,
         UNCHANGED <<userRoles, cache, torn>>,
         \A t \in Roles \ {s} : roleActive'[t] = roleActive[t],
         \A t \in Roles \ {s}, p \in Perms :
           <<t, p>> \in rolePerms' <=> <<t, p>> \in rolePerms
  PROVE  Covered(u)'
<1>1. CASE <<u, s>> \in userRoles
  BY <1>1 DEF Covered, Pending, At
<1>2. CASE <<u, s>> \notin userRoles
  <2>1. SamePerms(u)
    BY <1>2 DEF SamePerms, GetUserPermissionStrings
  <2>2. Pending(u) => Pending(u)'
    BY KeepsPending
  <2> QED
    BY <2>1, <2>2, KeepsCovered DEF SameEntry
<1> QED
  BY <1>1, <1>2

LEMMA RoleStepsCovered ==
  ASSUME Inv, NEW r \in Requests, NEW u \in Users, NEW s \in Roles, Covered(u),
         \/ DeactivateRole(r, s)
         \/ ActivateRole(r, s)
         \/ \E perms \in PermSets : RemovePermissionsFromRole(r, s, perms)
  PROVE  Covered(u)'
<1>1. Change(r, RoleChanged(s))
  BY DEF DeactivateRole, ActivateRole, RemovePermissionsFromRole
<1>2. /\ Others(r) /\ req[r].pc = "idle"
      /\ req'[r].pc = "users" /\ req'[r].role = s
  BY <1>1, SetReq, IdleLocals
  DEF Inv, Change, Begin, At, RoleChanged, Idle
<1>3. UNCHANGED <<userRoles, cache, torn>>
  BY <1>1 DEF Change, DeactivateRole, ActivateRole, RemovePermissionsFromRole
<1>4. \A t \in Roles \ {s} : roleActive'[t] = roleActive[t]
  BY DEF DeactivateRole, ActivateRole, RemovePermissionsFromRole, Inv, TypeOK
<1>5. \A t \in Roles \ {s}, p \in Perms :
        <<t, p>> \in rolePerms' <=> <<t, p>> \in rolePerms
  BY DEF DeactivateRole, ActivateRole, RemovePermissionsFromRole
<1> QED
  BY <1>2, <1>3, <1>4, <1>5, RoleCovered

LEMMA InsertCovered ==
  ASSUME Inv, NEW r \in Requests, NEW u \in Users, Covered(u),
         InsertPermissions(r)
  PROVE  Covered(u)'
<1>1. req[r].pc = "grant" /\ req[r].role \in Roles
  BY DEF InsertPermissions, At, Inv, WellFormed
<1>2. Others(r) /\ req'[r].pc = "users" /\ req'[r].role = req[r].role
  BY <1>1, SetReq, IdleLocals DEF InsertPermissions, Inv, RoleChanged, Idle
<1>3. UNCHANGED <<userRoles, roleActive, cache, torn>>
  BY DEF InsertPermissions
<1>4. \A t \in Roles \ {req[r].role}, p \in Perms :
        <<t, p>> \in rolePerms' <=> <<t, p>> \in rolePerms
  BY DEF InsertPermissions
<1> QED
  BY <1>1, <1>2, <1>3, <1>4, RoleCovered

LEMMA AssignmentCovered ==
  ASSUME Inv, NEW r \in Requests, NEW u \in Users, Covered(u),
         NEW v \in Users, NEW s \in Roles,
         AssignRole(r, v, s) \/ RemoveRole(r, v, s)
  PROVE  Covered(u)'
<1>1. Change(r, UserChanged(v))
  BY DEF AssignRole, RemoveRole
<1>2. /\ Others(r) /\ req[r].pc = "idle"
      /\ req'[r].pc = "delete" /\ req'[r].todo = {v}
  BY <1>1, SetReq, IdleLocals
  DEF Inv, Change, Begin, At, UserChanged, Idle
<1>3. UNCHANGED <<rolePerms, roleActive, cache, torn>>
  BY <1>1 DEF Change, AssignRole, RemoveRole
<1>4. CASE u = v
  BY <1>2, <1>4 DEF Covered, Pending, At
<1>5. CASE u # v
  <2>1. \A t : <<u, t>> \in userRoles' <=> <<u, t>> \in userRoles
    BY <1>5 DEF AssignRole, RemoveRole
  <2>2. SamePerms(u)
    BY <1>3, <2>1 DEF SamePerms, GetUserPermissionStrings
  <2>3. Pending(u) => Pending(u)'
    BY <1>2, <2>1, KeepsPending
  <2> QED
    BY <1>3, <2>2, <2>3, KeepsCovered DEF SameEntry
<1> QED
  BY <1>4, <1>5

LEMMA UsersCovered ==
  ASSUME Inv, Reliable, NEW r \in Requests, NEW u \in Users, Covered(u),
         GetRoleUsers(r)
  PROVE  Covered(u)'
<1>1. SamePerms(u) /\ SameEntry(u) /\ UNCHANGED userRoles
  BY DEF GetRoleUsers, SamePerms, SameEntry, tables, history,
         GetUserPermissionStrings
<1>2. Others(r) /\ req[r].pc = "users"
  BY DEF GetRoleUsers, Finish, Inv, TypeOK, Others, At
<1>3. <<u, req[r].role>> \in userRoles =>
        req'[r].pc = "delete" /\ u \in req'[r].todo
  <2> DEFINE holders == {v \in Users : <<v, req[r].role>> \in userRoles}
  <2> SUFFICES ASSUME u \in holders
               PROVE  req'[r].pc = "delete" /\ u \in req'[r].todo
    OBVIOUS
  <2>1. "roleUsers" \notin Faults
    BY DEF Reliable
  <2>2. req' = [req EXCEPT ![r] = [Idle EXCEPT !.pc = "delete",
                                               !.todo = holders]]
    BY <2>1 DEF GetRoleUsers
  <2> HIDE DEF holders
  <2>3. req'[r] = [Idle EXCEPT !.pc = "delete", !.todo = holders]
    BY <2>2 DEF Inv, TypeOK
  <2> QED
    BY <2>3 DEF Idle
<1>4. Pending(u) => Pending(u)'
  BY <1>1, <1>2, <1>3 DEF Pending, At, Others
<1> QED
  BY <1>1, <1>4, KeepsCovered

LEMMA DeleteCovered ==
  ASSUME Inv, Reliable, NEW r \in Requests, NEW u \in Users, Covered(u),
         NEW v \in Users, InvalidateUserPermissionCache(r, v)
  PROVE  Covered(u)'
<1>1. cache' = [cache EXCEPT ![v] = Miss] /\ torn' = torn \ {v}
  BY DEF InvalidateUserPermissionCache, Reliable
<1>2. CASE u = v
  BY <1>1, <1>2 DEF Inv, TypeOK, Covered, Stale
<1>3. CASE u # v
  <2>1. SamePerms(u) /\ SameEntry(u) /\ UNCHANGED userRoles
    BY <1>1, <1>3 DEF InvalidateUserPermissionCache, SamePerms, SameEntry,
       tables, GetUserPermissionStrings, Inv, TypeOK
  <2>2. Others(r) /\ req[r].pc = "delete"
    BY DEF InvalidateUserPermissionCache, Finish, Inv, TypeOK, Others, At
  <2>3. u \in req[r].todo => req'[r].pc = "delete" /\ u \in req'[r].todo
    BY <1>3, <2>2 DEF InvalidateUserPermissionCache, Finish, Inv, TypeOK
  <2>4. Pending(u) => Pending(u)'
    BY <2>1, <2>2, <2>3 DEF Pending, At, Others
  <2> QED
    BY <2>1, <2>4, KeepsCovered
<1> QED
  BY <1>2, <1>3

LEMMA ExpireCovered ==
  ASSUME Inv, NEW u \in Users, Covered(u), NEW v \in Users, Expire(v)
  PROVE  Covered(u)'
<1>1. CASE u = v
  BY <1>1 DEF Expire, Inv, TypeOK, Covered, Stale
<1>2. CASE u # v
  <2>1. SamePerms(u) /\ SameEntry(u)
    BY <1>2 DEF Expire, SamePerms, SameEntry, tables,
                GetUserPermissionStrings, Inv, TypeOK
  <2>2. Pending(u) => Pending(u)'
    BY DEF Expire, Pending, At, tables
  <2> QED
    BY <2>1, <2>2, KeepsCovered
<1> QED
  BY <1>1, <1>2

LEMMA CoveredStep ==
  ASSUME Inv, Reliable, [Next]_vars, NEW u \in Users, Covered(u)
  PROVE  Covered(u)'
<1>1. ASSUME NEW r \in Requests, Abort(r) PROVE FALSE
  BY <1>1 DEF Reliable, Abort
<1>2. CASE Next
  BY <1>1, <1>2, NextCases, RequestCovered, StoreCovered, RoleStepsCovered,
     InsertCovered, AssignmentCovered, UsersCovered, DeleteCovered,
     ExpireCovered
<1>3. CASE UNCHANGED vars
  <2>1. UNCHANGED <<userRoles, rolePerms, roleActive, cache, torn, req>>
    BY <1>3 DEF vars, tables, history
  <2>2. SamePerms(u) /\ SameEntry(u)
    BY <2>1 DEF SamePerms, SameEntry, GetUserPermissionStrings
  <2>3. Pending(u) => Pending(u)'
    BY <2>1 DEF Pending, At
  <2> QED
    BY <2>2, <2>3, KeepsCovered
<1> QED
  BY <1>2, <1>3

(* If no invalidation fails or dies, it misses nobody: an outdated entry   *)
(* is about to be deleted, or was outdated when a concurrent fill wrote    *)
(* it, whichever changes of rbac_service.go and user_service.go interleave.*)
THEOREM InvalidationReachesAll ==
  ASSUME Reliable PROVE Spec => []StaleOnlyByRace
<1>1. StaleOnlyByRace <=> \A u \in Users : Covered(u)
  BY DEF StaleOnlyByRace, Covered
<1>2. Init => StaleOnlyByRace
  BY DEF Init, StaleOnlyByRace, Stale
<1>3. ASSUME Inv, [Next]_vars, StaleOnlyByRace PROVE StaleOnlyByRace'
  BY <1>1, <1>3, CoveredStep DEF StaleOnlyByRace, Covered
<1> QED
  BY <1>2, <1>3, Invariance, PTL DEF Spec
=============================================================================
