-------------------------- MODULE PermissionCache --------------------------
(***************************************************************************)
(* Roles, permissions and the per-user permission cache in Redis           *)
(* (rbac_service.go, rbac_repo.go, user_service.go, RequirePermission).    *)
(*                                                                         *)
(* Every request executes its SQL statements and Redis calls one at a      *)
(* time.  A change commits in Postgres before the cached permission sets   *)
(* of the users it concerns are deleted, and a cache fill reads Postgres   *)
(* before it writes Redis.                                                 *)
(***************************************************************************)
EXTENDS FiniteSets

CONSTANTS
  Users,
  Roles,
  System,      \* roles with is_system = true
  SuperAdmin,  \* the role that bypasses the escalation guard
  Perms,
  Requests,    \* slots for concurrently executing HTTP requests
  None,        \* no user, no role
  Miss,        \* no entry in Redis
  Faults       \* which failures are explored

ASSUME RolesAssumption ==
  /\ System \subseteq Roles
  /\ SuperAdmin \in System
  /\ None \notin Users \cup Roles
  /\ \A perms \in SUBSET Perms : Miss # perms
  /\ Faults \subseteq {"get", "set", "roleUsers", "delete", "abort"}

VARIABLES
  userRoles,  \* user_roles
  rolePerms,  \* role_permissions
  roleActive, \* roles.is_active
  cache,      \* "user:permissions:<id>" in Redis
  req,        \* the requests: next statement and local variables
  (* History variables: no step reads them. *)
  held,       \* <<u, p>>: user u has had permission p
  grants,     \* <<a, p>>: a passed the guard and added p to a role
  torn        \* users whose entry was outdated already when it was written

tables  == <<userRoles, rolePerms, roleActive>>
history == <<held, grants, torn>>
vars == <<tables, cache, req, history>>

PermSets == SUBSET Perms

Idle == [pc |-> "idle", user |-> None, role |-> None, want |-> {},
         read |-> {}, todo |-> {}]

TypeOK ==
  /\ userRoles \subseteq Users \X Roles
  /\ rolePerms \subseteq Roles \X Perms
  /\ roleActive \in [Roles -> BOOLEAN]
  /\ cache \in [Users -> {Miss} \cup PermSets]
  /\ req \in [Requests ->
       [pc : {"idle", "get", "select", "set", "grant", "users", "delete"},
        user : Users \cup {None}, role : Roles \cup {None},
        want : PermSets, read : PermSets, todo : SUBSET Users]]
  /\ held \subseteq Users \X Perms
  /\ grants \subseteq Users \X Perms
  /\ torn \subseteq Users

(* Mutant of GetUserPermissionStrings: the names of the user's roles.      *)
GetUserRoleNames(u) == {s \in Roles : <<u, s>> \in userRoles}

(* GetUserPermissionStrings: the union over the user's active roles, in    *)
(* one statement.                                                          *)
GetUserPermissionStrings(u) ==
  {p \in Perms : \E s \in Roles : /\ <<u, s>> \in userRoles
                                  /\ roleActive[s]
                                  /\ <<s, p>> \in rolePerms}

Holdings == {h \in Users \X Perms : h[2] \in GetUserPermissionStrings(h[1])}

(* Any assignment the administrators may have made before.                 *)
Init ==
  /\ userRoles \in SUBSET (Users \X Roles)
  /\ rolePerms \in SUBSET (Roles \X Perms)
  /\ roleActive = [s \in Roles |-> TRUE]
  /\ cache = [u \in Users |-> Miss]
  /\ req = [r \in Requests |-> Idle]
  /\ held = Holdings
  /\ grants = {}
  /\ torn = {}

-----------------------------------------------------------------------------
(* Request bookkeeping.                                                    *)

At(r, label) == req[r].pc = label
Goto(r, label) == req' = [req EXCEPT ![r].pc = label]
Finish(r) == req' = [req EXCEPT ![r] = Idle]

(* A request whose first effect is done waits at its next statement.       *)
Begin(r, locals) ==
  /\ At(r, "idle")
  /\ req' = [req EXCEPT ![r] = locals]

(* Mutant of RoleChanged: nothing is invalidated.                          *)
NothingToDo(s) == [Idle EXCEPT !.role = s]

(* What follows a change of the tables: look for the users of a role, or   *)
(* delete the entry of one user.                                           *)
RoleChanged(s) == [Idle EXCEPT !.pc = "users", !.role = s]
UserChanged(u) == [Idle EXCEPT !.pc = "delete", !.todo = {u}]

(* Every change of the tables: the request, then what it leaves alone.     *)
Change(r, locals) ==
  /\ Begin(r, locals)
  /\ held' = held \cup Holdings'
  /\ UNCHANGED <<cache, grants, torn>>

(* Mutant of Decide: the guard lets everything through.                    *)
LetThrough(r, perms) ==
  /\ perms \subseteq Perms
  /\ IF req[r].role = None THEN Finish(r) ELSE Goto(r, "grant")

(* RequirePermission has the permissions; checkPrivilegeEscalation goes on *)
(* to the insert if they include the wanted ones.                          *)
Decide(r, perms) ==
  \/ /\ req[r].role # None /\ req[r].want \subseteq perms
     /\ Goto(r, "grant")
  \/ /\ req[r].role = None \/ ~(req[r].want \subseteq perms)
     /\ Finish(r)

-----------------------------------------------------------------------------
(* Permission checks.                                                      *)

(* The RequirePermission middleware, for a user without super_admin among  *)
(* the roles of the access token.                                          *)
RequirePermission(r, u) ==
  /\ Begin(r, [Idle EXCEPT !.pc = "get", !.user = u])
  /\ UNCHANGED <<tables, cache, history>>

(* AssignPermissionsToRole up to the guard's GetUserRoleNames, which also  *)
(* counts inactive roles: a super admin goes straight to the insert.       *)
AssignPermissionsToRole(r, a, s, want) ==
  /\ \/ /\ <<a, SuperAdmin>> \in userRoles
        /\ Begin(r, [Idle EXCEPT !.pc = "grant", !.role = s, !.want = want])
     \/ /\ <<a, SuperAdmin>> \notin userRoles
        /\ Begin(r, [Idle EXCEPT !.pc = "get", !.user = a, !.role = s,
                                 !.want = want])
  /\ UNCHANGED <<tables, cache, history>>

(* GetUserPermissions: Redis GET.  A cached empty set is a hit, a Redis    *)
(* error a miss.                                                           *)
GetCached(r) ==
  /\ At(r, "get")
  /\ \/ cache[req[r].user] # Miss /\ Decide(r, cache[req[r].user])
     \/ (cache[req[r].user] = Miss \/ "get" \in Faults) /\ Goto(r, "select")
  /\ UNCHANGED <<tables, cache, history>>

(* On a miss: the SELECT ...                                               *)
LoadPermissions(r) ==
  /\ At(r, "select")
  /\ req' = [req EXCEPT ![r].pc = "set",
               ![r].read = GetUserPermissionStrings(req[r].user)]
  /\ UNCHANGED <<tables, cache, history>>

(* ... and SET for 30 minutes, whose error is ignored.                     *)
StorePermissions(r) ==
  LET u == req[r].user  IN
  /\ At(r, "set")
  /\ \/ /\ cache' = [cache EXCEPT ![u] = req[r].read]
        /\ torn' = IF req[r].read = GetUserPermissionStrings(u)
                     THEN torn \ {u} ELSE torn \cup {u}
     \/ "set" \in Faults /\ UNCHANGED <<cache, torn>>
  /\ Decide(r, req[r].read)
  /\ UNCHANGED <<tables, held, grants>>

-----------------------------------------------------------------------------
(* Changes of roles and permissions.                                       *)

(* INSERT INTO role_permissions ... ON CONFLICT DO NOTHING.                *)
InsertPermissions(r) ==
  /\ At(r, "grant")
  /\ rolePerms' = rolePerms \cup ({req[r].role} \X req[r].want)
  /\ UNCHANGED <<userRoles, roleActive, cache, torn>>
  /\ req' = [req EXCEPT ![r] = RoleChanged(req[r].role)]
  /\ held' = held \cup Holdings'
  /\ grants' = IF req[r].user = None THEN grants
                 ELSE grants \cup ({req[r].user} \X req[r].want)

RemovePermissionsFromRole(r, s, perms) ==
  /\ rolePerms' = rolePerms \ ({s} \X perms)
  /\ UNCHANGED <<userRoles, roleActive>>
  /\ Change(r, RoleChanged(s))

(* Refused for a system role before any statement that changes something.  *)
DeactivateRole(r, s) ==
  /\ s \notin System
  /\ roleActive' = [roleActive EXCEPT ![s] = FALSE]
  /\ UNCHANGED <<userRoles, rolePerms>>
  /\ Change(r, RoleChanged(s))

(* UPDATE ... WHERE is_system = false; the users' entries go in any case.  *)
ActivateRole(r, s) ==
  /\ roleActive' = IF s \in System THEN roleActive
                                   ELSE [roleActive EXCEPT ![s] = TRUE]
  /\ UNCHANGED <<userRoles, rolePerms>>
  /\ Change(r, RoleChanged(s))

AssignRole(r, u, s) ==
  /\ userRoles' = userRoles \cup {<<u, s>>}
  /\ UNCHANGED <<rolePerms, roleActive>>
  /\ Change(r, UserChanged(u))

RemoveRole(r, u, s) ==
  /\ userRoles' = userRoles \ {<<u, s>>}
  /\ UNCHANGED <<rolePerms, roleActive>>
  /\ Change(r, UserChanged(u))

(* ForceLogout deletes the entry without changing a table of this module.  *)
ForceLogout(r, u) ==
  /\ Begin(r, UserChanged(u))
  /\ UNCHANGED <<tables, cache, history>>

(* invalidateRoleUsersCache: who has the role now.  A query error is       *)
(* logged and nothing is invalidated.                                      *)
GetRoleUsers(r) ==
  LET holders == {u \in Users : <<u, req[r].role>> \in userRoles} IN
  /\ At(r, "users")
  /\ \/ holders # {} /\ req' = [req EXCEPT ![r] =
                          [Idle EXCEPT !.pc = "delete", !.todo = holders]]
     \/ (holders = {} \/ "roleUsers" \in Faults) /\ Finish(r)
  /\ UNCHANGED <<tables, cache, history>>

(* InvalidateUserPermissionCache, one DEL per user, errors ignored.        *)
InvalidateUserPermissionCache(r, u) ==
  /\ At(r, "delete")
  /\ u \in req[r].todo
  /\ \/ cache' = [cache EXCEPT ![u] = Miss] /\ torn' = torn \ {u}
     \/ "delete" \in Faults /\ UNCHANGED <<cache, torn>>
  /\ \/ req[r].todo = {u} /\ Finish(r)
     \/ req[r].todo # {u} /\ req' = [req EXCEPT ![r].todo = @ \ {u}]
  /\ UNCHANGED <<tables, held, grants>>

(* Mutant of Expire: SET without an expiry.                                *)
NeverExpire(u) == cache[u] = Miss /\ UNCHANGED vars

(* The entry's 30 minutes are over.                                        *)
Expire(u) ==
  /\ cache[u] # Miss
  /\ cache' = [cache EXCEPT ![u] = Miss]
  /\ torn' = torn \ {u}
  /\ UNCHANGED <<tables, req, held, grants>>

(* The request stops between two statements.                               *)
Abort(r) ==
  /\ "abort" \in Faults
  /\ ~At(r, "idle")
  /\ Finish(r)
  /\ UNCHANGED <<tables, cache, history>>

Step(r) ==
  \/ GetCached(r)
  \/ LoadPermissions(r)
  \/ StorePermissions(r)
  \/ InsertPermissions(r)
  \/ GetRoleUsers(r)
  \/ \E u \in Users : InvalidateUserPermissionCache(r, u)

Next ==
  \/ \E r \in Requests :
       \/ Step(r)
       \/ Abort(r)
       \/ \E u \in Users : \/ RequirePermission(r, u)
                           \/ ForceLogout(r, u)
       \/ \E s \in Roles :
            \/ DeactivateRole(r, s)
            \/ ActivateRole(r, s)
            \/ \E u \in Users : AssignRole(r, u, s) \/ RemoveRole(r, u, s)
            \/ \E perms \in PermSets \ {{}} :
                 \/ RemovePermissionsFromRole(r, s, perms)
                 \/ \E a \in Users : AssignPermissionsToRole(r, a, s, perms)
  \/ \E u \in Users : Expire(u)

Spec == Init /\ [][Next]_vars

(* Redis expires an entry that nobody deletes.  No fairness is asked of    *)
(* the requests.                                                           *)
FairSpec == Spec /\ \A u \in Users : WF_vars(Expire(u))

-----------------------------------------------------------------------------
Stale(u) == cache[u] \notin {Miss, GetUserPermissionStrings(u)}

(* A request is about to delete u's entry.                                 *)
Pending(u) ==
  \E r \in Requests :
    \/ At(r, "delete") /\ u \in req[r].todo
    \/ At(r, "users") /\ <<u, req[r].role>> \in userRoles

(* Invalidation misses nobody: whichever changes of assignments, role      *)
(* permissions and role activity interleave, an outdated entry is about to *)
(* be deleted, or was outdated when a fill wrote it after reading Postgres *)
(* before the change (every caller of InvalidateUserPermissionCache).      *)
StaleOnlyByRace == \A u \in Users : Stale(u) => Pending(u) \/ u \in torn

(* "clear Redis cache when roles/permissions change": once the change's    *)
(* requests are through, no outdated entry is left.                        *)
InvalidationIsComplete == \A u \in Users : Stale(u) => Pending(u)

(* The guard against assigning permissions one does not have: however old  *)
(* the sets it reads, whoever adds a permission to a role has had it.      *)
GrantedWasHeld == grants \subseteq held

(* However it came about (a race, a failed DEL, a request that died before *)
(* its DEL), an outdated entry does not outlive its 30 minutes.            *)
StalenessEnds == \A u \in Users : Stale(u) ~> ~Stale(u)
=============================================================================
