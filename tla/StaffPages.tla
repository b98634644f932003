----------------------------- MODULE StaffPages -----------------------------
(***************************************************************************)
(* The pages on which staff manage users, roles, scholarship cycles and the *)
(* audit log (src/frontend/src/app/portal/admin), in one tab, against the    *)
(* server's routes and permissions.  Every page loads a list when it is      *)
(* mounted and whenever its filter or page number changes, without a         *)
(* sequence number; a change sends a request and loads the list again with   *)
(* the query of the render whose handler ran.                                *)
(***************************************************************************)
EXTENDS Naturals, Sequences, FiniteSets, SequencesExt

CONSTANTS
  StaffRoles,   \* roles of the person at the tab
  Accounts,     \* numbers, in the order of the users list
  Me,           \* the account of the person at the tab
  PageSize,
  MaxRequests,  \* bound: requests of the page in flight
  MaxChanges,   \* bound: changes of the database
  MaxPage       \* bound: page numbers

ASSUME StaffAssumption ==
  /\ Accounts \subseteq Nat /\ IsFiniteSet(Accounts) /\ Me \in Accounts
  /\ {PageSize, MaxRequests, MaxPage} \subseteq Nat \ {0}
  /\ MaxChanges \in Nat

VARIABLES
  db,        \* the server's tables
  revoked,   \* permissions another administrator took from the person's role
  role,      \* role of the person, in the token and in AuthProvider
  known,     \* revoked, as AuthProvider read it when the tab was loaded
  route,     \* the page shown
  query,     \* its filter and page number
  data,      \* its list: the last answer it was given
  isLoading,
  fetches,   \* list requests of the page, oldest first
  acts,      \* change requests of the tab
  modal,     \* the creation dialogue is open
  busy,      \* creating (roles), saving (role)
  excuses    \* history: "stale" and "strayed", see the properties

view == <<route, query, data, isLoading, fetches, modal, busy>>
access == <<revoked, role, known>>
vars == <<db, access, view, acts, excuses>>

Pages == {"users", "audit", "roles", "role", "cycles"}
RoleNames == {"r1", "r2"}                 \* two custom roles; page "role" shows r1
Toggles == {"reports.read", "system.monitor"}
Revocable == {"users.update"}
Excuses == {"stale", "strayed"}

Nothing == [q |-> [filter |-> "all", page |-> 0], rows |-> {}, pages |-> 0]

-----------------------------------------------------------------------------
(* Who may do what: the seeded roles, the gates of the pages, the routes.    *)

AdminRoles == {"super_admin", "admin", "org_admin", "scholarship_manager", "housing_manager",
               "innovation_manager", "financial_officer"}
Managing == {"users.read", "users.update", "users.delete", "roles.read", "roles.assign",
             "scholarships.create", "reports.read"}
Seed(r) ==
  CASE r = "super_admin"         -> Managing \cup {"roles.create", "roles.delete", "system.monitor"}
    [] r = "admin"               -> Managing \cup {"roles.create", "roles.delete"}
    [] r = "org_admin"           -> Managing
    [] r = "scholarship_manager" -> {"users.read", "scholarships.create", "reports.read"}
    [] r \in {"housing_manager", "innovation_manager"} -> {"users.read", "reports.read"}
    [] r = "scholarship_admin"   -> {"scholarships.create", "reports.read"}
    [] r \in {"financial_officer", "housing_admin", "auditor"} -> {"reports.read"}
    [] r = "support_employee"    -> {"users.read"}
    [] OTHER                     -> {}

HasPermission(p) == role = "super_admin" \/ p \in Seed(role) \ known     \* in the tab
Permitted(p) == role = "super_admin" \/ p \in Seed(role) \ revoked       \* on the server

InMenu(r) ==
  CASE r = "users" -> role \in {"super_admin", "admin", "org_admin"} \/ HasPermission("users.read")
    [] r = "roles" -> role \in {"super_admin", "admin"} \/ HasPermission("roles.read")
    [] r = "audit" -> role \in {"super_admin", "admin"} \/ HasPermission("admin.audit")
    [] OTHER       -> FALSE

(* The component itself is rendered; users and cycles are not wrapped. *)
MayOpen(r) ==
  CASE r \in {"roles", "role"} -> HasPermission("roles.read")
    [] r = "audit"             -> HasPermission("admin.audit")
    [] OTHER                   -> TRUE

(* The list's route; the cycles are not under /admin. *)
MayList(r) ==
  CASE r = "users"             -> role \in AdminRoles /\ Permitted("users.read")
    [] r \in {"roles", "role"} -> role \in AdminRoles /\ Permitted("roles.read")
    [] r = "audit"             -> role \in AdminRoles /\ Permitted("admin.audit")
    [] OTHER                   -> TRUE

RowActs == {"suspend", "reactivate", "forceLogout", "deactivate", "assign"}
Kinds == RowActs \cup {"createRole", "deactivateRole", "grant", "remove", "createCycle"}
Ids(k) ==
  CASE k \in RowActs                           -> Accounts
    [] k \in {"createRole", "deactivateRole"}  -> RoleNames
    [] k \in {"grant", "remove"}               -> Toggles
    [] OTHER                                   -> {"cycle"}

(* The permission each route asks for. *)
Need(k) ==
  CASE k \in {"suspend", "reactivate", "forceLogout"} -> "users.update"
    [] k = "deactivate"                               -> "users.delete"
    [] k \in {"assign", "grant", "remove"}            -> "roles.assign"
    [] k = "createRole"                               -> "roles.create"
    [] k = "deactivateRole"                           -> "roles.delete"
    [] OTHER                                          -> "scholarships.create"

(* The handlers refuse to suspend or to deactivate the caller's own account; *)
(* the rows offer both for every account.                                    *)
OwnAccount(k, id) == k \in {"suspend", "deactivate"} /\ id = Me

MayDo(k, id) ==
  /\ k = "createCycle" \/ role \in AdminRoles
  /\ Permitted(Need(k))
  /\ ~OwnAccount(k, id)

(* Mutant of Gate: the row shows its controls to whoever sees it. *)
NoGate(k) == TRUE

(* PermissionGate around the controls of a row of the users list. *)
Gate(k) ==
  CASE k \in {"suspend", "reactivate", "forceLogout"} -> HasPermission("users.update")
    [] k = "deactivate"                               -> HasPermission("users.delete")
    [] k = "assign"                                   -> HasPermission("roles.assign")
    [] OTHER                                          -> TRUE

-----------------------------------------------------------------------------
(* The server. *)

(* ListWithFilters has no condition for a search term: "search" lists all. *)
Listed(f) == {a \in Accounts : /\ db.accounts[a] # "deleted"
                               /\ f = "some" => db.accounts[a] = "active"}
PageOf(S, p) == {a \in S : LET before == Cardinality({b \in S : b < a})
                           IN  (p - 1) * PageSize <= before /\ before < p * PageSize}
TotalPages(total) == (total + PageSize - 1) \div PageSize

(* Filter "some" is status=active, entity_type=user and include_inactive=false; *)
(* "search" is a search term on the users page, which sends it with the rest.   *)
Rows(r, q) ==
  CASE r = "users" -> {<<a, db.accounts[a]>> : a \in PageOf(Listed(q.filter), q.page)}
    [] r = "roles" -> {<<n, db.roles[n]>> : n \in {m \in RoleNames :
                          db.roles[m] \in {"active"} \cup (IF q.filter = "all" THEN {"inactive"} ELSE {})}}
    [] r = "role"  -> {<<t, "assigned">> : t \in db.perms}
    [] OTHER       -> {}

PageCount(r, q) ==
  CASE r = "users"  -> TotalPages(Cardinality(Listed(q.filter)))
    [] r = "audit"  -> TotalPages(db.logs.user + (IF q.filter = "all" THEN db.logs.role ELSE 0))
    [] r = "cycles" -> TotalPages(db.cycles)
    [] OTHER        -> 1

Answer(r, q) == [q |-> q, rows |-> Rows(r, q), pages |-> PageCount(r, q)]

(* What a request makes of the tables; an error changes nothing. *)
Fails(k, id) ==
  \/ k = "createRole" /\ db.roles[id] # "none"
  \/ k = "deactivateRole" /\ db.roles[id] = "none"
  \/ k = "grant" /\ ~Permitted(id)           \* checkPrivilegeEscalation

SetStatus(id, st) ==
  [db.accounts EXCEPT ![id] = IF db.accounts[id] = "deleted" THEN "deleted" ELSE st]

Effect(k, id) ==
  CASE k = "suspend"        -> [db EXCEPT !.accounts = SetStatus(id, "suspended"), !.logs.user = @ + 1]
    [] k = "reactivate"     -> [db EXCEPT !.accounts = SetStatus(id, "active"), !.logs.user = @ + 1]
    [] k = "deactivate"     -> [db EXCEPT !.accounts = SetStatus(id, "deleted"), !.logs.user = @ + 1]
    [] k \in {"forceLogout", "assign"} -> [db EXCEPT !.logs.user = @ + 1]
    [] k = "createRole"     -> [db EXCEPT !.roles[id] = "active", !.logs.role = @ + 1]
    [] k = "deactivateRole" -> [db EXCEPT !.roles[id] = "inactive", !.logs.role = @ + 1]
    [] k = "grant"          -> [db EXCEPT !.perms = @ \cup {id}, !.logs.role = @ + 1]
    [] k = "remove"         -> [db EXCEPT !.perms = @ \ {id}, !.logs.role = @ + 1]
    [] OTHER                -> [db EXCEPT !.cycles = @ + 1]

Listing(k) ==
  CASE k \in {"forceLogout", "assign"}        -> {"audit"}
    [] k \in RowActs                          -> {"users", "audit"}
    [] k \in {"createRole", "deactivateRole"} -> {"roles", "audit"}
    [] k \in {"grant", "remove"}              -> {"role"}
    [] OTHER                                  -> {"cycles"}

Changes == db.logs.user + db.logs.role + db.cycles

-----------------------------------------------------------------------------
(* State. *)

FilterValues == {"all", "some", "search"}
Filters(r) ==
  CASE r = "users"              -> FilterValues
    [] r \in {"audit", "roles"} -> {"all", "some"}
    [] OTHER                    -> {"all"}
FirstQuery(r) == [filter |-> IF r = "roles" THEN "some" ELSE "all", page |-> 1]
Request(q) == [q |-> q, st |-> "sent", ans |-> Nothing]

Query == [filter : FilterValues, page : 1 .. MaxPage]
RowSpace ==
  CASE route = "users" -> Accounts \X {"active", "suspended"}
    [] route = "roles" -> RoleNames \X {"active", "inactive"}
    [] route = "role"  -> Toggles \X {"assigned"}
    [] OTHER           -> {}
IsAnswer(a) ==
  \/ a = Nothing
  \/ a.q \in Query /\ a.rows \subseteq RowSpace /\ a.pages \in Nat

(* The tables and the tab hold values of their types; page numbers stay      *)
(* within 1 .. MaxPage, and no more requests are in flight than the bounds.  *)
TypeOK ==
  /\ db.accounts \in [Accounts -> {"active", "suspended", "deleted"}]
  /\ db.roles \in [RoleNames -> {"none", "active", "inactive"}]
  /\ db.perms \subseteq Toggles
  /\ {db.logs.user, db.logs.role, db.cycles} \subseteq 0 .. MaxChanges
  /\ revoked \subseteq Revocable /\ known \subseteq Revocable
  /\ role \in StaffRoles
  /\ route \in Pages \cup {"none"}
  /\ query \in Query
  /\ IsAnswer(data)
  /\ Len(fetches) + Len(acts) <= MaxRequests
  /\ \A i \in DOMAIN fetches : /\ fetches[i].q \in Query
                               /\ fetches[i].st \in {"sent", "ok", "error"}
                               /\ IsAnswer(fetches[i].ans)
  /\ \A i \in DOMAIN acts : /\ acts[i].kind \in Kinds /\ acts[i].id \in Ids(acts[i].kind)
                            /\ acts[i].q \in Query
                            /\ acts[i].st \in {"sent", "done", "forbidden", "failed"}
  /\ {isLoading, modal, busy} \subseteq BOOLEAN
  /\ excuses \subseteq Excuses

Init ==
  /\ db = [accounts |-> [a \in Accounts |-> IF a = 1 THEN "suspended" ELSE "active"],
           roles |-> [n \in RoleNames |-> IF n = "r1" THEN "active" ELSE "none"],
           perms |-> {"system.monitor"}, logs |-> [user |-> 0, role |-> 0], cycles |-> 0]
  /\ revoked = {} /\ known = {}
  /\ role \in StaffRoles
  /\ route = "none" /\ query = FirstQuery("none") /\ data = Nothing
  /\ isLoading = TRUE /\ fetches = <<>> /\ modal = FALSE /\ busy = FALSE
  /\ acts = <<>> /\ excuses = {}

-----------------------------------------------------------------------------
(* Navigation. *)

(* A request that was sent goes on without its page: what it changes then is *)
(* one of the changes of Meddle, and nobody waits for its answer.            *)
(* Bound: after the first change of the database a page is only reloaded; a  *)
(* page that is mounted keeps nothing of the one before it.                  *)
Mount(r) ==
  /\ Changes = 0 \/ r = route
  /\ route' = r /\ query' = FirstQuery(r) /\ data' = Nothing
  /\ isLoading' = TRUE /\ modal' = FALSE /\ busy' = FALSE
  /\ fetches' = IF MayOpen(r)' THEN <<Request(FirstQuery(r))>> ELSE <<>>
  /\ excuses' = {} /\ acts' = <<>>
  /\ UNCHANGED db

(* A link of the sidebar; the pages stay in the running application. *)
Visit(r) ==
  /\ InMenu(r) /\ route # r
  /\ UNCHANGED access
  /\ Mount(r)

(* The address bar, a reload, or an <a href> of the roles page: AuthProvider *)
(* asks for the permissions anew.                                            *)
Open(r) ==
  /\ known' = revoked
  /\ UNCHANGED <<revoked, role>>
  /\ Mount(r)

-----------------------------------------------------------------------------
(* The list. *)

Shown == route # "none" /\ MayOpen(route)

SetQuery(q) ==
  /\ Len(fetches) + Len(acts) < MaxRequests
  /\ query' = q
  /\ fetches' = Append(fetches, Request(q))
  /\ isLoading' = TRUE
  /\ UNCHANGED <<db, access, acts, route, data, modal, busy>>

(* Mutant of SetFilter: the page number is kept. *)
FilterOnly(f) ==
  /\ Shown /\ f \in Filters(route) \ {query.filter}
  /\ SetQuery([query EXCEPT !.filter = f])
  /\ UNCHANGED excuses

SetFilter(f) ==
  /\ Shown /\ f \in Filters(route) \ {query.filter}
  /\ SetQuery([filter |-> f, page |-> 1])
  /\ UNCHANGED excuses

HasPagination == Shown /\ data.pages > 1

(* Mutant of PrevPage: the first page has a previous one. *)
PrevAlways ==
  /\ HasPagination
  /\ SetQuery([query EXCEPT !.page = @ - 1])
  /\ UNCHANGED excuses

PrevPage ==
  /\ HasPagination /\ query.page # 1
  /\ SetQuery([query EXCEPT !.page = @ - 1])
  /\ UNCHANGED excuses

(* The number of pages is that of the list shown, which may be of another    *)
(* query; users and cycles compare with ===, the audit page with >=.         *)
NextPage ==
  /\ HasPagination
  /\ IF route = "audit" THEN query.page < data.pages ELSE query.page # data.pages
  /\ query.page < MaxPage
  /\ SetQuery([query EXCEPT !.page = @ + 1])
  /\ excuses' = IF data.q = query THEN excuses ELSE excuses \cup {"strayed"}

(* COUNT and SELECT are two statements of the handler; they read as one here. *)
AnswerFetch(i) ==
  /\ fetches[i].st = "sent"
  /\ fetches' = [fetches EXCEPT ![i] =
       IF MayList(route) THEN [@ EXCEPT !.st = "ok", !.ans = Answer(route, fetches[i].q)]
                         ELSE [@ EXCEPT !.st = "error"]]
  /\ UNCHANGED <<db, access, acts, route, query, data, isLoading, modal, busy, excuses>>

LoseFetch(i) ==
  /\ fetches[i].st = "sent"
  /\ fetches' = [fetches EXCEPT ![i].st = "error"]
  /\ UNCHANGED <<db, access, acts, route, query, data, isLoading, modal, busy, excuses>>

(* Answers are taken as they come: setData, then setIsLoading(false). *)
DeliverFetch(i) ==
  /\ fetches[i].st # "sent"
  /\ data' = IF fetches[i].st = "ok" THEN fetches[i].ans ELSE data
  /\ isLoading' = FALSE
  /\ fetches' = RemoveAt(fetches, i)
  /\ excuses' = IF i > 1 \/ fetches[i].st = "error" THEN excuses \cup {"stale"} ELSE excuses
  /\ UNCHANGED <<db, access, acts, route, query, modal, busy>>

-----------------------------------------------------------------------------
(* Changes. *)

Row(x) == ~isLoading /\ x \in data.rows

(* The controls of each page. *)
RowMenu(k, id) ==
  CASE k = "suspend"     -> Row(<<id, "active">>)
    [] k = "reactivate"  -> Row(<<id, "suspended">>)
    [] k \in RowActs     -> \E st \in {"active", "suspended"} : Row(<<id, st>>)
    [] OTHER             -> FALSE
RoleCard(k, id) == k = "deactivateRole" /\ Row(<<id, "active">>)
RoleForm(k) == k = "createRole" /\ modal /\ ~busy
PermissionSwitch(k, id) ==
  /\ k \in {"grant", "remove"} /\ data # Nothing /\ ~isLoading /\ ~busy
  /\ k = "remove" <=> <<id, "assigned">> \in data.rows
CycleForm(k) == k = "createCycle" /\ modal      \* nothing says that it is being sent

Offered(k, id) ==
  CASE route = "users"  -> RowMenu(k, id)
    [] route = "roles"  -> RoleCard(k, id) \/ RoleForm(k)
    [] route = "role"   -> PermissionSwitch(k, id)
    [] route = "cycles" -> CycleForm(k)
    [] OTHER            -> FALSE

(* What a handler does beside its request. *)
Refetches(k) == k # "forceLogout"
Closes(k) == k \in {"createRole", "createCycle"}
Busies(k) == k \in {"createRole", "grant", "remove"}

(* Bound: no more changes are asked for than MaxChanges lets the server make. *)
Act(k, id) ==
  /\ Shown /\ Offered(k, id) /\ Gate(k)
  /\ Changes + Len(acts) < MaxChanges
  /\ Len(fetches) + Len(acts) < MaxRequests
  /\ acts' = Append(acts, [kind |-> k, id |-> id, q |-> query, st |-> "sent"])
  /\ busy' = (busy \/ Busies(k))
  /\ UNCHANGED <<db, access, route, query, data, isLoading, fetches, modal, excuses>>

ToggleModal ==
  /\ Shown /\ route \in {"roles", "cycles"}
  /\ modal' = ~modal
  /\ UNCHANGED <<db, access, acts, route, query, data, isLoading, fetches, busy, excuses>>

(* A list of the page became shorter. *)
Shrinks ==
  \E f \in Filters(route) : LET q == [filter |-> f, page |-> 1]
                            IN  PageCount(route, q)' < PageCount(route, q)

ServeAct(i) ==
  LET a == acts[i]
      st == IF ~MayDo(a.kind, a.id) THEN "forbidden" ELSE IF Fails(a.kind, a.id) THEN "failed" ELSE "done"
  IN  /\ a.st = "sent"
      /\ Changes < MaxChanges
      /\ db' = IF st = "done" THEN Effect(a.kind, a.id) ELSE db
      /\ acts' = [acts EXCEPT ![i].st = st]
      /\ UNCHANGED <<access, view>>
      /\ excuses' = IF Shrinks THEN excuses \cup {"strayed"} ELSE excuses

(* The request or its answer is lost; the handlers only write to the console. *)
LoseAct(i) ==
  /\ acts[i].st \in {"sent", "done"}
  /\ acts' = [acts EXCEPT ![i].st = "failed"]
  /\ excuses' = IF acts[i].st = "done" THEN excuses \cup {"stale"} ELSE excuses
  /\ UNCHANGED <<db, access, view>>

(* Mutant of ReturnAct: the handler does not load the list again. *)
ReturnOnly(i) ==
  /\ acts[i].st \in {"done", "forbidden", "failed"}
  /\ acts' = RemoveAt(acts, i)
  /\ busy' = FALSE
  /\ UNCHANGED <<db, access, route, query, data, isLoading, fetches, modal, excuses>>

(* Every handler but handleForceLogout loads the list again, with the query  *)
(* of the render it belongs to.                                              *)
ReturnAct(i) ==
  LET a == acts[i]
      refetch == a.st = "done" /\ Refetches(a.kind)
  IN  /\ a.st \in {"done", "forbidden", "failed"}
      /\ acts' = RemoveAt(acts, i)
      /\ fetches' = IF refetch THEN Append(fetches, Request(a.q)) ELSE fetches
      /\ isLoading' = (isLoading \/ refetch)
      /\ modal' = (modal /\ ~(a.st = "done" /\ Closes(a.kind)))
      /\ busy' = (busy /\ ~Busies(a.kind))
      /\ excuses' = IF refetch /\ a.q # query THEN excuses \cup {"stale"} ELSE excuses
      /\ UNCHANGED <<db, access, route, query, data>>

(* Another administrator, or a request of a page that was left.              *)
(* Bound: a change of something the page lists.                              *)
Meddle(k, id) ==
  /\ Shown /\ route \in Listing(k)
  /\ Changes < MaxChanges
  /\ ~Fails(k, id)
  /\ db' = Effect(k, id)
  /\ UNCHANGED <<access, view, acts>>
  /\ excuses' = excuses \cup {"stale"} \cup (IF Shrinks THEN {"strayed"} ELSE {})

(* Bound: once per load of the tab.  The role super_admin passes every check *)
(* whatever its permissions are.                                             *)
ChangePermissions(S) ==
  /\ role # "super_admin" /\ revoked = known
  /\ S \subseteq Seed(role) /\ S # revoked
  /\ revoked' = S
  /\ UNCHANGED <<db, role, known, view, acts, excuses>>

-----------------------------------------------------------------------------
Next ==
  \/ \E r \in Pages : Visit(r) \/ Open(r)
  \/ \E f \in FilterValues : SetFilter(f)
  \/ PrevPage \/ NextPage \/ ToggleModal
  \/ \E i \in DOMAIN fetches : AnswerFetch(i) \/ LoseFetch(i) \/ DeliverFetch(i)
  \/ \E k \in Kinds : \E id \in Ids(k) : Act(k, id) \/ Meddle(k, id)
  \/ \E i \in DOMAIN acts : ServeAct(i) \/ LoseAct(i) \/ ReturnAct(i)
  \/ \E S \in SUBSET Revocable : ChangePermissions(S)

Spec == Init /\ [][Next]_vars

-----------------------------------------------------------------------------
Settled == Shown /\ fetches = <<>> /\ acts = <<>>

(* When nothing is under way the page shows what the server lists now for    *)
(* the query it displays, unless one of four things happened since it was    *)
(* opened ("stale"): answers overtook each other, a request was lost or      *)
(* refused, a handler loaded the list of the filter it was clicked under     *)
(* (fetchUsers of the old render), or another request made the change.  It   *)
(* is the list of the role and status filters and of the page number; a      *)
(* search term on the users page has no effect on it, see Listed.            *)
ShownIsStored == Settled /\ "stale" \notin excuses => data = Answer(route, query)

(* The page number displayed is a page of the list displayed, unless a       *)
(* list became shorter or Next was pressed while the number of pages was     *)
(* that of another list ("strayed"): a filter starts at its first page.      *)
PageExists ==
  Settled /\ data.q = query /\ "strayed" \notin excuses
    => query.page = 1 \/ query.page <= data.pages

(* A control behind a PermissionGate is refused by the server only when the  *)
(* permissions of the person changed after the tab was loaded, or when it    *)
(* would suspend or deactivate the person's own account: the gates of        *)
(* users/page.tsx ask for what the routes of router.go ask for, and for      *)
(* nothing of what the handlers ask.                                         *)
GatesMatchRoutes ==
  \A i \in DOMAIN acts : acts[i].st = "forbidden" /\ acts[i].kind \in RowActs =>
    revoked # known \/ OwnAccount(acts[i].kind, acts[i].id)
=============================================================================
