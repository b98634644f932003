-------------------------- MODULE StaffPagesProofs --------------------------
(* The safety properties of StaffPages, for every set of staff roles and      *)
(* accounts, page size and bounds.                                           *)
EXTENDS StaffPages, FiniteSetTheorems, TLAPS

Tables == [accounts : [Accounts -> {"active", "suspended", "deleted"}],
           roles : [RoleNames -> {"none", "active", "inactive"}],
           perms : SUBSET Toggles,
           logs : [user : 0 .. MaxChanges, role : 0 .. MaxChanges],
           cycles : 0 .. MaxChanges]
Answers == {Nothing} \cup [q : Query, rows : SUBSET RowSpace, pages : Nat]
Fetch == [q : Query, st : {"sent", "ok", "error"}, ans : Answers]
Id == Accounts \cup RoleNames \cup Toggles \cup {"cycle"}
Action == {a \in [kind : Kinds, id : Id, q : Query,
                  st : {"sent", "done", "forbidden", "failed"}] : a.id \in Ids(a.kind)}

(* TypeOK with the two lists as sequences. *)
Typed ==
  /\ db \in Tables
  /\ revoked \subseteq Revocable /\ known \subseteq Revocable
  /\ role \in StaffRoles
  /\ route \in Pages \cup {"none"}
  /\ query \in Query
  /\ data \in Answers
  /\ fetches \in Seq(Fetch)
  /\ acts \in Seq(Action)
  /\ Len(fetches) + Len(acts) <= MaxRequests
  /\ isLoading \in BOOLEAN /\ modal \in BOOLEAN /\ busy \in BOOLEAN
  /\ excuses \subseteq Excuses

(* Rows are shown only to roles that may list them, and a row's control was   *)
(* offered on the permissions known to the tab.                              *)
Access ==
  /\ route = "users" /\ role \notin AdminRoles =>
       data.rows = {} /\ \A i \in 1 .. Len(fetches) : fetches[i].ans.rows = {}
  /\ \A i \in 1 .. Len(acts) : acts[i].kind \in RowActs =>
       /\ route = "users" /\ role \in AdminRoles
       /\ \/ revoked # known
          \/ /\ Permitted(Need(acts[i].kind))
             /\ acts[i].st = "forbidden" => OwnAccount(acts[i].kind, acts[i].id)

(* A handler will load the list again. *)
Owed(as) == \E i \in 1 .. Len(as) : as[i].st = "done" /\ Refetches(as[i].kind)

(* The server's answer as a function of its tables. *)
ListedIn(d, f) == {a \in Accounts : /\ d.accounts[a] # "deleted"
                                    /\ f = "some" => d.accounts[a] = "active"}
RowsIn(d, r, q) ==
  CASE r = "users" -> {<<a, d.accounts[a]>> : a \in PageOf(ListedIn(d, q.filter), q.page)}
    [] r = "roles" -> {<<n, d.roles[n]>> : n \in {m \in RoleNames :
                          d.roles[m] \in {"active"} \cup (IF q.filter = "all" THEN {"inactive"} ELSE {})}}
    [] r = "role"  -> {<<t, "assigned">> : t \in d.perms}
    [] OTHER       -> {}
CountIn(d, r, f) ==
  CASE r = "users"  -> TotalPages(Cardinality(ListedIn(d, f)))
    [] r = "audit"  -> TotalPages(d.logs.user + (IF f = "all" THEN d.logs.role ELSE 0))
    [] r = "cycles" -> TotalPages(d.cycles)
    [] OTHER        -> 1
AnswerIn(d, r, q) == [q |-> q, rows |-> RowsIn(d, r, q), pages |-> CountIn(d, r, q.filter)]

(* The last list request is of the query shown, and its answer not outdated. *)
Current(d, r, q, fs, a) ==
  IF fs = <<>> THEN a = AnswerIn(d, r, q)
  ELSE LET f == fs[Len(fs)] IN f.q = q /\ (f.st = "ok" => f.ans = AnswerIn(d, r, q))
Latest ==
  Shown /\ "stale" \notin excuses /\ ~Owed(acts) => Current(db, route, query, fetches, data)

(* Every page number in use is a page of the list of its filter. *)
ReachIn(d, r, q) == q.page = 1 \/ q.page <= CountIn(d, r, q.filter)
GoodIn(d, r, a) ==
  \/ a = Nothing
  \/ /\ a.q.page = 1 \/ a.q.page <= a.pages
     /\ a.pages <= CountIn(d, r, a.q.filter)
Reach(q) == ReachIn(db, route, q)
Good(a) == GoodIn(db, route, a)
Within ==
  "strayed" \notin excuses =>
    /\ Reach(query) /\ Good(data)
    /\ \A i \in 1 .. Len(fetches) : Reach(fetches[i].q) /\ Good(fetches[i].ans)
    /\ \A i \in 1 .. Len(acts) : Reach(acts[i].q)

IInv == Typed /\ Access /\ Within /\ Latest

-----------------------------------------------------------------------------
(* Helpers. *)

LEMMA Removed ==
  ASSUME NEW S, NEW s \in Seq(S), NEW i \in 1 .. Len(s)
  PROVE  /\ RemoveAt(s, i) \in Seq(S)
         /\ Len(RemoveAt(s, i)) = Len(s) - 1
         /\ \A k \in 1 .. Len(s) - 1 : RemoveAt(s, i)[k] = IF k < i THEN s[k] ELSE s[k + 1]
<1>1. /\ SubSeq(s, 1, i - 1) \in Seq(S) /\ Len(SubSeq(s, 1, i - 1)) = i - 1
      /\ \A k \in 1 .. i - 1 : SubSeq(s, 1, i - 1)[k] = s[k]
  OBVIOUS
<1>2. /\ SubSeq(s, i + 1, Len(s)) \in Seq(S) /\ Len(SubSeq(s, i + 1, Len(s))) = Len(s) - i
      /\ \A k \in 1 .. Len(s) - i : SubSeq(s, i + 1, Len(s))[k] = s[k + i]
  OBVIOUS
<1> DEFINE a == SubSeq(s, 1, i - 1)
           b == SubSeq(s, i + 1, Len(s))
<1>3. RemoveAt(s, i) = a \o b
  BY DEF RemoveAt
<1> HIDE DEF a, b
<1>4. ASSUME a \in Seq(S), b \in Seq(S), Len(a) = i - 1, Len(b) = Len(s) - i
      PROVE  /\ a \o b \in Seq(S) /\ Len(a \o b) = Len(s) - 1
             /\ \A k \in 1 .. Len(s) - 1 : (a \o b)[k] = IF k < i THEN a[k] ELSE b[k - i + 1]
  BY <1>4
<1>5. /\ a \in Seq(S) /\ Len(a) = i - 1 /\ \A k \in 1 .. i - 1 : a[k] = s[k]
      /\ b \in Seq(S) /\ Len(b) = Len(s) - i /\ \A k \in 1 .. Len(s) - i : b[k] = s[k + i]
  BY <1>1, <1>2 DEF a, b
<1>6. ASSUME NEW k \in 1 .. Len(s) - 1, k >= i PROVE b[k - i + 1] = s[k + 1]
  <2>1. k - i + 1 \in 1 .. Len(s) - i /\ k - i + 1 + i = k + 1
    BY <1>6
  <2> QED
    BY <1>5, <2>1
<1> QED
  BY <1>3, <1>4, <1>5, <1>6

LEMMA RemovedElements ==
  ASSUME NEW S, NEW s \in Seq(S), NEW i \in 1 .. Len(s), NEW k \in 1 .. Len(RemoveAt(s, i))
  PROVE  \E n \in 1 .. Len(s) : RemoveAt(s, i)[k] = s[n]
<1>1. /\ k \in 1 .. Len(s) - 1 /\ Len(s) \in Nat
      /\ RemoveAt(s, i)[k] = IF k < i THEN s[k] ELSE s[k + 1]
  BY Removed
<1>2. k \in 1 .. Len(s) /\ k + 1 \in 1 .. Len(s)
  BY <1>1
<1> QED
  BY <1>1, <1>2

LEMMA Appended ==
  ASSUME NEW S, NEW s \in Seq(S), NEW x \in S
  PROVE  /\ Append(s, x) \in Seq(S)
         /\ Len(Append(s, x)) = Len(s) + 1
         /\ \A k \in 1 .. Len(s) : Append(s, x)[k] = s[k]
         /\ Append(s, x)[Len(s) + 1] = x
  OBVIOUS

LEMMA PageNumbers ==
  ASSUME NEW n \in Nat
  PROVE  TotalPages(n) \in Nat
  BY StaffAssumption DEF TotalPages

LEMMA Counted ==
  ASSUME NEW f
  PROVE  Cardinality(Listed(f)) \in Nat
<1>1. IsFiniteSet(Listed(f))
  BY StaffAssumption, FS_Subset DEF Listed
<1> QED
  BY <1>1, FS_CardinalityType

LEMMA PageCounts ==
  ASSUME db \in Tables, NEW r, NEW q
  PROVE  PageCount(r, q) \in Nat
<1>1. /\ db.logs.user \in Nat /\ db.logs.role \in Nat /\ db.cycles \in Nat
  BY StaffAssumption DEF Tables
<1>2. /\ TotalPages(Cardinality(Listed(q.filter))) \in Nat
      /\ TotalPages(db.logs.user + (IF q.filter = "all" THEN db.logs.role ELSE 0)) \in Nat
      /\ TotalPages(db.cycles) \in Nat
  BY <1>1, Counted, PageNumbers
<1> QED
  BY <1>2 DEF PageCount

LEMMA AnswerType ==
  ASSUME Typed, NEW q \in Query
  PROVE  Answer(route, q) \in Answers
<1>1. PageCount(route, q) \in Nat
  BY PageCounts DEF Typed
<1>2. Rows(route, q) \subseteq RowSpace
  <2>1. CASE route = "users"
    <3>1. \A a \in PageOf(Listed(q.filter), q.page) :
            a \in Accounts /\ db.accounts[a] \in {"active", "suspended"}
      BY DEF PageOf, Listed, Typed, Tables
    <3> QED
      BY <2>1, <3>1 DEF Rows, RowSpace
  <2>2. CASE route = "roles"
    BY <2>2 DEF Rows, RowSpace
  <2>3. CASE route = "role"
    BY <2>3 DEF Rows, RowSpace, Typed, Tables
  <2>4. CASE route \notin {"users", "roles", "role"}
    BY <2>4 DEF Rows, RowSpace
  <2> QED
    BY <2>1, <2>2, <2>3, <2>4
<1> QED
  BY <1>1, <1>2 DEF Answer, Answers

-----------------------------------------------------------------------------
(* Types. *)

LEMMA EffectType ==
  ASSUME db \in Tables, Changes < MaxChanges, NEW k \in Kinds, NEW id \in Ids(k)
  PROVE  Effect(k, id) \in Tables
<1>1. /\ db.logs.user \in 0 .. MaxChanges /\ db.logs.role \in 0 .. MaxChanges
      /\ db.cycles \in 0 .. MaxChanges
      /\ db.accounts \in [Accounts -> {"active", "suspended", "deleted"}]
      /\ db.roles \in [RoleNames -> {"none", "active", "inactive"}]
      /\ db.perms \subseteq Toggles
  BY DEF Tables
<1>2. /\ db.logs.user + 1 \in 0 .. MaxChanges /\ db.logs.role + 1 \in 0 .. MaxChanges
      /\ db.cycles + 1 \in 0 .. MaxChanges
  BY <1>1, StaffAssumption DEF Changes
<1>3. CASE k \in {"suspend", "reactivate", "deactivate"}
  <2>1. id \in Accounts
    BY <1>3 DEF Ids, RowActs
  <2>2. \A st \in {"active", "suspended", "deleted"} :
          SetStatus(id, st) \in [Accounts -> {"active", "suspended", "deleted"}]
    BY <1>1, <2>1 DEF SetStatus
  <2>3. PICK st \in {"active", "suspended", "deleted"} :
          Effect(k, id) = [db EXCEPT !.accounts = SetStatus(id, st), !.logs.user = @ + 1]
    BY <1>3 DEF Effect
  <2>4. PICK S \in [Accounts -> {"active", "suspended", "deleted"}] : S = SetStatus(id, st)
    BY <2>2
  <2>5. Effect(k, id) = [db EXCEPT !.accounts = S, !.logs.user = @ + 1]
    BY <2>3, <2>4
  <2> DEFINE d == [db EXCEPT !.logs.user = @ + 1]
  <2>6. d \in Tables
    BY <1>1, <1>2 DEF Tables
  <2>7. Effect(k, id) = [d EXCEPT !.accounts = S]
    BY <2>5 DEF Tables
  <2> HIDE DEF d
  <2> QED
    BY <2>6, <2>7 DEF Tables
<1>4. CASE k \in {"forceLogout", "assign"}
  BY <1>1, <1>2, <1>4 DEF Effect, Tables
<1>5. CASE k \in {"createRole", "deactivateRole"}
  <2>1. id \in RoleNames
    BY <1>5 DEF Ids, RowActs
  <2> QED
    BY <1>1, <1>2, <1>5, <2>1 DEF Effect, Tables
<1>6. CASE k \in {"grant", "remove"}
  <2>1. id \in Toggles
    BY <1>6 DEF Ids, RowActs
  <2> QED
    BY <1>1, <1>2, <1>6, <2>1 DEF Effect, Tables
<1>7. CASE k = "createCycle"
  BY <1>1, <1>2, <1>7 DEF Effect, Tables
<1> QED
  BY <1>3, <1>4, <1>5, <1>6, <1>7 DEF Kinds, RowActs

LEMMA FirstQueries == \A r : FirstQuery(r) \in Query /\ FirstQuery(r).page = 1
  BY StaffAssumption DEF FirstQuery, Query, FilterValues

LEMMA Requests ==
  ASSUME NEW q \in Query
  PROVE  Request(q) \in Fetch /\ Request(q).q = q /\ Request(q).st = "sent"
         /\ Request(q).ans = Nothing
  BY DEF Request, Fetch, Answers

LEMMA NothingFacts == Nothing.rows = {} /\ Nothing.pages = 0 /\ Nothing.q.page = 0
  BY DEF Nothing

LEMMA TypedInit == Init => Typed
<1> SUFFICES ASSUME Init PROVE Typed
  OBVIOUS
<1>1. db \in Tables
  BY StaffAssumption DEF Init, Tables, Toggles
<1>2. query \in Query
  BY FirstQueries DEF Init
<1>3. fetches \in Seq(Fetch) /\ acts \in Seq(Action) /\ Len(fetches) + Len(acts) <= MaxRequests
  BY StaffAssumption DEF Init
<1> QED
  BY <1>1, <1>2, <1>3 DEF Init, Typed, Answers

LEMMA SameRoute ==
  ASSUME route' = route
  PROVE  Answers' = Answers /\ Fetch' = Fetch
  BY DEF Answers, Fetch, RowSpace

LEMMA TypedMount ==
  ASSUME Typed, NEW r \in Pages, Mount(r), known' \subseteq Revocable, UNCHANGED <<revoked, role>>
  PROVE  Typed'
<1>1. FirstQuery(r) \in Query
  BY FirstQueries
<1>2. Request(FirstQuery(r)) \in Fetch'
  BY <1>1 DEF Request, Fetch, Answers
<1>3. fetches' \in Seq(Fetch') /\ Len(fetches') <= 1
  BY <1>2 DEF Mount
<1>4. acts' = <<>>
  BY DEF Mount
<1>5. Len(fetches') + Len(acts') <= MaxRequests
  BY <1>3, <1>4, StaffAssumption
<1>6. data' \in Answers'
  BY DEF Mount, Answers
<1>7. acts' \in Seq(Action)
  BY <1>4
<1> QED
  BY <1>1, <1>3, <1>5, <1>6, <1>7 DEF Typed, Mount, Excuses, Action

LEMMA TypedQuery ==
  ASSUME Typed, NEW q \in Query, SetQuery(q), excuses' \subseteq Excuses
  PROVE  Typed'
<1>1. fetches' \in Seq(Fetch) /\ Len(fetches') = Len(fetches) + 1
  BY Requests, Appended DEF SetQuery, Typed
<1>2. Len(fetches') + Len(acts') <= MaxRequests
  BY <1>1, StaffAssumption DEF SetQuery, Typed
<1> QED
  BY <1>1, <1>2, SameRoute DEF Typed, SetQuery, access

LEMMA TypedStep == Typed /\ [Next]_vars => Typed'
<1> SUFFICES ASSUME Typed, [Next]_vars PROVE Typed'
  OBVIOUS
<1>0. /\ DOMAIN fetches = 1 .. Len(fetches) /\ DOMAIN acts = 1 .. Len(acts)
      /\ Len(fetches) \in Nat /\ Len(acts) \in Nat
      /\ \A i \in 1 .. Len(fetches) : fetches[i] \in Fetch
      /\ \A i \in 1 .. Len(acts) : acts[i] \in Action
  BY DEF Typed
<1>1. ASSUME NEW r \in Pages, Visit(r) PROVE Typed'
  BY <1>1, TypedMount DEF Visit, access, Typed
<1>2. ASSUME NEW r \in Pages, Open(r) PROVE Typed'
  BY <1>2, TypedMount DEF Open, Typed
<1>3. ASSUME NEW f \in FilterValues, SetFilter(f) PROVE Typed'
  <2>1. [filter |-> f, page |-> 1] \in Query
    BY StaffAssumption DEF Query
  <2> QED
    BY <1>3, <2>1, TypedQuery DEF SetFilter, Typed
<1>4. CASE PrevPage
  <2>1. [query EXCEPT !.page = @ - 1] \in Query
    BY <1>4, StaffAssumption DEF PrevPage, Query, Typed
  <2> QED
    BY <1>4, <2>1, TypedQuery DEF PrevPage, Typed
<1>5. CASE NextPage
  <2>1. [query EXCEPT !.page = @ + 1] \in Query
    BY <1>5, StaffAssumption DEF NextPage, Query, Typed
  <2>2. excuses' \subseteq Excuses
    BY <1>5 DEF NextPage, Typed, Excuses
  <2> QED
    BY <1>5, <2>1, <2>2, TypedQuery DEF NextPage
<1>6. CASE ToggleModal
  BY <1>6, SameRoute DEF ToggleModal, Typed, access
<1>7. ASSUME NEW i \in 1 .. Len(fetches), NEW f \in Fetch,
             fetches' = [fetches EXCEPT ![i] = f],
             UNCHANGED <<db, access, acts, route, query, data, isLoading, modal, busy, excuses>>
      PROVE  Typed'
  <2>1. fetches' \in Seq(Fetch) /\ Len(fetches') = Len(fetches)
    BY <1>7 DEF Typed
  <2> QED
    BY <1>7, <2>1, SameRoute DEF Typed, access
<1>8. ASSUME NEW i \in DOMAIN fetches, AnswerFetch(i) PROVE Typed'
  <2>1. fetches[i] \in Fetch
    BY <1>0
  <2>2. Answer(route, fetches[i].q) \in Answers
    BY <2>1, AnswerType DEF Fetch
  <2>3. /\ [fetches[i] EXCEPT !.st = "ok", !.ans = Answer(route, fetches[i].q)] \in Fetch
        /\ [fetches[i] EXCEPT !.st = "error"] \in Fetch
    BY <2>1, <2>2 DEF Fetch
  <2> QED
    BY <1>0, <1>7, <1>8, <2>3 DEF AnswerFetch
<1>9. ASSUME NEW i \in DOMAIN fetches, LoseFetch(i) PROVE Typed'
  <2>1. [fetches[i] EXCEPT !.st = "error"] \in Fetch
    BY <1>0 DEF Fetch
  <2>2. fetches' = [fetches EXCEPT ![i] = [fetches[i] EXCEPT !.st = "error"]]
    BY <1>0, <1>9 DEF LoseFetch
  <2> QED
    BY <1>0, <1>7, <1>9, <2>1, <2>2 DEF LoseFetch
<1>10. ASSUME NEW i \in DOMAIN fetches, DeliverFetch(i) PROVE Typed'
  <2>1. fetches' \in Seq(Fetch) /\ Len(fetches') = Len(fetches) - 1
    BY <1>0, <1>10, Removed DEF DeliverFetch, Typed
  <2>2. data' \in Answers
    BY <1>0, <1>10 DEF DeliverFetch, Typed, Fetch
  <2>3. excuses' \subseteq Excuses
    BY <1>10 DEF DeliverFetch, Typed, Excuses
  <2>4. Len(fetches') + Len(acts') <= MaxRequests
    BY <1>0, <1>10, <2>1, StaffAssumption DEF DeliverFetch, Typed
  <2> QED
    BY <1>10, <2>1, <2>2, <2>3, <2>4, SameRoute DEF DeliverFetch, Typed, access
<1>11. ASSUME NEW k \in Kinds, NEW id \in Ids(k), Act(k, id) PROVE Typed'
  <2>1. id \in Id
    BY DEF Ids, Id
  <2>2. [kind |-> k, id |-> id, q |-> query, st |-> "sent"] \in Action
    BY <2>1 DEF Action, Typed
  <2>3. acts' \in Seq(Action) /\ Len(acts') = Len(acts) + 1
    BY <1>11, <2>2, Appended DEF Act, Typed
  <2>4. Len(fetches') + Len(acts') <= MaxRequests
    BY <1>0, <1>11, <2>3, StaffAssumption DEF Act
  <2>5. busy' \in BOOLEAN
    BY <1>11 DEF Act, Busies
  <2> QED
    BY <1>11, <2>3, <2>4, <2>5, SameRoute DEF Act, Typed, access
<1>12. ASSUME NEW k \in Kinds, NEW id \in Ids(k), Meddle(k, id) PROVE Typed'
  <2>1. db' \in Tables
    BY <1>12, EffectType DEF Meddle, Typed
  <2>2. excuses' \subseteq Excuses
    BY <1>12 DEF Meddle, Typed, Excuses
  <2> QED
    BY <1>12, <2>1, <2>2, SameRoute DEF Meddle, Typed, access, view
<1>13. ASSUME NEW i \in 1 .. Len(acts), NEW a \in Action,
              acts' = [acts EXCEPT ![i] = a], db' \in Tables,
              UNCHANGED <<access, view>>, excuses' \subseteq Excuses
       PROVE  Typed'
  <2>1. acts' \in Seq(Action) /\ Len(acts') = Len(acts)
    BY <1>13 DEF Typed
  <2> QED
    BY <1>13, <2>1, SameRoute DEF Typed, access, view
<1>14. \A i \in 1 .. Len(acts) : \A st \in {"sent", "done", "forbidden", "failed"} :
         [acts[i] EXCEPT !.st = st] \in Action
  BY <1>0 DEF Action
<1>15. ASSUME NEW i \in DOMAIN acts, ServeAct(i) PROVE Typed'
  <2> DEFINE a == acts[i]
             st == IF ~MayDo(a.kind, a.id) THEN "forbidden" ELSE IF Fails(a.kind, a.id) THEN "failed" ELSE "done"
  <2>1. /\ Changes < MaxChanges
        /\ db' = IF st = "done" THEN Effect(a.kind, a.id) ELSE db
        /\ acts' = [acts EXCEPT ![i].st = st]
        /\ UNCHANGED <<access, view>>
        /\ excuses' = IF Shrinks THEN excuses \cup {"strayed"} ELSE excuses
    BY <1>15 DEF ServeAct
  <2>2. st \in {"sent", "done", "forbidden", "failed"}
    OBVIOUS
  <2>3. a.kind \in Kinds /\ a.id \in Ids(a.kind)
    BY <1>0 DEF Action
  <2>4. db' \in Tables
    BY <2>1, <2>3, EffectType DEF Typed
  <2>5. excuses' \subseteq Excuses
    BY <2>1 DEF Typed, Excuses
  <2> HIDE DEF st
  <2>6. acts' = [acts EXCEPT ![i] = [acts[i] EXCEPT !.st = st]]
    BY <2>1
  <2> QED
    BY <1>0, <1>13, <1>14, <2>1, <2>2, <2>4, <2>5, <2>6
<1>16. ASSUME NEW i \in DOMAIN acts, LoseAct(i) PROVE Typed'
  <2>1. acts' = [acts EXCEPT ![i] = [acts[i] EXCEPT !.st = "failed"]]
    BY <1>16 DEF LoseAct
  <2>2. excuses' \subseteq Excuses /\ db' \in Tables
    BY <1>16 DEF LoseAct, Typed, Excuses
  <2> QED
    BY <1>0, <1>13, <1>14, <1>16, <2>1, <2>2 DEF LoseAct
<1>17. ASSUME NEW i \in DOMAIN acts, ReturnAct(i) PROVE Typed'
  <2>1. acts' \in Seq(Action) /\ Len(acts') = Len(acts) - 1
    BY <1>0, <1>17, Removed DEF ReturnAct, Typed
  <2>2. acts[i].q \in Query
    BY <1>0 DEF Action
  <2>3. /\ Append(fetches, Request(acts[i].q)) \in Seq(Fetch)
        /\ Len(Append(fetches, Request(acts[i].q))) = Len(fetches) + 1
    BY <2>2, Requests, Appended DEF Typed
  <2>4. fetches' \in Seq(Fetch) /\ Len(fetches') <= Len(fetches) + 1
    BY <1>0, <1>17, <2>3 DEF ReturnAct, Typed
  <2>5. Len(fetches') + Len(acts') <= MaxRequests
    BY <1>0, <2>1, <2>4, StaffAssumption DEF Typed
  <2>6. excuses' \subseteq Excuses
    BY <1>17 DEF ReturnAct, Typed, Excuses
  <2>7. isLoading' \in BOOLEAN /\ modal' \in BOOLEAN /\ busy' \in BOOLEAN
    BY <1>17 DEF ReturnAct
  <2> QED
    BY <1>17, <2>1, <2>4, <2>5, <2>6, <2>7, SameRoute DEF ReturnAct, Typed, access
<1>18. ASSUME NEW S \in SUBSET Revocable, ChangePermissions(S) PROVE Typed'
  BY <1>18, SameRoute DEF ChangePermissions, Typed, view
<1>19. CASE UNCHANGED vars
  BY <1>19, SameRoute DEF vars, access, view, Typed
<1> QED
  BY <1>1, <1>2, <1>3, <1>4, <1>5, <1>6, <1>8, <1>9, <1>10, <1>11, <1>12, <1>15, <1>16, <1>17,
     <1>18, <1>19 DEF Next

LEMMA Typing == Spec => []Typed
  BY TypedInit, TypedStep, PTL DEF Spec

(* Tables, lists, requests and page numbers keep their types and bounds.      *)
THEOREM TypeCorrectness == Spec => []TypeOK
<1>1. Typed => TypeOK
  <2> SUFFICES ASSUME Typed PROVE TypeOK
    OBVIOUS
  <2>1. /\ db.accounts \in [Accounts -> {"active", "suspended", "deleted"}]
        /\ db.roles \in [RoleNames -> {"none", "active", "inactive"}]
        /\ db.perms \subseteq Toggles
        /\ {db.logs.user, db.logs.role, db.cycles} \subseteq 0 .. MaxChanges
    BY DEF Typed, Tables
  <2>2. \A a \in Answers : IsAnswer(a)
    BY DEF Answers, IsAnswer
  <2>3. \A i \in DOMAIN fetches : /\ fetches[i].q \in Query
                                 /\ fetches[i].st \in {"sent", "ok", "error"}
                                 /\ IsAnswer(fetches[i].ans)
    <3> TAKE i \in DOMAIN fetches
    <3>1. fetches[i] \in Fetch
      BY DEF Typed
    <3> QED
      BY <2>2, <3>1 DEF Fetch
  <2>4. \A i \in DOMAIN acts : /\ acts[i].kind \in Kinds /\ acts[i].id \in Ids(acts[i].kind)
                              /\ acts[i].q \in Query
                              /\ acts[i].st \in {"sent", "done", "forbidden", "failed"}
    BY DEF Typed, Action
  <2>5. {isLoading, modal, busy} \subseteq BOOLEAN
    BY DEF Typed
  <2> QED
    BY <2>1, <2>2, <2>3, <2>4, <2>5 DEF Typed, TypeOK
<1> QED
  BY <1>1, Typing, PTL

-----------------------------------------------------------------------------
(* The gates. *)

(* What a row's gate asks for is what its route asks for. *)
LEMMA GateIsNeed ==
  ASSUME NEW k \in RowActs, Gate(k)
  PROVE  HasPermission(Need(k))
  BY DEF Gate, Need, RowActs

LEMMA AccessInit == Init => Access
  BY DEF Init, Access

LEMMA AccessStep == Typed /\ Access /\ [Next]_vars => Access'
<1> SUFFICES ASSUME Typed, Access, [Next]_vars PROVE Access'
  OBVIOUS
<1> DEFINE Barred == route = "users" /\ role \notin AdminRoles
           Sound(a) == a.kind \in RowActs =>
                         /\ route = "users" /\ role \in AdminRoles
                         /\ \/ revoked # known
                            \/ /\ Permitted(Need(a.kind))
                               /\ a.st = "forbidden" => OwnAccount(a.kind, a.id)
<1>0. /\ DOMAIN fetches = 1 .. Len(fetches) /\ DOMAIN acts = 1 .. Len(acts)
      /\ Len(fetches) \in Nat /\ Len(acts) \in Nat
      /\ fetches \in Seq(Fetch) /\ acts \in Seq(Action)
  BY DEF Typed
<1>1. /\ Barred => data.rows = {} /\ \A i \in 1 .. Len(fetches) : fetches[i].ans.rows = {}
      /\ \A i \in 1 .. Len(acts) : Sound(acts[i])
  BY DEF Access
<1>2. ASSUME NEW r, Mount(r) PROVE Access'
  <2>1. data' = Nothing /\ acts' = <<>>
    BY <1>2 DEF Mount
  <2>2. \A i \in 1 .. Len(fetches') : fetches'[i].ans = Nothing
    BY <1>2 DEF Mount, Request
  <2> QED
    BY <2>1, <2>2, NothingFacts DEF Access
(* A step that changes neither the page nor the permissions. *)
<1>3. ASSUME UNCHANGED <<route, revoked, known, role>>,
             Barred => data'.rows = {} /\ \A i \in 1 .. Len(fetches') : fetches'[i].ans.rows = {},
             \A i \in 1 .. Len(acts') : Sound(acts'[i])
      PROVE  Access'
  BY <1>3 DEF Access, Permitted
<1>4. ASSUME NEW q, SetQuery(q) PROVE Access'
  <2>1. \A i \in 1 .. Len(fetches') :
          fetches'[i] = Request(q) \/ \E j \in 1 .. Len(fetches) : fetches'[i] = fetches[j]
    BY <1>0, <1>4 DEF SetQuery
  <2>2. Request(q).ans.rows = {}
    BY NothingFacts DEF Request
  <2> QED
    BY <1>1, <1>3, <1>4, <2>1, <2>2 DEF SetQuery, access
<1>5. ASSUME NEW i \in DOMAIN fetches, AnswerFetch(i) \/ LoseFetch(i) PROVE Access'
  <2>1. Barred => ~MayList(route)
    BY DEF MayList
  <2>2. Len(fetches') = Len(fetches)
    BY <1>0, <1>5 DEF AnswerFetch, LoseFetch
  <2>3. ASSUME Barred, NEW j \in 1 .. Len(fetches) PROVE fetches'[j].ans = fetches[j].ans
    <3>1. fetches[j] \in Fetch
      BY <1>0
    <3>2. fetches' = [fetches EXCEPT ![i] = [fetches[i] EXCEPT !.st = "error"]]
      BY <1>0, <1>5, <2>1, <2>3 DEF AnswerFetch, LoseFetch
    <3>3. [fetches[i] EXCEPT !.st = "error"].ans = fetches[i].ans
      BY <1>0 DEF Fetch
    <3> QED
      BY <1>0, <3>1, <3>2, <3>3
  <2>4. UNCHANGED <<route, revoked, known, role, data, acts>>
    BY <1>5 DEF AnswerFetch, LoseFetch, access
  <2> QED
    BY <1>1, <1>3, <2>2, <2>3, <2>4
<1>6. ASSUME NEW i \in DOMAIN fetches, DeliverFetch(i) PROVE Access'
  <2>0. fetches' = RemoveAt(fetches, i) /\ i \in 1 .. Len(fetches) /\ fetches \in Seq(Fetch)
    BY <1>0, <1>6 DEF DeliverFetch
  <2>1. \A j \in 1 .. Len(fetches') : \E k \in 1 .. Len(fetches) : fetches'[j] = fetches[k]
    BY <2>0, RemovedElements
  <2>2. data' = data \/ data' = fetches[i].ans
    BY <1>6 DEF DeliverFetch
  <2>3. UNCHANGED <<route, revoked, known, role, acts>>
    BY <1>6 DEF DeliverFetch, access
  <2> QED
    BY <1>0, <1>1, <1>3, <2>1, <2>2, <2>3
<1>7. ASSUME NEW k \in Kinds, NEW id \in Ids(k), Act(k, id) PROVE Access'
  <2> DEFINE a == [kind |-> k, id |-> id, q |-> query, st |-> "sent"]
  <2>1. Sound(a)
    <3> SUFFICES ASSUME k \in RowActs
                 PROVE  /\ route = "users" /\ role \in AdminRoles
                        /\ revoked # known \/ Permitted(Need(k))
      OBVIOUS
    <3>1. route = "users" /\ RowMenu(k, id)
      BY <1>7 DEF Act, Offered, RowActs, RoleCard, RoleForm, PermissionSwitch, CycleForm
    <3>2. data.rows # {}
      BY <3>1 DEF RowMenu, Row
    <3>3. revoked = known => Permitted(Need(k))
      BY <1>7, GateIsNeed DEF Act, HasPermission, Permitted
    <3> QED
      BY <1>1, <3>1, <3>2, <3>3
  <2>2. acts' = Append(acts, a)
    BY <1>7 DEF Act
  <2> HIDE DEF a
  <2>3. \A i \in 1 .. Len(acts') : acts'[i] = a \/ \E j \in 1 .. Len(acts) : acts'[i] = acts[j]
    BY <1>0, <2>2
  <2>4. UNCHANGED <<route, revoked, known, role, data, fetches>>
    BY <1>7 DEF Act, access
  <2> QED
    BY <1>1, <1>3, <2>1, <2>3, <2>4
<1>8. ASSUME NEW i \in DOMAIN acts, NEW st, acts' = [acts EXCEPT ![i].st = st],
             st = "forbidden" => ~MayDo(acts[i].kind, acts[i].id),
             UNCHANGED <<route, revoked, known, role, data, fetches>>
      PROVE  Access'
  <2>1. \A j \in 1 .. Len(acts) : acts[j] \in Action
    BY <1>0
  <2>2. Len(acts') = Len(acts)
    BY <1>0, <1>8
  <2>3. ASSUME NEW j \in 1 .. Len(acts) PROVE Sound(acts'[j])
    <3>1. CASE j # i
      BY <1>0, <1>1, <1>8, <2>3, <3>1
    <3>2. CASE j = i
      <4>1. acts'[j].kind = acts[j].kind /\ acts'[j].id = acts[j].id /\ acts'[j].st = st
        BY <1>0, <1>8, <2>1, <2>3, <3>2 DEF Action
      <4>2. \/ MayDo(acts[j].kind, acts[j].id) \/ OwnAccount(acts[j].kind, acts[j].id)
            \/ ~(role \in AdminRoles /\ Permitted(Need(acts[j].kind)))
        BY DEF MayDo
      <4>3. Sound(acts[j])
        BY <1>1, <2>3
      <4> QED
        BY <1>8, <3>2, <4>1, <4>2, <4>3
    <3> QED
      BY <3>1, <3>2
  <2> QED
    BY <1>1, <1>3, <1>8, <2>2, <2>3
<1>9. ASSUME NEW i \in DOMAIN acts, ServeAct(i) PROVE Access'
  <2> DEFINE st == IF ~MayDo(acts[i].kind, acts[i].id) THEN "forbidden"
                   ELSE IF Fails(acts[i].kind, acts[i].id) THEN "failed" ELSE "done"
  <2>1. acts' = [acts EXCEPT ![i].st = st] /\ UNCHANGED <<route, revoked, known, role, data, fetches>>
    BY <1>9 DEF ServeAct, access, view
  <2>2. st = "forbidden" => ~MayDo(acts[i].kind, acts[i].id)
    OBVIOUS
  <2> HIDE DEF st
  <2> QED
    BY <1>8, <2>1, <2>2
<1>10. ASSUME NEW i \in DOMAIN acts, LoseAct(i) PROVE Access'
  BY <1>8, <1>10 DEF LoseAct, access, view
<1>11. ASSUME NEW i \in DOMAIN acts, ReturnAct(i) PROVE Access'
  <2>1. \A j \in 1 .. Len(acts') : \E k \in 1 .. Len(acts) : acts'[j] = acts[k]
    BY <1>0, <1>11, RemovedElements DEF ReturnAct
  <2>2. \A j \in 1 .. Len(fetches') : \/ fetches'[j].ans = Nothing
                                      \/ \E k \in 1 .. Len(fetches) : fetches'[j] = fetches[k]
    BY <1>0, <1>11 DEF ReturnAct, Request
  <2>3. UNCHANGED <<route, revoked, known, role, data>>
    BY <1>11 DEF ReturnAct, access
  <2> QED
    BY <1>1, <1>3, <2>1, <2>2, <2>3, NothingFacts
<1>12. ASSUME NEW S, ChangePermissions(S) PROVE Access'
  <2>1. /\ revoked' # known' /\ UNCHANGED <<route, role, data, fetches, acts>>
    BY <1>12 DEF ChangePermissions, view
  <2> QED
    BY <1>1, <2>1 DEF Access
<1>13. ASSUME UNCHANGED <<route, access, data, fetches, acts>> PROVE Access'
  BY <1>1, <1>3, <1>13 DEF access
<1>14. ASSUME NEW k, NEW id, Meddle(k, id) PROVE Access'
  BY <1>13, <1>14 DEF Meddle, view
<1>15. CASE ToggleModal \/ UNCHANGED vars
  BY <1>13, <1>15 DEF ToggleModal, vars, view
<1>16. ASSUME NEW r \in Pages, Visit(r) \/ Open(r) PROVE Access'
  BY <1>2, <1>16 DEF Visit, Open
<1>17. ASSUME (\E f \in FilterValues : SetFilter(f)) \/ PrevPage \/ NextPage PROVE Access'
  BY <1>4, <1>17 DEF SetFilter, PrevPage, NextPage
<1> QED
  BY <1>5, <1>6, <1>7, <1>9, <1>10, <1>11, <1>12, <1>14, <1>15, <1>16, <1>17 DEF Next

(* A gated control of the users list is refused only to somebody whose        *)
(* permissions changed after the tab was loaded, and to an administrator who  *)
(* suspends or deactivates their own account.                                *)
THEOREM GatesAreRoutes == Spec => []GatesMatchRoutes
<1>1. Typed /\ Access => GatesMatchRoutes
  BY DEF Typed, Access, GatesMatchRoutes
<1> QED
  BY <1>1, Typing, AccessInit, AccessStep, PTL DEF Spec

-----------------------------------------------------------------------------
(* Page numbers. *)

LEMMA AnswersIn ==
  ASSUME NEW q
  PROVE  /\ Answer(route, q) = AnswerIn(db, route, q)
         /\ PageCount(route, q) = CountIn(db, route, q.filter)
         /\ PageCount(route, q)' = CountIn(db', route', q.filter)
  BY DEF Answer, AnswerIn, Rows, RowsIn, PageCount, CountIn, Listed, ListedIn

LEMMA CountType ==
  ASSUME NEW d \in Tables, NEW r, NEW f
  PROVE  CountIn(d, r, f) \in Nat
<1>1. Cardinality(ListedIn(d, f)) \in Nat
  <2>1. IsFiniteSet(ListedIn(d, f))
    BY StaffAssumption, FS_Subset DEF ListedIn
  <2> QED
    BY <2>1, FS_CardinalityType
<1>2. d.logs.user \in Nat /\ d.logs.role \in Nat /\ d.cycles \in Nat
  BY StaffAssumption DEF Tables
<1>3. /\ TotalPages(Cardinality(ListedIn(d, f))) \in Nat
      /\ TotalPages(d.logs.user + (IF f = "all" THEN d.logs.role ELSE 0)) \in Nat
      /\ TotalPages(d.cycles) \in Nat
  BY <1>1, <1>2, PageNumbers
<1> QED
  BY <1>3 DEF CountIn

(* Unless a list of the page became shorter, none of its page counts fell. *)
LEMMA Grown ==
  ASSUME Typed, db' \in Tables, route' = route, ~Shrinks,
         NEW f \in FilterValues
  PROVE  CountIn(db, route, f) <= CountIn(db', route, f)
<1>1. CountIn(db, route, f) \in Nat /\ CountIn(db', route, f) \in Nat
  BY CountType DEF Typed
<1>2. CASE f \in Filters(route)
  <2> DEFINE q == [filter |-> f, page |-> 1]
  <2>1. ~(PageCount(route, q)' < PageCount(route, q))
    BY <1>2 DEF Shrinks
  <2>2. PageCount(route, q) = CountIn(db, route, f) /\ PageCount(route, q)' = CountIn(db', route, f)
    BY DEF PageCount, CountIn, Listed, ListedIn
  <2> HIDE DEF q
  <2> QED
    BY <1>1, <2>1, <2>2
<1>3. CASE f \notin Filters(route)
  <2>1. PICK g \in Filters(route) : /\ route # "users"
                                    /\ route = "audit" => f = "search" /\ g = "some"
    BY <1>3 DEF Filters, FilterValues
  <2> DEFINE q == [filter |-> g, page |-> 1]
  <2>2. ~(PageCount(route, q)' < PageCount(route, q))
    BY DEF Shrinks
  <2>3. PageCount(route, q) = CountIn(db, route, f) /\ PageCount(route, q)' = CountIn(db', route, f)
    BY <2>1 DEF PageCount, CountIn
  <2> HIDE DEF q
  <2> QED
    BY <1>1, <2>2, <2>3
<1> QED
  BY <1>2, <1>3

LEMMA WithinInit == Init => Within
  BY FirstQueries DEF Init, Within, Reach, ReachIn, Good, GoodIn

LEMMA WithinStep == Typed /\ Within /\ [Next]_vars => Within'
<1> SUFFICES ASSUME Typed, Within, [Next]_vars, "strayed" \notin excuses'
             PROVE  /\ Reach(query)' /\ Good(data)'
                    /\ \A i \in 1 .. Len(fetches') : Reach(fetches[i].q)' /\ Good(fetches[i].ans)'
                    /\ \A i \in 1 .. Len(acts') : Reach(acts[i].q)'
  BY DEF Within
<1> DEFINE R(q) == ReachIn(db, route, q)
           G(a) == GoodIn(db, route, a)
           P == /\ ReachIn(db', route', query') /\ GoodIn(db', route', data')
                /\ \A i \in 1 .. Len(fetches') : /\ ReachIn(db', route', fetches'[i].q)
                                                /\ GoodIn(db', route', fetches'[i].ans)
                /\ \A i \in 1 .. Len(acts') : ReachIn(db', route', acts'[i].q)
<1> SUFFICES P
  BY DEF Reach, Good
<1>0. /\ DOMAIN fetches = 1 .. Len(fetches) /\ DOMAIN acts = 1 .. Len(acts)
      /\ Len(fetches) \in Nat /\ Len(acts) \in Nat
      /\ fetches \in Seq(Fetch) /\ acts \in Seq(Action) /\ db \in Tables
      /\ query \in Query /\ data \in Answers
      /\ \A i \in 1 .. Len(fetches) : fetches[i] \in Fetch
      /\ \A i \in 1 .. Len(acts) : acts[i] \in Action
  BY DEF Typed
<1>1. ASSUME "strayed" \notin excuses
      PROVE  /\ R(query) /\ G(data)
             /\ \A i \in 1 .. Len(fetches) : R(fetches[i].q) /\ G(fetches[i].ans)
             /\ \A i \in 1 .. Len(acts) : R(acts[i].q)
  BY <1>1 DEF Within, Reach, Good
<1>2. ASSUME NEW r, Mount(r) PROVE P
  <2>1. ReachIn(db', route', FirstQuery(r)) /\ GoodIn(db', route', Nothing)
    BY FirstQueries DEF ReachIn, GoodIn
  <2>2. \A i \in 1 .. Len(fetches') : fetches'[i] = Request(FirstQuery(r))
    BY <1>2 DEF Mount
  <2>3. Request(FirstQuery(r)).q = FirstQuery(r) /\ Request(FirstQuery(r)).ans = Nothing
    BY DEF Request
  <2> QED
    BY <1>2, <2>1, <2>2, <2>3 DEF Mount
<1>3. ASSUME NEW q \in Query, SetQuery(q), "strayed" \notin excuses, R(q) PROVE P
  <2>1. \A i \in 1 .. Len(fetches') :
          fetches'[i] = Request(q) \/ \E j \in 1 .. Len(fetches) : fetches'[i] = fetches[j]
    BY <1>0, <1>3 DEF SetQuery
  <2>2. Request(q).q = q /\ G(Request(q).ans)
    BY DEF Request, GoodIn
  <2>3. UNCHANGED <<db, route, data, acts>> /\ query' = q
    BY <1>3 DEF SetQuery
  <2> HIDE DEF R, G
  <2>4. \A i \in 1 .. Len(fetches') : R(fetches'[i].q) /\ G(fetches'[i].ans)
    BY <1>1, <1>3, <2>1, <2>2
  <2> QED
    BY <1>1, <1>3, <2>3, <2>4 DEF R, G
<1>4. ASSUME NEW f \in FilterValues, SetFilter(f) PROVE P
  <2> DEFINE q == [filter |-> f, page |-> 1]
  <2>1. q \in Query /\ R(q) /\ SetQuery(q) /\ "strayed" \notin excuses
    BY <1>4, StaffAssumption DEF SetFilter, Query, ReachIn
  <2> QED
    BY <1>3, <2>1
<1>5. CASE PrevPage
  <2> DEFINE q == [query EXCEPT !.page = @ - 1]
  <2>1. q \in Query /\ q.page = query.page - 1 /\ q.filter = query.filter /\ SetQuery(q)
    BY <1>0, <1>5, StaffAssumption DEF PrevPage, Query
  <2>2. "strayed" \notin excuses
    BY <1>5 DEF PrevPage
  <2>3. CountIn(db, route, query.filter) \in Nat
    BY <1>0, CountType
  <2>4. R(q)
    BY <1>0, <1>1, <1>5, <2>1, <2>2, <2>3 DEF ReachIn, PrevPage, Query
  <2> QED
    BY <1>3, <2>1, <2>2, <2>4
<1>6. CASE NextPage
  <2> DEFINE q == [query EXCEPT !.page = @ + 1]
  <2>1. q \in Query /\ q.page = query.page + 1 /\ q.filter = query.filter /\ SetQuery(q)
    BY <1>0, <1>6, StaffAssumption DEF NextPage, Query
  <2>2. "strayed" \notin excuses /\ data.q = query
    BY <1>6 DEF NextPage
  <2>3. CountIn(db, route, query.filter) \in Nat
    BY <1>0, CountType
  <2>4. data # Nothing /\ data.pages \in Nat /\ data.pages > 1
    BY <1>0, <1>6, NothingFacts DEF NextPage, HasPagination, Answers
  <2>5. query.page = 1 \/ query.page <= data.pages
    BY <1>1, <2>2, <2>4 DEF GoodIn
  <2>6. query.page \in Nat /\ query.page + 1 <= data.pages
    BY <1>0, <1>6, <2>4, <2>5 DEF NextPage, Query
  <2>7. data.pages <= CountIn(db, route, query.filter)
    BY <1>1, <2>2, <2>4 DEF GoodIn
  <2>8. R(q)
    BY <2>1, <2>3, <2>4, <2>6, <2>7 DEF ReachIn
  <2> QED
    BY <1>3, <2>1, <2>2, <2>8
(* Steps that leave the tables, the page and the query alone. *)
<1>7. ASSUME UNCHANGED <<db, route, query>>, "strayed" \notin excuses,
             data' = data \/ \E i \in 1 .. Len(fetches) : data' = fetches[i].ans,
             \A i \in 1 .. Len(fetches') : R(fetches'[i].q) /\ G(fetches'[i].ans),
             \A i \in 1 .. Len(acts') :
               acts'[i].q = query \/ \E j \in 1 .. Len(acts) : acts'[i].q = acts[j].q
      PROVE  P
  <2>1. R(query') /\ G(data')
    BY <1>1, <1>7
  <2>2. \A i \in 1 .. Len(acts') : R(acts'[i].q)
    BY <1>1, <1>7
  <2> QED
    BY <1>7, <2>1, <2>2
<1>8. ASSUME NEW i \in DOMAIN fetches, AnswerFetch(i) PROVE P
  <2>1. "strayed" \notin excuses /\ UNCHANGED <<db, route, query, data, acts>>
    BY <1>8 DEF AnswerFetch
  <2>2. /\ fetches[i] \in Fetch /\ Len(fetches') = Len(fetches)
        /\ \A j \in 1 .. Len(fetches) : j # i => fetches'[j] = fetches[j]
    BY <1>0, <1>8 DEF AnswerFetch
  <2>3. /\ fetches'[i].q = fetches[i].q
        /\ fetches'[i].ans = fetches[i].ans \/ fetches'[i].ans = AnswerIn(db, route, fetches[i].q)
    BY <1>0, <1>8, <2>2, AnswersIn DEF AnswerFetch, Fetch
  <2>4. ASSUME NEW q, R(q) PROVE G(AnswerIn(db, route, q))
    <3>1. /\ AnswerIn(db, route, q).q = q
          /\ AnswerIn(db, route, q).pages = CountIn(db, route, q.filter)
      BY DEF AnswerIn
    <3>2. CountIn(db, route, q.filter) <= CountIn(db, route, q.filter)
      BY <1>0, CountType
    <3> QED
      BY <2>4, <3>1, <3>2 DEF GoodIn, ReachIn
  <2>5. \A j \in 1 .. Len(fetches') : R(fetches'[j].q) /\ G(fetches'[j].ans)
    BY <1>0, <1>1, <2>1, <2>2, <2>3, <2>4
  <2> QED
    BY <1>7, <2>1, <2>5
<1>9. ASSUME NEW i \in DOMAIN fetches, LoseFetch(i) PROVE P
  <2>1. "strayed" \notin excuses /\ UNCHANGED <<db, route, query, data, acts>>
    BY <1>9 DEF LoseFetch
  <2>2. /\ Len(fetches') = Len(fetches)
        /\ \A j \in 1 .. Len(fetches) : fetches'[j].q = fetches[j].q /\ fetches'[j].ans = fetches[j].ans
    BY <1>0, <1>9 DEF LoseFetch, Fetch
  <2> QED
    BY <1>1, <1>7, <2>1, <2>2
<1>10. ASSUME NEW i \in DOMAIN fetches, DeliverFetch(i) PROVE P
  <2>1. \A j \in 1 .. Len(fetches') : \E k \in 1 .. Len(fetches) : fetches'[j] = fetches[k]
    BY <1>0, <1>10, RemovedElements DEF DeliverFetch
  <2>2. data' = data \/ data' = fetches[i].ans
    BY <1>10 DEF DeliverFetch
  <2>3. "strayed" \notin excuses /\ UNCHANGED <<db, route, query, acts>>
    BY <1>10 DEF DeliverFetch
  <2>4. \A j \in 1 .. Len(fetches') : R(fetches'[j].q) /\ G(fetches'[j].ans)
    BY <1>1, <2>1, <2>3
  <2> QED
    BY <1>0, <1>7, <2>2, <2>3, <2>4
<1>11. ASSUME NEW k, NEW id, Act(k, id) PROVE P
  <2>1. "strayed" \notin excuses /\ UNCHANGED <<db, route, query, data, fetches>>
    BY <1>11 DEF Act
  <2> DEFINE a == [kind |-> k, id |-> id, q |-> query, st |-> "sent"]
  <2>2. acts' = Append(acts, a) /\ a.q = query
    BY <1>11 DEF Act
  <2> HIDE DEF a
  <2>3. \A i \in 1 .. Len(acts') : acts'[i].q = query \/ \E j \in 1 .. Len(acts) : acts'[i].q = acts[j].q
    BY <1>0, <2>2
  <2> QED
    BY <1>1, <1>7, <2>1, <2>3
<1>12. ASSUME NEW i \in DOMAIN acts, LoseAct(i) PROVE P
  <2>1. "strayed" \notin excuses /\ UNCHANGED <<db, route, query, data, fetches>>
    BY <1>12 DEF LoseAct, view
  <2>2. Len(acts') = Len(acts) /\ \A j \in 1 .. Len(acts) : acts'[j].q = acts[j].q
    BY <1>0, <1>12 DEF LoseAct, Action
  <2> QED
    BY <1>1, <1>7, <2>1, <2>2
<1>13. ASSUME NEW i \in DOMAIN acts, ReturnAct(i) PROVE P
  <2>1. "strayed" \notin excuses /\ UNCHANGED <<db, route, query, data>>
    BY <1>13 DEF ReturnAct
  <2>2. \A j \in 1 .. Len(acts') : \E k \in 1 .. Len(acts) : acts'[j] = acts[k]
    BY <1>0, <1>13, RemovedElements DEF ReturnAct
  <2>3. \A j \in 1 .. Len(fetches') : \/ fetches'[j] = Request(acts[i].q)
                                      \/ \E k \in 1 .. Len(fetches) : fetches'[j] = fetches[k]
    BY <1>0, <1>13 DEF ReturnAct
  <2>4. Request(acts[i].q).q = acts[i].q /\ G(Request(acts[i].q).ans)
    BY DEF Request, GoodIn
  <2>5. \A j \in 1 .. Len(fetches') : R(fetches'[j].q) /\ G(fetches'[j].ans)
    BY <1>0, <1>1, <2>1, <2>3, <2>4
  <2> QED
    BY <1>7, <2>1, <2>2, <2>5
(* The tables change and no list becomes shorter. *)
<1>14. ASSUME ~Shrinks, db' \in Tables, "strayed" \notin excuses,
              UNCHANGED <<route, query, data, fetches>>, Len(acts') = Len(acts),
              \A i \in 1 .. Len(acts) : acts'[i].q = acts[i].q
       PROVE  P
  <2>1. \A f \in FilterValues : /\ CountIn(db, route, f) \in Nat
                                   /\ CountIn(db', route, f) \in Nat
                                   /\ CountIn(db, route, f) <= CountIn(db', route, f)
    BY <1>0, <1>14, CountType, Grown
  <2>2. ASSUME NEW q \in Query, R(q) PROVE ReachIn(db', route, q)
    <3>1. q.filter \in FilterValues /\ q.page \in Int
      BY DEF Query
    <3> QED
      BY <2>1, <2>2, <3>1 DEF ReachIn
  <2>3. ASSUME NEW a \in Answers, G(a) PROVE GoodIn(db', route, a)
    <3>1. CASE a = Nothing
      BY <3>1 DEF GoodIn
    <3>2. CASE a # Nothing
      <4>1. a.q.filter \in FilterValues /\ a.pages \in Nat
        BY <3>2 DEF Answers, Query
      <4> QED
        BY <2>1, <2>3, <4>1 DEF GoodIn
    <3> QED
      BY <3>1, <3>2
  <2>4. \A i \in 1 .. Len(fetches) : fetches[i].q \in Query /\ fetches[i].ans \in Answers
    BY <1>0 DEF Fetch
  <2>5. \A i \in 1 .. Len(acts) : acts[i].q \in Query
    BY <1>0 DEF Action
  <2> HIDE DEF R, G
  <2>6. /\ ReachIn(db', route, query) /\ GoodIn(db', route, data)
        /\ \A i \in 1 .. Len(fetches) : /\ ReachIn(db', route, fetches[i].q)
                                        /\ GoodIn(db', route, fetches[i].ans)
        /\ \A i \in 1 .. Len(acts) : ReachIn(db', route, acts[i].q)
    BY <1>0, <1>1, <1>14, <2>2, <2>3, <2>4, <2>5
  <2> QED
    BY <1>14, <2>6
<1>15. ASSUME NEW k \in Kinds, NEW id \in Ids(k), Meddle(k, id) PROVE P
  <2>1. ~Shrinks /\ "strayed" \notin excuses /\ UNCHANGED <<route, query, data, fetches, acts>>
    BY <1>15 DEF Meddle, view
  <2>2. db' \in Tables
    BY <1>15, TypedStep DEF Typed
  <2> QED
    BY <1>14, <2>1, <2>2
<1>16. ASSUME NEW i \in DOMAIN acts, ServeAct(i) PROVE P
  <2>1. ~Shrinks /\ "strayed" \notin excuses /\ UNCHANGED <<route, query, data, fetches>>
    BY <1>16 DEF ServeAct, view
  <2>2. db' \in Tables
    BY TypedStep DEF Typed
  <2>3. Len(acts') = Len(acts) /\ \A j \in 1 .. Len(acts) : acts'[j].q = acts[j].q
    BY <1>0, <1>16 DEF ServeAct, Action
  <2> QED
    BY <1>14, <2>1, <2>2, <2>3
<1>17. ASSUME UNCHANGED <<db, route, query, data, fetches, acts, excuses>> PROVE P
  BY <1>1, <1>17
<1> HIDE DEF P
<1>18. CASE ToggleModal \/ UNCHANGED vars
  BY <1>17, <1>18 DEF ToggleModal, vars, view
<1>19. ASSUME NEW S, ChangePermissions(S) PROVE P
  BY <1>17, <1>19 DEF ChangePermissions, view
<1>20. ASSUME NEW r \in Pages, Visit(r) \/ Open(r) PROVE P
  BY <1>2, <1>20 DEF Visit, Open
<1> QED
  BY <1>4, <1>5, <1>6, <1>8, <1>9, <1>10, <1>11, <1>12, <1>13, <1>15, <1>16, <1>18, <1>19, <1>20
  DEF Next

(* When nothing is under way the page number shown is a page of the list,     *)
(* unless a list became shorter or Next was pressed over another list.       *)
THEOREM PagesExist == Spec => []PageExists
<1>1. Typed /\ Within => PageExists
  <2> SUFFICES ASSUME Typed, Within, data.q = query, "strayed" \notin excuses
               PROVE  query.page = 1 \/ query.page <= data.pages
    BY DEF PageExists
  <2>1. query.page # 0
    BY DEF Typed, Query
  <2> QED
    BY <2>1, NothingFacts DEF Within, Good, GoodIn
<1> QED
  BY <1>1, Typing, WithinInit, WithinStep, PTL DEF Spec

-----------------------------------------------------------------------------
(* What is shown. *)

LEMMA LatestInit == Init => Latest
  BY DEF Init, Latest, Shown

(* A new request for the query shown is the latest. *)
LEMMA NewestIsCurrent ==
  ASSUME NEW d, NEW r, NEW q, NEW a, NEW fs \in Seq(Fetch), NEW new,
         new = Request(q), new \in Fetch
  PROVE  Current(d, r, q, Append(fs, new), a)
<1> DEFINE gs == Append(fs, new)
<1>1. gs # <<>> /\ gs[Len(gs)] = new
  OBVIOUS
<1>2. new.q = q /\ new.st = "sent"
  BY DEF Request
<1> HIDE DEF gs
<1>3. Current(d, r, q, gs, a)
  BY <1>1, <1>2 DEF Current
<1> QED
  BY <1>3 DEF gs

LEMMA LatestStep == Typed /\ Access /\ Latest /\ [Next]_vars => Latest'
<1> SUFFICES ASSUME Typed, Access, Latest, [Next]_vars,
                    Shown', "stale" \notin excuses', ~Owed(acts')
             PROVE  Current(db', route', query', fetches', data')
  BY DEF Latest, Owed
<1> DEFINE P == Current(db', route', query', fetches', data')
<1> SUFFICES P
  OBVIOUS
<1> HIDE DEF P
<1>0. /\ DOMAIN fetches = 1 .. Len(fetches) /\ DOMAIN acts = 1 .. Len(acts)
      /\ Len(fetches) \in Nat /\ Len(acts) \in Nat
      /\ fetches \in Seq(Fetch) /\ acts \in Seq(Action) /\ query \in Query
      /\ \A i \in 1 .. Len(fetches) : fetches[i] \in Fetch
      /\ \A i \in 1 .. Len(acts) : acts[i] \in Action
  BY DEF Typed
<1>1. ASSUME Shown, "stale" \notin excuses, ~Owed(acts)
      PROVE  Current(db, route, query, fetches, data)
  BY <1>1 DEF Latest
<1>2. ASSUME NEW r, Mount(r) PROVE P
  <2>1. route' = r /\ MayOpen(r)'
    BY <1>2 DEF Mount, Shown, MayOpen, HasPermission
  <2>2. fetches' = <<Request(FirstQuery(r))>> /\ query' = FirstQuery(r)
    BY <1>2, <2>1 DEF Mount
  <2> QED
    BY <2>2 DEF P, Current, Request
<1>3. ASSUME NEW q \in Query, SetQuery(q) PROVE P
  BY <1>0, <1>3, Requests, NewestIsCurrent DEF P, SetQuery
(* A step that leaves the list and its requests alone. *)
<1>4. ASSUME UNCHANGED <<role, known, route, query, fetches, data>>, "stale" \notin excuses,
             Owed(acts) => Owed(acts'),
             AnswerIn(db', route, query) = AnswerIn(db, route, query)
      PROVE  P
  <2>1. Shown
    BY <1>4 DEF Shown, MayOpen, HasPermission
  <2> QED
    BY <1>1, <1>4, <2>1 DEF P, Current
<1>5. ASSUME UNCHANGED <<role, known, route, acts>>, "stale" \notin excuses
      PROVE  Current(db, route, query, fetches, data)
  BY <1>1, <1>5 DEF Shown, MayOpen, HasPermission
<1>6. ASSUME NEW i \in DOMAIN fetches, AnswerFetch(i) PROVE P
  <2>1. Current(db, route, query, fetches, data)
    BY <1>5, <1>6 DEF AnswerFetch, access
  <2>2. /\ fetches' # <<>> /\ Len(fetches') = Len(fetches) /\ fetches # <<>>
        /\ \A j \in 1 .. Len(fetches) : j # i => fetches'[j] = fetches[j]
        /\ fetches'[i].q = fetches[i].q
        /\ fetches'[i].st = "ok" => fetches'[i].ans = Answer(route, fetches[i].q)
    BY <1>0, <1>6 DEF AnswerFetch, Fetch
  <2>3. UNCHANGED <<db, route, query>> /\ Len(fetches) \in 1 .. Len(fetches)
    BY <1>0, <1>6 DEF AnswerFetch
  <2>4. fetches[Len(fetches)].q = query
    BY <2>1, <2>2 DEF Current
  <2>5. CASE i = Len(fetches)
    BY <2>2, <2>3, <2>4, <2>5, AnswersIn DEF P, Current
  <2>6. CASE i # Len(fetches)
    BY <2>1, <2>2, <2>3, <2>6 DEF P, Current
  <2> QED
    BY <2>5, <2>6
<1>7. ASSUME NEW i \in DOMAIN fetches, LoseFetch(i) PROVE P
  <2>1. Current(db, route, query, fetches, data)
    BY <1>5, <1>7 DEF LoseFetch, access
  <2>2. /\ fetches' # <<>> /\ Len(fetches') = Len(fetches) /\ fetches # <<>>
        /\ \A j \in 1 .. Len(fetches) : j # i => fetches'[j] = fetches[j]
        /\ fetches'[i].q = fetches[i].q /\ fetches'[i].st = "error"
    BY <1>0, <1>7 DEF LoseFetch, Fetch
  <2>3. UNCHANGED <<db, route, query>> /\ Len(fetches) \in 1 .. Len(fetches)
    BY <1>0, <1>7 DEF LoseFetch
  <2> QED
    BY <2>1, <2>2, <2>3 DEF P, Current
(* Only the oldest request is delivered, and it was answered. *)
<1>8. ASSUME NEW i \in DOMAIN fetches, DeliverFetch(i) PROVE P
  <2>1. /\ i = 1 /\ fetches[1].st = "ok" /\ "stale" \notin excuses
        /\ data' = fetches[1].ans /\ fetches' = RemoveAt(fetches, 1)
        /\ UNCHANGED <<db, access, acts, route, query>>
    BY <1>0, <1>8 DEF DeliverFetch, Fetch
  <2>2. Current(db, route, query, fetches, data)
    BY <1>5, <2>1 DEF access
  <2>3. /\ Len(fetches') = Len(fetches) - 1 /\ fetches' \in Seq(Fetch)
        /\ \A k \in 1 .. Len(fetches) - 1 : fetches'[k] = fetches[k + 1]
    <3>1. 1 \in 1 .. Len(fetches)
      BY <1>0, <2>1
    <3>2. /\ RemoveAt(fetches, 1) \in Seq(Fetch) /\ Len(RemoveAt(fetches, 1)) = Len(fetches) - 1
          /\ \A k \in 1 .. Len(fetches) - 1 :
               RemoveAt(fetches, 1)[k] = IF k < 1 THEN fetches[k] ELSE fetches[k + 1]
      BY <1>0, <3>1, Removed
    <3> QED
      BY <2>1, <3>2
  <2>4. CASE Len(fetches) = 1
    BY <2>1, <2>2, <2>3, <2>4 DEF P, Current
  <2>5. CASE Len(fetches) # 1
    <3>1. Len(fetches) - 1 \in 1 .. Len(fetches) - 1
      BY <1>0, <2>1, <2>5
    <3>2. fetches' # <<>> /\ fetches'[Len(fetches')] = fetches[Len(fetches)]
      BY <1>0, <2>3, <3>1
    <3> QED
      BY <1>0, <2>1, <2>2, <3>2 DEF P, Current
  <2> QED
    BY <2>4, <2>5
<1>9. ASSUME NEW k \in Kinds, NEW id \in Ids(k), Act(k, id) PROVE P
  <2>1. \A j \in 1 .. Len(acts) : acts'[j] = acts[j] /\ j \in 1 .. Len(acts')
    BY <1>0, <1>9 DEF Act
  <2>2. Owed(acts) => Owed(acts')
    BY <2>1 DEF Owed
  <2> QED
    BY <1>4, <1>9, <2>2 DEF Act, access
<1>10. ASSUME NEW i \in DOMAIN acts, acts[i].st # "done", NEW st,
              acts' = [acts EXCEPT ![i].st = st]
       PROVE  /\ Owed(acts) => Owed(acts')
              /\ ~(st = "done" /\ Refetches(acts[i].kind))
  <2>1. /\ Len(acts') = Len(acts)
        /\ \A j \in 1 .. Len(acts) : j # i => acts'[j] = acts[j]
        /\ acts'[i].kind = acts[i].kind /\ acts'[i].st = st
    BY <1>0, <1>10 DEF Action
  <2>2. Owed(acts) => Owed(acts')
    BY <1>10, <2>1 DEF Owed
  <2>3. ~(st = "done" /\ Refetches(acts[i].kind))
    BY <1>0, <1>10, <2>1 DEF Owed
  <2> QED
    BY <2>2, <2>3
<1>11. ASSUME NEW i \in DOMAIN acts, ServeAct(i) PROVE P
  <2> DEFINE a == acts[i]
             st == IF ~MayDo(a.kind, a.id) THEN "forbidden" ELSE IF Fails(a.kind, a.id) THEN "failed" ELSE "done"
  <2>1. /\ a.st = "sent" /\ acts' = [acts EXCEPT ![i].st = st]
        /\ db' = IF st = "done" THEN Effect(a.kind, a.id) ELSE db
        /\ UNCHANGED <<access, view>> /\ "stale" \notin excuses
    BY <1>11 DEF ServeAct
  <2> HIDE DEF st
  <2>2. (Owed(acts) => Owed(acts')) /\ ~(st = "done" /\ Refetches(a.kind))
    BY <1>10, <2>1
  <2>3. CASE st # "done"
    BY <1>4, <2>1, <2>2, <2>3 DEF access, view
  <2>4. CASE st = "done"
    <3>1. a.kind = "forceLogout" /\ route = "users"
      BY <1>0, <2>2, <2>4 DEF Refetches, Access, RowActs
    <3>2. db' = [db EXCEPT !.logs.user = @ + 1]
      BY <2>1, <2>4, <3>1 DEF Effect
    <3>3. db'.accounts = db.accounts
      BY <3>2 DEF Typed, Tables
    <3>4. AnswerIn(db', route, query) = AnswerIn(db, route, query)
      BY <3>1, <3>3 DEF AnswerIn, RowsIn, CountIn, ListedIn
    <3> QED
      BY <1>4, <2>1, <2>2, <3>4 DEF access, view
  <2> QED
    BY <2>3, <2>4
<1>12. ASSUME NEW i \in DOMAIN acts, LoseAct(i) PROVE P
  <2>1. /\ acts[i].st # "done" /\ acts' = [acts EXCEPT ![i].st = "failed"]
        /\ UNCHANGED <<db, access, view>> /\ "stale" \notin excuses
    BY <1>12 DEF LoseAct
  <2>2. Owed(acts) => Owed(acts')
    BY <1>10, <2>1
  <2> QED
    BY <1>4, <2>1, <2>2 DEF access, view
<1>13. ASSUME NEW i \in DOMAIN acts, ReturnAct(i) PROVE P
  <2> DEFINE a == acts[i]
             refetch == a.st = "done" /\ Refetches(a.kind)
  <2>1. /\ acts' = RemoveAt(acts, i) /\ "stale" \notin excuses
        /\ fetches' = IF refetch THEN Append(fetches, Request(a.q)) ELSE fetches
        /\ refetch => a.q = query
        /\ UNCHANGED <<db, access, route, query, data>>
    BY <1>13 DEF ReturnAct
  <2>2. CASE refetch
    <3>1. fetches' = Append(fetches, Request(query)) /\ Request(query) \in Fetch
      BY <1>0, <2>1, <2>2, Requests
    <3> QED
      BY <1>0, <2>1, <3>1, NewestIsCurrent DEF P
  <2>3. CASE ~refetch
    <3>1. /\ Len(acts') = Len(acts) - 1
          /\ \A k \in 1 .. Len(acts) - 1 : acts'[k] = IF k < i THEN acts[k] ELSE acts[k + 1]
      BY <1>0, <2>1, Removed
    <3>2. ASSUME NEW n \in 1 .. Len(acts), acts[n].st = "done", Refetches(acts[n].kind)
          PROVE  Owed(acts')
      <4>1. n # i
        BY <2>3, <3>2
      <4>2. CASE n < i
        <5>1. n \in 1 .. Len(acts') /\ acts'[n] = acts[n]
          BY <1>0, <3>1, <4>2
        <5> QED
          BY <3>2, <5>1 DEF Owed
      <4>3. CASE n > i
        <5>1. n - 1 \in 1 .. Len(acts') /\ acts'[n - 1] = acts[n]
          BY <1>0, <3>1, <4>3
        <5> QED
          BY <3>2, <5>1 DEF Owed
      <4> QED
        BY <1>0, <4>1, <4>2, <4>3
    <3>3. Owed(acts) => Owed(acts')
      BY <3>2 DEF Owed
    <3> QED
      BY <1>4, <2>1, <2>3, <3>3 DEF access
  <2> QED
    BY <2>2, <2>3
<1>14. ASSUME NEW k, NEW id, Meddle(k, id) PROVE P
  BY <1>14 DEF Meddle
<1>15. ASSUME UNCHANGED <<db, role, known, route, query, fetches, data, acts, excuses>> PROVE P
  BY <1>4, <1>15
<1>16. ASSUME NEW S, ChangePermissions(S) PROVE P
  BY <1>15, <1>16 DEF ChangePermissions, view
<1>17. CASE ToggleModal \/ UNCHANGED vars
  BY <1>15, <1>17 DEF ToggleModal, vars, view, access
<1>18. ASSUME NEW r \in Pages, Visit(r) \/ Open(r) PROVE P
  BY <1>2, <1>18 DEF Visit, Open
<1>19. ASSUME NEW q, SetQuery(q) PROVE P
  <2>1. q \in Query
    BY <1>19, TypedStep DEF Typed, SetQuery, Query
  <2> QED
    BY <1>3, <1>19, <2>1
<1>20. ASSUME (\E f \in FilterValues : SetFilter(f)) \/ PrevPage \/ NextPage PROVE P
  BY <1>19, <1>20 DEF SetFilter, PrevPage, NextPage
<1> QED
  BY <1>6, <1>7, <1>8, <1>9, <1>11, <1>12, <1>13, <1>14, <1>16, <1>17, <1>18, <1>20 DEF Next

(* When nothing is under way the page shows what the tables hold for its      *)
(* filter and page number, unless one of the four excuses happened.          *)
THEOREM ShownAreStored == Spec => []ShownIsStored
<1>1. Latest => ShownIsStored
  BY AnswersIn DEF Latest, ShownIsStored, Settled, Owed, Current
<1> QED
  BY <1>1, Typing, AccessInit, AccessStep, LatestInit, LatestStep, PTL DEF Spec
-----------------------------------------------------------------------------
(* Paging: LIMIT PageSize OFFSET (page - 1) * PageSize over an ordered list.  *)

Before(S, a) == {b \in S : b < a}

LEMMA Quotient ==
  ASSUME NEW x \in Nat, NEW d \in Nat \ {0}
  PROVE  /\ x \div d \in Nat
         /\ (x \div d) * d <= x
         /\ x < (x \div d + 1) * d
PROOF OBVIOUS

LEMMA Multiples ==
  ASSUME NEW x \in Nat, NEW y \in Nat, NEW d \in Nat \ {0}
  PROVE  x <= y <=> x * d <= y * d
<1>1. x <= y => x * d <= y * d
  OBVIOUS
<1>2. ASSUME y < x PROVE y * d < x * d
  <2>1. y + 1 <= x /\ y + 1 \in Nat
    BY <1>2
  <2>2. (y + 1) * d <= x * d
    BY <2>1
  <2>3. (y + 1) * d = y * d + d
    OBVIOUS
  <2> QED
    BY <2>2, <2>3
<1>3. x * d \in Nat /\ y * d \in Nat
  OBVIOUS
<1> QED
  BY <1>1, <1>2, <1>3

(* The number of pages is the least that has room for the whole list.         *)
LEMMA EnoughPages ==
  ASSUME NEW n \in Nat
  PROVE  /\ TotalPages(n) \in Nat
         /\ n <= TotalPages(n) * PageSize
         /\ TotalPages(n) > 0 => (TotalPages(n) - 1) * PageSize < n
<1> DEFINE t == TotalPages(n)
<1>1. PageSize \in Nat \ {0} /\ n + PageSize - 1 \in Nat
  BY StaffAssumption
<1>2. t \in Nat /\ t * PageSize <= n + PageSize - 1 /\ n + PageSize - 1 < (t + 1) * PageSize
  BY <1>1, Quotient DEF TotalPages
<1> HIDE DEF t
<1>3. (t + 1) * PageSize = t * PageSize + PageSize /\ t * PageSize \in Nat
  BY <1>1, <1>2
<1>4. t > 0 => (t - 1) * PageSize = t * PageSize - PageSize
  BY <1>1, <1>2
<1>5. n <= t * PageSize /\ (t > 0 => (t - 1) * PageSize < n)
  BY <1>1, <1>2, <1>3, <1>4
<1> QED
  BY <1>2, <1>5 DEF t

(* The position of an element in the list: every position below its length is *)
(* taken by one element.                                                      *)
LEMMA Positions ==
  ASSUME NEW S \in SUBSET Nat, IsFiniteSet(S)
  PROVE  [a \in S |-> Cardinality(Before(S, a))]
           \in Bijection(S, 0 .. Cardinality(S) - 1)
<1> DEFINE n == Cardinality(S)
           T == 0 .. n - 1
           rank == [a \in S |-> Cardinality(Before(S, a))]
<1>1. n \in Nat
  BY FS_CardinalityType
<1>2. ASSUME NEW a \in S
      PROVE  /\ IsFiniteSet(Before(S, a)) /\ Cardinality(Before(S, a)) \in Nat
             /\ Cardinality(Before(S, a)) < n
  <2>1. Before(S, a) \in SUBSET S /\ Before(S, a) # S
    <3>1. ~(a < a)
      OBVIOUS
    <3> QED
      BY <3>1 DEF Before
  <2>2. /\ IsFiniteSet(Before(S, a))
        /\ Cardinality(Before(S, a)) <= n
        /\ n = Cardinality(Before(S, a)) => S = Before(S, a)
    BY <2>1, FS_Subset
  <2>3. Cardinality(Before(S, a)) \in Nat
    BY <2>2, FS_CardinalityType
  <2> HIDE DEF n
  <2> QED
    BY <1>1, <2>1, <2>2, <2>3
<1>3. ASSUME NEW a \in S, NEW b \in S, a < b
      PROVE  Cardinality(Before(S, a)) < Cardinality(Before(S, b))
  <2>1. /\ Before(S, a) \in SUBSET Before(S, b)
        /\ a \in Before(S, b) /\ a \notin Before(S, a)
    <3>1. ~(a < a) /\ \A x \in S : x < a => x < b
      BY <1>3
    <3> QED
      BY <1>3, <3>1 DEF Before
  <2>2. /\ Cardinality(Before(S, a)) <= Cardinality(Before(S, b))
        /\ Cardinality(Before(S, a)) # Cardinality(Before(S, b))
    BY <1>2, <2>1, FS_Subset
  <2> QED
    BY <1>2, <2>2
<1>4. rank \in Injection(S, T)
  <2>1. \A a \in S : rank[a] \in T
    <3> HIDE DEF n
    <3> QED
      BY <1>1, <1>2
  <2>2. ASSUME NEW a \in S, NEW b \in S, rank[a] = rank[b] PROVE a = b
    <3>1. a \in Nat /\ b \in Nat /\ ~(a < b) /\ ~(b < a)
      BY <1>2, <1>3, <2>2
    <3> QED
      BY <3>1
  <2>3. rank \in [S -> T]
    BY <2>1
  <2> HIDE DEF rank, T
  <2> QED
    BY <2>2, <2>3 DEF Injection, IsInjective
<1>5. IsFiniteSet(T) /\ Cardinality(T) = n
  <2> HIDE DEF n
  <2>1. 0 \in Int /\ n - 1 \in Int
    BY <1>1
  <2>2. /\ IsFiniteSet(0 .. n - 1)
        /\ Cardinality(0 .. n - 1) = IF 0 > n - 1 THEN 0 ELSE n - 1 - 0 + 1
    BY <2>1, FS_Interval
  <2> QED
    BY <1>1, <2>2
<1>6. rank \in Surjection(S, T)
  <2> HIDE DEF rank, T
  <2> QED
    BY <1>4, <1>5, FS_Injection
<1> HIDE DEF rank, T
<1>7. rank \in Bijection(S, T)
  BY <1>4, <1>6 DEF Bijection
<1> QED
  BY <1>7 DEF rank, T

(* A page holds the elements at its positions, as many as there are.          *)
LEMMA PageLength ==
  ASSUME NEW S \in SUBSET Nat, IsFiniteSet(S), NEW p \in Nat \ {0},
         NEW lo \in Nat, NEW hi \in Nat, lo = (p - 1) * PageSize,
         hi \in lo .. p * PageSize, hi <= Cardinality(S),
         hi = p * PageSize \/ hi = Cardinality(S)
  PROVE  Cardinality(PageOf(S, p)) = hi - lo
<1> DEFINE rank == [a \in S |-> Cardinality(Before(S, a))]
           P == PageOf(S, p)
           f == [a \in P |-> rank[a]]
           I == lo .. hi - 1
<1>0. Cardinality(S) \in Nat /\ PageSize \in Nat \ {0} /\ p * PageSize \in Nat
  BY FS_CardinalityType, StaffAssumption
<1>1. rank \in Bijection(S, 0 .. Cardinality(S) - 1)
  BY Positions
<1>2. /\ \A a \in S : rank[a] \in 0 .. Cardinality(S) - 1
      /\ \A a, b \in S : rank[a] = rank[b] => a = b
      /\ \A k \in 0 .. Cardinality(S) - 1 : \E a \in S : rank[a] = k
  <2> HIDE DEF rank
  <2> QED
    BY <1>1 DEF Bijection, Injection, IsInjective, Surjection
<1>3. P = {a \in S : lo <= rank[a] /\ rank[a] < p * PageSize}
  BY DEF PageOf, Before
<1> HIDE DEF rank, P
<1>4. \A a \in S : a \in P <=> rank[a] \in I
  BY <1>0, <1>2, <1>3
<1>5. P \subseteq S
  BY <1>3
<1>6. \A k \in I : \E a \in P : rank[a] = k
  <2>1. \A k \in I : k \in 0 .. Cardinality(S) - 1
    BY <1>0
  <2> HIDE DEF I
  <2> QED
    BY <1>2, <1>4, <2>1
<1>7. f \in Bijection(P, I)
  <2>1. f \in [P -> I]
    BY <1>4, <1>5
  <2>2. \A a, b \in P : f[a] = f[b] => a = b
    BY <1>2, <1>5
  <2>3. \A k \in I : \E a \in P : f[a] = k
    BY <1>6
  <2> HIDE DEF f, I
  <2> QED
    BY <2>1, <2>2, <2>3 DEF Bijection, Injection, IsInjective, Surjection
<1>8. IsFiniteSet(I) /\ Cardinality(I) = hi - lo
  <2>1. lo \in Int /\ hi - 1 \in Int /\ lo <= hi
    BY <1>0
  <2>2. /\ IsFiniteSet(lo .. hi - 1)
        /\ Cardinality(lo .. hi - 1) = IF lo > hi - 1 THEN 0 ELSE hi - 1 - lo + 1
    BY <2>1, FS_Interval
  <2> QED
    BY <2>1, <2>2
<1>9. IsFiniteSet(P)
  BY <1>5, FS_Subset
<1>10. ExistsBijection(P, I)
  BY <1>7 DEF ExistsBijection
<1> HIDE DEF I
<1>11. Cardinality(I) = Cardinality(P)
  BY <1>9, <1>10, FS_Bijection
<1> QED
  BY <1>8, <1>11 DEF P

(* The pages of a list partition it: every element is on one page and no      *)
(* other, pages 1 .. TotalPages are full but for the last, which is not empty,*)
(* and there is nothing on a later page (the list queries of user_repo.go and *)
(* audit_repo.go, and the number of pages their handlers return).             *)
THEOREM PagesPartition ==
  ASSUME NEW S \in SUBSET Nat, IsFiniteSet(S),
         NEW pages, pages = TotalPages(Cardinality(S))
  PROVE  /\ \A a \in S : \E p \in 1 .. pages : a \in PageOf(S, p)
         /\ \A p, q \in Nat \ {0} : p # q => PageOf(S, p) \cap PageOf(S, q) = {}
         /\ \A p \in 1 .. pages - 1 : Cardinality(PageOf(S, p)) = PageSize
         /\ pages > 0 => Cardinality(PageOf(S, pages)) \in 1 .. PageSize
         /\ \A p \in Nat : p > pages => PageOf(S, p) = {}
<1> DEFINE n == Cardinality(S)
           rank == [a \in S |-> Cardinality(Before(S, a))]
<1>1. n \in Nat /\ PageSize \in Nat \ {0}
  BY FS_CardinalityType, StaffAssumption
<1>2. /\ pages \in Nat /\ n <= pages * PageSize
      /\ pages > 0 => (pages - 1) * PageSize < n
  BY <1>1, EnoughPages
<1>3. \A a \in S : rank[a] \in Nat /\ rank[a] < n
  <2>1. rank \in [S -> 0 .. n - 1]
    BY Positions DEF Bijection, Injection
  <2> HIDE DEF rank, n
  <2> QED
    BY <1>1, <2>1
<1>4. \A a \in S, p \in Nat : a \in PageOf(S, p) <=>
        (p - 1) * PageSize <= rank[a] /\ rank[a] < p * PageSize
  BY DEF PageOf, Before
<1> HIDE DEF n, rank
<1>5. ASSUME NEW a \in S PROVE \E p \in 1 .. pages : a \in PageOf(S, p)
  <2> DEFINE m == rank[a] \div PageSize
  <2>1. m \in Nat /\ m * PageSize <= rank[a] /\ rank[a] < (m + 1) * PageSize
    BY <1>1, <1>3, Quotient
  <2> HIDE DEF m
  <2>2. a \in PageOf(S, m + 1)
    <3>1. m + 1 \in Nat /\ (m + 1) - 1 = m
      BY <2>1
    <3> QED
      BY <1>4, <2>1, <3>1
  <2>3. m < pages
    <3>1. m * PageSize < pages * PageSize
      BY <1>1, <1>2, <1>3, <2>1
    <3>2. ~(pages <= m)
      BY <1>1, <1>2, <2>1, <3>1, Multiples
    <3> QED
      BY <1>2, <2>1, <3>2
  <2>4. m + 1 \in 1 .. pages
    BY <1>2, <2>1, <2>3
  <2> QED
    BY <2>2, <2>4
<1>6. ASSUME NEW p \in Nat \ {0}, NEW q \in Nat \ {0}, p < q
      PROVE  PageOf(S, p) \cap PageOf(S, q) = {}
  <2>1. p <= q - 1 /\ q - 1 \in Nat
    BY <1>6
  <2>2. p * PageSize <= (q - 1) * PageSize /\ p * PageSize \in Nat /\ (q - 1) * PageSize \in Nat
    BY <1>1, <2>1, Multiples
  <2>3. ASSUME NEW a \in S, a \in PageOf(S, p), a \in PageOf(S, q) PROVE FALSE
    <3>1. rank[a] < p * PageSize /\ (q - 1) * PageSize <= rank[a]
      BY <1>4, <2>3
    <3> QED
      BY <1>3, <2>2, <3>1
  <2> QED
    BY <2>3 DEF PageOf
<1>7. ASSUME NEW p \in 1 .. pages - 1 PROVE Cardinality(PageOf(S, p)) = PageSize
  <2>1. p \in Nat \ {0} /\ p <= pages - 1 /\ pages - 1 \in Nat /\ p - 1 \in Nat /\ pages > 0
    BY <1>2, <1>7
  <2>2. p * PageSize <= (pages - 1) * PageSize
    BY <1>1, <2>1, Multiples
  <2>3. p * PageSize <= n /\ p * PageSize \in Nat /\ (p - 1) * PageSize \in Nat
    BY <1>1, <1>2, <2>1, <2>2
  <2>4. p * PageSize = (p - 1) * PageSize + PageSize
    BY <1>1, <2>1
  <2>5. Cardinality(PageOf(S, p)) = p * PageSize - (p - 1) * PageSize
    <3>1. p * PageSize \in (p - 1) * PageSize .. p * PageSize
      BY <1>1, <2>3, <2>4
    <3> QED
      BY <2>1, <2>3, <3>1, PageLength DEF n
  <2> QED
    BY <1>1, <2>3, <2>4, <2>5
<1>8. ASSUME pages > 0 PROVE Cardinality(PageOf(S, pages)) \in 1 .. PageSize
  <2>1. pages \in Nat \ {0} /\ pages - 1 \in Nat
    BY <1>2, <1>8
  <2>2. (pages - 1) * PageSize \in Nat /\ pages * PageSize = (pages - 1) * PageSize + PageSize
    BY <1>1, <2>1
  <2>3. n \in (pages - 1) * PageSize .. pages * PageSize
    BY <1>1, <1>2, <1>8, <2>2
  <2>4. Cardinality(PageOf(S, pages)) = n - (pages - 1) * PageSize
    BY <1>1, <2>1, <2>2, <2>3, PageLength DEF n
  <2> QED
    BY <1>1, <1>2, <1>8, <2>2, <2>4
<1>9. ASSUME NEW p \in Nat, p > pages PROVE PageOf(S, p) = {}
  <2>1. pages <= p - 1 /\ p - 1 \in Nat
    BY <1>2, <1>9
  <2>2. pages * PageSize <= (p - 1) * PageSize
    BY <1>1, <1>2, <2>1, Multiples
  <2>3. (p - 1) * PageSize \in Nat /\ pages * PageSize \in Nat
    BY <1>1, <1>2, <2>1
  <2>4. \A a \in S : a \notin PageOf(S, p)
    BY <1>1, <1>2, <1>3, <1>4, <2>2, <2>3
  <2> QED
    BY <2>4 DEF PageOf
<1> QED
  <2>1. ASSUME NEW p \in Nat \ {0}, NEW q \in Nat \ {0}, p # q
        PROVE  PageOf(S, p) \cap PageOf(S, q) = {}
    <3>1. p < q \/ q < p
      BY <2>1
    <3> QED
      BY <1>6, <3>1
  <2> QED
    BY <1>5, <1>7, <1>8, <1>9, <2>1

(* Paging through the users list reaches every account that the filter lists, *)
(* each on one page (ListUsers and the page numbers that users/page.tsx       *)
(* offers).                                                                   *)
THEOREM EveryAccountIsReached ==
  ASSUME NEW f, NEW a \in Listed(f)
  PROVE  \E p \in 1 .. PageCount("users", [filter |-> f, page |-> 1]) :
           /\ <<a, db.accounts[a]>> \in Rows("users", [filter |-> f, page |-> p])
           /\ \A m \in Nat \ {0, p} :
                <<a, db.accounts[a]>> \notin Rows("users", [filter |-> f, page |-> m])
<1> DEFINE S == Listed(f)
           pages == TotalPages(Cardinality(S))
<1>1. S \in SUBSET Nat /\ IsFiniteSet(S)
  BY StaffAssumption, FS_Subset DEF Listed
<1>2. PageCount("users", [filter |-> f, page |-> 1]) = pages
  BY DEF PageCount
<1>3. \A p : Rows("users", [filter |-> f, page |-> p]) =
               {<<b, db.accounts[b]>> : b \in PageOf(S, p)}
  BY DEF Rows
<1> HIDE DEF S
<1>4. \A p : <<a, db.accounts[a]>> \in Rows("users", [filter |-> f, page |-> p])
               <=> a \in PageOf(S, p)
  BY <1>3
<1>5. PICK p \in 1 .. pages : a \in PageOf(S, p)
  BY <1>1, PagesPartition DEF S
<1>6. \A m \in Nat \ {0, p} : a \notin PageOf(S, m)
  <2>1. p \in Nat \ {0}
    OBVIOUS
  <2>2. \A m, q \in Nat \ {0} : m # q => PageOf(S, m) \cap PageOf(S, q) = {}
    BY <1>1, PagesPartition
  <2> QED
    BY <1>5, <2>1, <2>2
<1> QED
  BY <1>2, <1>4, <1>5, <1>6
=============================================================================
