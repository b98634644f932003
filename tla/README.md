# Formal model of the Sadaqah platform

TLA+ modules, TLC runs and TLAPS proofs for Sadaqah: the Go API (`src/backend`),
the Python AI worker (`src/ai-worker`), the state they share in Postgres and
Redis, and the browser side (`src/frontend/src`): the API client, the session of
a tab, the student's wizards, the donation page and the administration pages.
Paths below are relative to the repository; `service/`, `repository/`,
`handler/` and `middleware/` are under `src/backend/internal/`, `lib/`, `app/`,
`components/` and `middleware.ts` under `src/frontend/src/`.

Run a model with `tlc -config X.cfg M.tla` (the pairs are in the table of runs
and in `PROJECT.json`), check a proof with `tlapm M.tla`.

## The system

One or more Go processes serve HTTP requests concurrently; a handler calls a
service, the service calls repositories. Postgres is used at its default READ
COMMITTED level through a connection pool: unless a repository opens a
transaction (`ProcessDonation`, `DisburseExpense`, `AllocateRoom`,
`SubmitScores`), each SQL statement commits on its own. Redis holds the access
token blacklist, the permission cache, the rate-limit counters, a metrics cache
and the two job lists. The Python worker pops jobs and reports over HTTP.
Request contexts are cancelled when the client goes away, so a handler may stop
between any two statements.

The frontend is a Next.js application. A tab runs one JavaScript thread whose
steps are event handlers and the continuations of requests; what interleaves is
the order in which answers arrive. Tokens are HttpOnly cookies, shared by the
tabs; React state is lost when a page is left, `AuthProvider`'s when the tab is
reloaded.

| Component | State it keeps | Operations | What is hard | What makes it correct |
|---|---|---|---|---|
| Sessions (`service/auth_service.go`, `service/user_service.go`) | `refresh_tokens`, `users.is_active`, `users.deleted_at`, Redis `blacklist:*` | login, refresh with rotation, logout, force logout, suspend, deactivate, reactivate | several statements per request without a transaction; refreshes race revocations | one live token per session, a token is exchanged once, an ended session stays ended, a suspended or deleted user gets no token |
| Expenses (`repository/core_ops_repo.go`, `service/core_ops_service.go`) | `expense_requests`, `budget_allocations.spent_amount`, `budgets.spent_amount`, `financial_transactions`, `audit_logs` | submit, disburse | row locks, rollback, a commit whose answer is lost, the audit record after the commit | totals and journal agree with the disbursed expenses, no double booking, no deadlock |
| AI jobs (`service/ai_job_service.go`, `handler/internal.go`, `ai-worker/app/main.py`) | `ai_jobs`, two Redis lists, local variables of the consumers | enqueue, pop, status, result and failure callbacks, retry | destructive pop, pushes repeated by the Redis client, swallowed callback errors, 30 s timeout against a slow handler, stale locals, ids that do not meet | no row is given up before three reported failures, retries come to an end |
| Permissions (`service/rbac_service.go`, `middleware/auth.go`) | `user_roles`, `role_permissions`, `roles.is_active`, Redis `user:permissions:*` | check, assign and remove roles and permissions, (de)activate a role | fill and invalidation interleave, errors of DEL ignored | an outdated entry is about to be deleted or expires, a grant rests on a permission once held |
| Donations (`service/core_ops_service.go`) | `donations`, `campaigns.current_amount`, journal | process a donation | retries without idempotency key, UNIQUE receipt number | campaign total, donation and journal agree |
| Registration, Google login, lockout (`service/auth_service.go`, `app/(auth)`) | `users`, `user_profiles`, `user_roles`, `login_attempts`; the forms | register, sign in, count failures | account creation in several statements, check-then-record | every account is complete; at most ten failures per window pass |
| Onboarding (`handler/onboarding.go`, `app/portal/onboarding/page.tsx`) | student profile, `profile_completed`, claim in the token; step and fields of the wizard | fill in, go back and forth, submit | two statements, two tabs, claim outdated until refresh, fields of a step that is not on the page | a completed flag goes with a profile, the wizard reaches review only with valid groups, a student gets through |
| API client and session of a tab (`lib/api-client.ts`, `components/providers/auth-provider.tsx`, layouts, `middleware.ts`) | cookies, `user`, `isLoading`, `isRefreshing`, queue of calls, page | requests, refresh after a 401, sign in, log out, redirect | several 401s at once, late answers, overlapping sign-ins, reloads | one refresh at a time, no token presented whose successor the tab was given, a logout stays, the user shown is the cookies' |
| Administration pages (`app/portal/admin`, `components/layout/sidebar.tsx`, `lib/use-permissions.tsx`) | list, filter, page number, open dialogue, requests in flight, permissions read at load | filter, page, act on a row, create, grant | answers without sequence numbers, closures of old renders, permissions that changed | the list shown is the list stored for its filters, the page exists, gates ask for what routes ask for |
| Donation page (`app/(public)/campaigns/[id]/page.tsx`) | form, amount, payment under way | donate | lost answers, retry | one visit, at most one donation |
| Housing (`service/housing_service.go`, `repository/housing_repo.go`) | applications, rooms, leases, rent payments | allocate, monthly invoices | capacity, ticker from process start, several processes | no overfull room, one invoice per month |
| Scholarships, judging | cycles, applications, scores | submit, score, certificate | repeated submission, states without a writer | one score set per judge |
| Ranking (`ai-worker/app/services/ranking_service.py`) | none | rank | ties, normalisation | order agrees with the scores |
| Rate limiting (`middleware/rate_limit.go`) | Redis sorted set per client | admit or refuse | window edges, refused requests counted | at most N per window |
| Notifications, e-mail, files, reports, audit queries, configuration, deployment | – | single statements, I/O, rendering | – | – |

Interactions: every handler runs behind `JWTAuth` (blacklist) and most behind
`RequirePermission` (permission cache); user administration writes the tables of
sessions and permissions alike (`ForceLogout` touches both); financial and
administrative services end with `AuditService`; the Go job service and the
worker share only the Redis lists and the callbacks. Every request of a page
goes through the API client, whose refresh rotates the cookies that the handlers
read; pages learn of permissions and of the profile only through `AuthProvider`.

## Modules

| Module | Role |
|---|---|
| `AuthSessions` | refresh-token sessions, one action per SQL statement or Redis call; implements `LoginSessions` for a client that serialises its refreshes |
| `LoginSessions` | abstract: a login session is handed on from one token to the next, in one step |
| `AuthSessionsProofs` | theorems about `AuthSessions`, the refinement included |
| `AtomicBooking` | abstract: a document is booked at most once, all its postings in one step |
| `Disbursement` | the disbursement transaction statement by statement; implements `AtomicBooking` |
| `DisbursementProofs` | theorems about `Disbursement`, the refinement included |
| `AIJobs` | Go job service, Redis lists, Python consumers, callbacks |
| `PermissionCache` | permission resolution, cache, invalidation, escalation guard |
| `PermissionCacheProofs` | theorems about `PermissionCache` |
| `BrowserSession` | one tab: API client, cookies, `AuthProvider`, layouts, sign-in and logout |
| `BrowserSessionProofs` | theorems about `BrowserSession` |
| `StudentJourney` | the student's pages and wizards, account creation and onboarding |
| `StudentJourneyProofs` | theorems about `StudentJourney` |
| `StaffPages` | five administration pages against the server's tables, routes and permissions |
| `StaffPagesProofs` | theorems about `StaffPages` |
| `GuestDonation` | campaign pages and the donation transaction; implements `AtomicBooking` |
| `GuestDonationProofs` | theorems about `GuestDonation`, the refinement included |
| `AIJobsProofs` | theorems about `AIJobs` |
| `MC*` | model-checking instances: functions on model values, symmetry |

How they fit together. `AuthSessions` cuts the session requests into statements
and leaves the client open but for `ConcurrentUse`; `BrowserSession` has the
client in full and each handler as one step. `StudentJourney` reduces tokens to
the one claim its pages look at, `StaffPages` to a role and permissions. Two
abstract modules say what statements are meant to add up to: `AtomicBooking` is
implemented twice, by expenses and by donations, `LoginSessions` by
`AuthSessions`. They translate no line of the code; the refinement mappings are
at the end of the modules that implement them.

Every concurrent HTTP request is a slot of `Requests` with a program counter
that names its next statement; a step executes one statement and moves the
counter. Reads that are not locked go stale: a request keeps only what the code
keeps in a local variable. Lost requests (`Abort`, `Rollback`) reset the slot.
`Faults` and similar constants select which failures a run explores, so that a
run can state what holds with them and another what holds without.

Definitions whose comment begins "Mutant of" are not part of a specification.
Each is the named definition with one plausible mistake; `PROJECT.json` lists
which property detects it.

### AuthSessions

`status`, `owner` are the columns of `refresh_tokens`; `active`, `deleted` those
of `users`; `blacklist` the Redis keys. A refresh is `RefreshLookup` (the SELECT
that filters revoked and expired rows), `RefreshRotate` (UPDATE by id, its error
only logged), `RefreshLoad` (user row, then the IsActive check) and
`SaveRefreshToken`. Login is its read of the user row followed by the same
insert. `Logout`, `ForceLogout`, `SuspendUser` and `DeactivateUser` do their own
first statement and then `RevokeAll`. Password checks, the lockout counter,
profile and role reads change no variable of the module and are left out; the
identifiers in `Tokens` stand for a refresh token and the access token issued
with it. `session`, `parent`, `ended` are history variables. Tokens are never
recycled, so `Tokens` bounds the number of logins and refreshes of a run.

The refinement of `LoginSessions` maps `usable` to the `Carriers` of a session:
its live tokens and those that a refresh in flight has presented. The lookup, the
revocation and the IsActive check are stutters (a refused or aborted refresh ends
its session), the insert is the exchange. A refresh in flight keeps its session
open although the session was revoked meanwhile; that is what the code does, and
the abstract session ends only when the refresh is through.

`ConcurrentUse` says whether two requests may present one refresh token at the
same time. FALSE is an assumption about the client, and not one that the frontend
always keeps: a tab has one refresh in flight (`api-client.ts`), but gives it up
when its answer is lost or the page is reloaded, and then presents the same
cookie again while the server may still be at the first (`BrowserSession`,
`AfterGivingUp`); two tabs share the cookie. So FALSE describes a single tab whose
refreshes are all answered, and the runs and theorems that need it say what
rotation is worth then; the other half is checked with TRUE.

`Logout` blacklists the access token only when it came in the Authorization
header; a browser session sends it as a cookie, and nothing is blacklisted
(`auth_service.go:353` says "revokes the user's refresh tokens and blacklists
the access token"). This is one guard of one action, visible there.

### Disbursement

`DisburseExpense` is `LockExpense` (BEGIN and SELECT FOR UPDATE), `CheckStatus`,
`UpdateExpense`, `ChargeAllocation`, `ChargeBudget`, `InsertEntry`, `Commit`,
then `LogAction` for the audit record. `lock` holds the row locks that FOR
UPDATE and UPDATE take; a transaction's writes are collected in `wrote` and
become visible at `Commit`. Amounts are represented by how often an expense was
added to an account: equality of totals follows from equality of postings and
nothing in the code depends on the amount. `Commit` may lose its answer;
`Rollback` stands for a failed statement, a cancelled context and a killed
process. `NoDeadlock` is about the waits-for relation: `Wanted` is the row that a
request's next statement locks, `WaitsFor` its holder; every open transaction
runs, or waits for one that runs, or for one that waits for one that runs. The refinement
maps `booked` to the disbursed expenses and `postings` to itself. The status check refuses only disbursed expenses: the approval
states that the table's CHECK constraint allows are written by no code
(`production_readiness_audit.md:167` speaks of an approval workflow).

### AIJobs

A row of `ai_jobs` stores a payload, and the identifiers of `Jobs` stand for
both: in a list for the payload, in `status` and `retries` for the row. The
callbacks carry the `task_id` or `cycle_id` of the payload, and `Names` is the
row with that id. It is never the row that stores the payload: `EnqueueJob`
makes the row's id (`ai_job_service.go:34`) when its caller has fixed the payload,
and pushes the payload unchanged. So a payload names no row (an id of the
caller's own, or none that parses as a uuid, answered 400) or, if the caller
takes one from there, an earlier row; no caller is in the repository. `Create`
inserts a row, `Enqueue` is the LPUSH, which go-redis repeats by default when it
does not hear the answer (`redis.go:15-20` sets no other number of retries): a
payload is pushed once, several times (`PushedUnheard`), or perhaps although an
error is returned (`PushFails`), which `MarkFailed` answers.

A consumer iteration is `Pop`, `Process`, `NextIteration`; a payload that the
consumer's model refuses (`Malformed`) is popped and its failure reported, unless
there is no id in it or it is no JSON object (`Silent`, `main.py:100-107`).
Processing raises for the payloads in `Raising`: `ranking_service.py:128`
converts a custom field to a number. `PopError` is an exception of `brpop`
itself, which the handler answers with the payload of an earlier iteration. A
callback is a member of `calls` from sending to answer; an UPDATE for an id that
no row has changes nothing (`Update`). `FailRead`, `FailRecord`, `FailPush` are
the three statements of `HandleFailure`. The consumer goes on after 30 s
(`TimeOut`) or an error (`Lose`), Go with a handler it has started. `FaultBound`
bounds the failures of the environment in a run; `reports` and `refused` are
history variables: the failures Go has read a row for, and the rows whose
`EnqueueJob` answered with an error.

Two settings are taken to be made by the deployment, and no file of the
repository makes them: Go pushes to `sadaqah:queue:<type>`
(`ai_job_service.go:48`), the worker pops from `ocr_queue` and `ranking_queue`
unless its environment says otherwise (`ai-worker/app/config.py:27`); and the
callbacks go to `API_BASE_URL` + `/internal/...`, where `docker-compose.yml:104`
sets `http://go-api:8080`, while the routes are under `/api/v1/internal`
(`router.go:122-139`). With the repository's configuration no message is popped,
and every callback would be answered 404.

### PermissionCache

`RequirePermission` and the escalation guard share `GetCached`,
`LoadPermissions`, `StorePermissions`, the three calls of `GetUserPermissions`; a
Redis error on the GET counts as a miss.
Every change of a table is one action that leaves the request before its
invalidation: `GetRoleUsers` (who has the role now) and one
`InvalidateUserPermissionCache` per user. Expiry is the action `Expire`.
`held`, `grants`, `torn` are history variables; `torn` marks a user whose entry
was written by a fill that had read an older state.

### BrowserSession

A call is a slot of `call` that runs through the interceptor: sent, answered,
denied, queued, refreshing, and so on. `GET /users/me`, sign-ins and the logout are
calls of their own, `DataCalls` those of a page. `Serve`, `ServeSignIn`,
`ServeRefresh` are the server, `Arrive` and `Deliver` the continuation of an
answer with everything it runs in one task (`FinishRefresh` empties the queue,
repeats the call and clears `isRefreshing`). An access token is represented by
the user it names and may expire before any request; a refresh token has an
identity, and names that neither a cookie nor a request carries are used again
(`Held`), so three names suffice for histories of any length. `Load` is a full
load of a page: module state is new and every answer of the old page is lost, a
refresh's included. The cookie then still holds the token that was presented,
which the server has exchanged or exchanges yet (`AfterGivingUp`, the same for a
lost answer, `LoseRefresh`); such a token is `Unheard`, and the tab presents it
again at its next 401. `PresentedOnce` is about all others: `Spent` is a token
whose successor the tab was given. Pages reduce to public, login
and portal; the redirections are `Settle` (layouts) and `Middleware`. Answers to
`DataCalls` change nothing here, and a page's requests do not overlap the
provider's own fetch. `owner`, `crossed`, `quiet` are history variables.

### StudentJourney

`rows` is what the database holds of one account, a request is one statement per
step; the pages are those of one tab, a second tab only sends requests. The
fields of a wizard are grouped by its steps, and a group satisfies the schema or
does not (`valid`). `NextStep` is the handler with its `trigger`, which validates
the fields of the step shown; `handleSubmit` validates all. `Settle` is what the
two layouts make of a page, `Links` the links each page has. `FailStatement`
follows the code: registration goes on without a role, Google's sign-in without
profile and role, the onboarding handler stops. The scholarship form keeps its
steps, validates nothing and submits nothing (`SubmitApplication`), as the page does;
`WizardComplete` is about the onboarding wizard. A guest's tab ends on the login page
whichever page it opens (`Open`), as `browser_guest` shows. One request
of the tab is in flight at a time, and what follows a renewed or lost token is left to
`BrowserSession`.

### StaffPages

`db` holds what five pages list: accounts, roles, a role's permissions, the
audit log, cycles. `query` is the filter and page number of the page, `data` the
last answer it took, `fetches` and `acts` its requests. Every change of filter
or page number sends a list request (`useEffect` on `fetchUsers`), answers are
taken in any order (`DeliverFetch`), and a handler reloads with the query of the
render that created it (`ReturnAct` uses `a.q`). `Gate` and `InMenu` are the
conditions under which a page shows a control, `Need` the permission of the
route it calls; `known` is what the tab read at load, `revoked` what holds now.
`MayDo` has what the route asks for and what the handler refuses besides: to
suspend or deactivate one's own account (`OwnAccount`, `handler/user.go:150`,
`:179`), which the row offers for every account. The users page has three
filters; role and status are one here ("some"), the search term is the other
("search"), which the page sends (`users/page.tsx:66`) and `ListWithFilters`
ignores (`Listed`). `AnswerFetch` takes COUNT and SELECT as one read.
`Meddle` is another administrator, or a request of a page that was left.
`excuses` is a history variable: "stale" and "strayed" name exactly the cases in
which the list or the page number shown may differ from the stored ones.

### GuestDonation

A visit is a page of `tab` from its load; a donation is its row, whose statements
are `Insert` (donation, receipt and income entry, which nobody sees before the
commit), `UpdateCampaign` (takes the row lock of the campaign), `Commit` or `Rollback`. `Apologise` is any error or lost
answer: the page says Campaign Not Found. As in `Disbursement` the running total
is represented by how often each donation was added to it, so `raised' = raised + 1`
for a donation already counted, or a write over another's addition, shows.

## Runs

| Run | Module, configuration | Shows |
|---|---|---|
| sessions_serial | `MCAuthSessions`, `AuthSessions_serial` | with serialised refreshes: refinement of `LoginSessions`, `ExchangedOnce`. One user, three tokens (two rotations), three requests (a refresh against an administrator and another login) |
| sessions_concurrent | `MCAuthSessions`, `AuthSessions_concurrent` | with concurrent use and every failure: `EndIsFinal`, `DeletedStaysOut`, `SuspendedStaysOut`. Two users, so that one's revocation can meet the other's refresh |
| disbursement | `MCDisbursement`, `Disbursement` | `BookedExactlyOnce`, refinement of `AtomicBooking`, `AuditOnlyOfDisbursed`, `NoDeadlock`, and `EveryRequestEnds`: no lock is left behind and no waiter starves. Three requests on two expenses, two allocations of one budget and one of another: double submission and lock queues of two |
| jobs | `MCAIJobs`, `AIJobs` | `NeverGivenUpEarly`, `EveryRetryEnds`. Three payloads: one without id, one that names the first row, one for ranking that raises and names the first row too; two OCR consumers and one for ranking; two failures of the environment (repeated or lost pushes, lost and late callbacks, stale reports, killed consumers) |
| jobs_ids | `MCAIJobs`, `AIJobs_ids` | violation of `EveryOCRJobCompletes`: nothing fails, every payload is in order, and an OCR job stays pending |
| permissions | `MCPermissionCache`, `PermissionCache` | `StaleOnlyByRace`. Two users, a system and a custom role, two requests: a fill against a change, two changes of one role |
| permissions_faults | `MCPermissionCache`, `PermissionCache_faults` | `GrantedWasHeld`, `StalenessEnds` with failing calls and dying requests |
| browser | `MCBrowserSession`, `BrowserSession` | `SingleFlight`, `PresentedOnce`, `SignedOutStaysOut`, `ShownUserIsCookieUser`. Login and portal pages, two accounts, three token names, a data request beside the client's own four, every fault: late 401s, reloads during a refresh, overlapping sign-ins |
| browser_guest | `MCBrowserSession`, `BrowserSession_guest` | violation of `PublicPagesStayOpen`: a guest on a public page ends on the login page |
| journey | `StudentJourney`, `StudentJourney` | `WizardComplete`, `CompletionIsTrue`, `NoHalfAccounts`, `OnboardedOnce`, `DeadEndByFailure`, `DeadEndIsFinal`, `EveryStudentGetsThrough`. One student in two tabs, failing statements, lost answers |
| staff | `StaffPages`, `StaffPages` | `ShownIsStored`, `PageExists`, `GatesMatchRoutes`. Three roles (all permissions, gated controls, reading only), two accounts on pages of one, one of them the person's own, two requests in flight, one of them a change |
| donation | `GuestDonation`, `GuestDonation` | `OneDonationPerVisit`, refinement of `AtomicBooking`. Two visitors, three donations: a visit that donates again after a failure beside another visitor |

Every run with an invariant but `sessions_concurrent`, `permissions_faults` and
`donation` checks the module's `TypeOK` too. The two violation runs check what a comment
of the repository says; `PROJECT.json` quotes it under `findings`.

Bounds. Two requests exhibit every race of the sessions and of the cache; the
third of `sessions_serial` and `disbursement` lets two of them queue behind the
first. Three tokens are a login and two rotations, the shortest history in which
an exchanged token can meet its grandchild. Retry counts are bounded by the code
(three), repeated pushes and stale reports by `FaultBound`: two failures give a push
that is repeated and a report that comes late or twice, on top of the two
payloads that reach the first row without any. In `BrowserSession` three token names hold the cookie, an answer under
way and a successor; one data call beside `me` gives two simultaneous 401s. In
`StaffPages` two list requests can overtake each other, or one and a change; one
change suffices for an outdated list, and a page asks for no more changes than the
bound `MaxChanges` lets the server make; pages of one row give a second page to lose; after that
change a page can only be reloaded (a page that is mounted keeps nothing of the one
before), another administrator changes only what the page lists, and permissions
change once per load. In `GuestDonation` the third donation lets one visitor fail
and try again beside another. The theorems below do not depend on these
numbers. Runs whose system may come to rest (all jobs done; a guest who
does nothing) say `CHECK_DEADLOCK FALSE`; the others do check for deadlock.

Fairness. `Disbursement` assumes that a request goes on with its next statement
and that Postgres hands a released row to its waiters in turn (strong fairness
of `Step`); nothing obliges a transaction to roll back. `AIJobs` assumes that a
started handler and a consumer go on, a push comes to an end, and that BRPOP on a list that is filled
again and again returns to each client (Redis serves blocked clients in order).
`PermissionCache` assumes that Redis expires entries, and nothing of the
requests. No failure has to happen. `BrowserSession` (violation run only) assumes that the server answers
and that the event loop runs on. `StudentJourney` assumes the same, and of the
student only what `EveryStudentGetsThrough` is about: who stays on the wizard
fills in the step shown, goes on and submits.

## What the code does not promise

Each of these statements of a comment or document, or natural expectation, fails
in the model the way it does in the code. The definition named is in the module;
TLC refutes it as an INVARIANT of the configuration named, changed as said; where
only a definition is named, it shows the reason.

| Statement | Why it fails | Reproduce |
|---|---|---|
| "Revoke the old refresh token (rotation)" (`auth_service.go:333`): a token has one successor | lookup and revocation are two statements; two overlapping refreshes both pass the first | `ExchangedOnce`, `AuthSessions_serial` with `ConcurrentUse = TRUE` |
| "ForceLogout revokes all sessions for a user" (`user_service.go:184`) | a refresh past its lookup inserts the successor after the revocation | `RevokeAllEndsSessions`, `AuthSessions_serial` with `Faults = {}` |
| "Audit Trails: Implemented (Strict ACID logging ...)" (`production_readiness_audit.md:172`) | the record is a separate statement after the commit, its error only logged | `EveryDisbursementAudited`, `Disbursement` |
| "this also acts as the Complete job trigger" (`main.py:91`) | the row's id is made after the payload, so the `task_id` of a result is not the row's | run `jobs_ids` |
| "ListWithFilters returns users filtered by role, status, and search term" (`user_repo.go:442`) | the search term is in no WHERE clause | `Listed` |
| an outdated cache entry is about to be deleted | a fill that read before the change writes after the invalidation | `InvalidationIsComplete`, `PermissionCache` |
| "Define public paths that do not require authentication" (`middleware.ts:4`) | `AuthProvider` asks for the user on every page and a failed refresh redirects whatever page is shown | run `browser_guest` |

What reading the pages for the models showed besides, visible in the guard or
assignment named:

* A guest who is sent to `/login` is loaded there anew, asks for the user, fails
  to refresh and is sent to `/login` again (`FailRefresh`, `Load`).
* `middleware.ts:43` looks for the access cookie, which ends after 15 minutes,
  while the refresh cookie lives on (`Middleware`); a single failed `/users/me`
  drops the user (`Rejects`).
* The e-mail form stays enabled while Google's popup is open
  (`login/page.tsx:173`): `ShownUserIsCookieUser` needs its exception. A refresh
  answered after a logout and a new login stores the old session's cookies.
* A student row without the flag is a dead end: every further submission fails
  on the primary key (`DeadEnd`). A half-made registration answers 409 on
  retry, yet its login works.
* The scholarship form enforces none of its required fields and submits nothing;
  scholarship cards and quick actions link to routes that do not exist; the
  forgotten-password form always reports success (`SubmitForgot`).
* A handler of the users page reloads with the filter of the render that created
  it, `isLoading` ends with the first answer, and a late answer to a
  creation closes a dialogue reopened meanwhile (`ReturnAct`). Removing the last row
  of the last page leaves the page empty ("strayed").
* `admin.audit` is seeded for no role: the sidebar shows the audit page to the
  role admin, which may not open it (`InMenu`, `MayOpen`). The controls of the
  roles pages are not gated, so org_admin is offered a creation that its route refuses.
  The form for cycles can be sent twice (`CycleForm`).
* The row of the person's own account offers suspend and deactivate, which the
  handlers answer 403 (`OwnAccount`); the page only logs the
  error.
* "Extract task_id if possible, otherwise we can't report fail" (`main.py:99`):
  `raw_payload` survives its iteration, so an exception of `brpop` reports the
  task of an earlier one (`PopError`). No UPDATE of a job looks at the status it
  replaces, so late callbacks overwrite completed rows (`UpdateStatus`).
* A refresh whose answer is lost leaves the exchanged token in the cookie: the
  next refresh is answered 401 and the tab is sent to the login page
  (`AfterGivingUp`, `FailRefresh`).
* Any error of a donation replaces the page by Campaign Not Found; a visitor who
  reloads and tries again donates twice if the first had been booked. `OneDonationPerVisit`
  is about one load of the page.
* Logout blacklists an access token only from the Authorization header
  (`handler/auth.go:162`), see `AuthSessions`.

## Proofs

`AuthSessionsProofs` holds for every finite or infinite set of users, tokens and
requests, every `Channels` and `Faults`; its assumptions are `NoneAssumption`
and `ParamAssumption` of `AuthSessions`.

* `TypeCorrectness`, `Invariance`: `Inv` adds to `TypeOK` that a row of the
  table is complete (`Rows`) and that a refresh in flight was presented with an
  issued token (`Presented`). `TypeOK` alone is not inductive: a refresh copies
  the owner of the row it read, which is a user only because the row exists.
* `EndsAreFinal`: a closed session has no live token and no refresh in flight, so
  only a login could insert one, and that starts a session of its own because
  its token is new (`Rows`). `StepShapes` reduces the thirteen actions to four.
* `DeletedUsersStayOut`, `SuspendedUsersStayOut`: only a request before its
  insert can give a user a token (`DrainedStep`), and only one whose user may
  sign in comes to stand there.
* `OneLiveTokenPerSession`, `RotationIsExact`, for `~ConcurrentUse` and
  `"revoke" \notin Faults`: `SerialInv` adds that a session has one carrier, a
  live token or the request exchanging its last one (`OneCarrier`), and that an
  exchanged token is dead and in nobody's hands (`Exchanged`). Both conditions
  are needed: with `ConcurrentUse` TRUE TLC refutes the property, and
  with a failed revocation the old token stays live beside the new one.
* `Refinement`, under the same conditions: a session has at most one carrier
  (`OneOfSession`), so a step that adds none leaves each session as it is or ends
  it (`EndingStep`); lookup, rotation and all quiet steps are of this kind. The
  insert replaces the one carrier, which leaves the request's hands in the same
  step (`SaveSession`). It contains `OneLivePerSession` and the finality of an
  ended session.

`DisbursementProofs` holds for every set of expenses, allocations, budgets and
requests, from `BudgetAssumption`, `NoneAssumption` and `DistinctAssumption`.

* `Invariance`: `IInv` adds to `TypeOK`, `BookedExactlyOnce` and
  `AuditOnlyOfDisbursed` what the row lock is for (`Progress`): a request in its
  transaction holds its expense's row; past the status check that expense is not
  disbursed; what it has added so far (`Written`) follows from its next statement;
  after the commit the expense is disbursed. Without it a commit could book an
  expense that another request has booked since the check.
* Six of the nine request steps commit nothing and are covered by `QuietStep`, the
  three postings by `ChargeStep`; only `CommitStep` argues about postings.
* `ExactlyOnce`, `AuditSound`, `TypeCorrectness` follow from `IInv`;
  `DisbursedForGood` (`DisbursementIsFinal`) and `Refinement` from `IInv` and `WriteCases`: the database
  changes only by an insert, a stutter of `AtomicBooking`, or by a commit, its
  `Book`.

* `DeadlockFree`: a request holds only rows of statements it has passed
  (`Owners`, kept by every kind of step on locks), and the statements lock in the
  order expense, allocation, budget. So who waits for a row waits for a request
  that is further on (`WaitOrder`): before the journal entry nobody is more than
  two waits away from a request that runs. The code states this order nowhere;
  another transaction that locked a budget before an allocation would break it.

`PermissionCacheProofs` holds for every set of users, roles, permissions and
requests, from `RolesAssumption`.

* `GuardSound`, for every `Faults`: `Inv` says that nothing a request or Redis
  knows of a user's permissions was never true (`Known`): the entries, what a
  fill has read and what a request past the guard wants have all been held.
* `InvalidationReachesAll`, for `Reliable` (no failed DEL, no failed query of a
  role's users, no request that dies; GET and SET may fail): `StaleOnlyByRace` is
  inductive given `Inv`. `Covered` states it for one user; a change of a role
  reaches the users who have it (`RoleCovered`), an assignment its user
  (`AssignmentCovered`), and whoever is not reached keeps the same permission set.

`AIJobsProofs` holds for every set of jobs and workers, whatever `Names`,
`Malformed`, `Silent` and `Raising` say, and every `FaultBound`, from
`JobsAssumption`.

* `TypeCorrectness`: `Busy` (a consumer that reports has a payload) makes the
  types inductive.
* `GivenUpAfterThree`: the guard of `FailRecord` looks at the count that its
  handler read, not at the row, and between the two statements other handlers of
  the row, or `EnqueueJob`, may write it. `Counted` says that
  the count in a handler's hands is at most the number of failures reported for
  its row; so is what it writes back, and three is reached only after three
  reports. Overlapping handlers lose counts, which delays giving up and never
  hastens it.

`BrowserSessionProofs` holds for every set of users, tokens, pages' requests and
pages and every `Faults`, from `NoneAssumption`, `TokAssumption`,
`PagesAssumption`, `CallsAssumption`.

* `OneRefreshAtATime`, `NoTokenTwice`: `Safe` adds to the properties that the
  tokens of cookies and answers are distinct, and new where they should be
  (`Carried`), and that a spent token is in the refresh cookie only while the
  answer that replaces it is under way (`Cookies`). That is why a late 401 may start no second
  refresh: the first has not been finished. When it is given up instead, the
  token becomes `Unheard`, which the theorem does not speak of.
* `LogoutIsSilent`, `ShownIsOwner`: `IInv` adds what is in flight after a quiet
  logout (`Silent`), that a sign-in without overlap is alone (`Alone`), and
  that without overlap everything the tab carries belongs to one user (`Single`).

`StudentJourneyProofs` holds for every `Faults`. `IInv` is inductive: the
properties, the order in which the rows of each request appear (`Ordered`), that
a signed-in account exists (`Known`), that a registration without profile or role
is under way or had a statement fail (`Halves`) and that the submission which inserted the student row is the one that
may be told of success (`Once`).

* `WizardSound` is about the onboarding wizard; the application form has no
  such property.
* `DeadEndNeedsFailure` (`DeadEndByFailure`): a student row without the flag is a handler between its
  statements unless one failed (`HalfDone`, inductive given `IInv`), so two tabs
  that submit at once never end in the dead end by themselves.
* `DeadEndIsForGood` (`DeadEndIsFinal`): no step leads out of the dead end. Both use what a step that is no
  statement leaves alone (`OutsideStatements`).

`StaffPagesProofs` holds for every set of staff roles, every set of accounts,
page size and bound, from `StaffAssumption`. It lists the sequences of requests
in its own type invariant (`Typed`).

* `GatesAreRoutes`: rows are shown only to roles that may list them, and a row's
  control was offered on the permissions known to the tab (`Access`); what remains are the
  person's own account and permissions that changed.
* `PagesExist`: every page number in use, in the query, in the answers and in the requests,
  exists in the list of its filter (`Within`); only a shorter list or Next
  over another list ends that. `Grown` lifts it over a change of the tables.
* `ShownAreStored`: the last list request is of the query shown and its answer,
  when it is there, not outdated, unless a handler is about to load the list
  again (`Latest`). The list is that of the role and status filters; the search
  term has no effect on it.
* `PagesPartition`, on the operators that answer a list request: for every list and
  page size the pages partition the list, all but the last are full, the last is
  not empty and nothing lies beyond. `EveryAccountIsReached` applies it to the
  accounts that the server lists for a filter and the page numbers its page offers.

`GuestDonationProofs` holds for every set of visitors, donations and amounts,
from `DonationAssumption`: the lock belongs to the transaction before its commit, whose
row is the committed one plus its own donation (`Booked`), and a visit that has submitted
waits, says thanks without a form, or is over (`Visits`). `Refinement` maps a
commit to `Book` and every other step to a stutter.

The strengthened invariants were checked by TLC on the instances above before
they were proved.

Only model-checked: the liveness properties (`EveryRequestEnds`,
`EveryRetryEnds`, `StalenessEnds`, `EveryStudentGetsThrough`; fairness is
beyond the prover; `DeadlockFree` is the safety half of the first). Every safety
property of a passing run is a theorem.

## Not modelled

* Login lockout (`auth_service.go:151`): a count over a table of attempts with a
  window in wall-clock time. Its race, that parallel attempts pass the limit
  together, is that of any unlocked count, and no code promises otherwise.
* Housing: `AllocateRoom` checks neither capacity nor state, so there is no
  promise to state; the monthly invoice job (`housing_service.go:88`) depends on
  the date at which each process was started.
* Judging (`evaluation_repo.go:66`): repeated scores are inserted again and averaged;
  a property would restate that. Innovation and scholarship services are
  independent statements, and the states of an application that the schema
  allows have no writer.
* `CloneRole` and `UpdateRole`: no cached permission set depends on them until a
  permission or an assignment changes, which is modelled.
* Ranking and OCR: functions on floats and images; `AIJobs` has only that they
  return or raise. The list names and the base URL of the callbacks are assumed
  to agree (see `AIJobs`).
* Rate limiting: one sorted set per client and window, no protocol.
* Audit record and e-mail after a donation: as in `Disbursement.LogAction`.
* Pages that show fixed data (housing, finance, inventory, research, donations,
  innovation), and the judges' and reports pages, which load a list once: no state
  beyond what `StaffPages` has of a list.
* Rendering, notifications, presigned file URLs, metrics, configuration,
  deployment and backup scripts: no protocol state, or pure I/O.
