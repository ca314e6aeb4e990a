# Verification of the hydropower gate dispatch system

The program is a Go service (Gin, GORM, PostgreSQL, Redis) with a Vue client. It
keeps the records of a dispatch: reservoirs, the gates on them, the directives
that order a gate to be moved, and the receipts that report what became of a
directive. Several people write the same records at the same time, and the
program's promise is that a gate is never moved on an order that two different
people did not release, and that directive, gate, receipt and audit log never
tell different stories. This directory holds a TLA+ model of that promise, the
TLC runs that check it on small instances and the TLAPS proofs that hold for all.

Paths below are relative to `src/backend/internal/` unless they start with `src/`.

## 1. The system

| component | state | operations | talks to |
|---|---|---|---|
| status graphs, `constants/status.go` | constant edge maps | `CanTransition` | used by all services |
| repository, `repository/*.go` | tables, one row per record with a version and a soft-delete mark | `Get`, `GetByCode`, `Create`, `Update` with `WHERE version = ?`, `Delete`, transactions carried in the context | database |
| gate service, `service/gate_unit.go` | none of its own | create, update, transition, delete | gate and reservoir tables, audit |
| directive service, `service/operation_directive.go` | none | create, update, transition with approvals, delete | directive, gate and approval tables, audit |
| receipt service, `service/execution_confirmation.go` | none | create, update, transition with outcome, delete | receipt, directive and gate tables, audit |
| reservoir service, `service/reservoir.go` | none | create, update, transition, delete | reservoir table, audit |
| security service, `service/security.go` | users, audit log | login, `Audit`, histories | database |
| authentication, `middleware/auth.go` | none, reads the users table on every request | `Authenticate`, `RequireRoles`, `RequireMinimumRole` | users |
| rate limiter, `middleware/ratelimit.go` | counters in Redis and in the process | count a request, fall back, clean up | Redis |
| start-up, `database/database.go` | - | wait, migrate, seed | database |
| client, `src/frontend/src` | the pages' lists and forms; the session, stored once per browser and shown by each tab | load, poll, submit; start, sign in, sign out | HTTP |

Every request is served by its own goroutine. A service reads the records it
needs, each with a query of its own, checks what it read, and then opens one
transaction that writes. Nothing is locked in between: the only protection is
the `version` of a row, which the client sends back (`expectedVersion`) and which
`repository/base.go` puts in the `WHERE` clause of each `UPDATE`.

What is hard about it:

- **stale copies**: a write replaces the whole row by a copy that was read before
  the transaction began; a request that touches three tables has three copies of
  different ages;
- **checks without a version**: deletion and "this gate needs no write" rely on
  the copy alone;
- **several rows at once**: an outcome writes receipt, directive, gate and three
  audit records, or none of them;
- **duplicates**: count-then-insert, unique indexes that also see deleted rows;
- **the two-person rule** across requests that run at the same time;
- **around the core**: Redis failing in the middle of a minute, a crash in the
  middle of the seed, roles revoked while a request is being served, responses
  that reach the page out of order, tabs that write one stored session.

`PROJECT.json` lists each of these as a hazard at its line, with the property
that covers it, or the reason there is none.

What makes each component correct:

- repository: a write whose version check succeeds overwrites exactly the row the
  request decided on (`SnapshotCurrent`), and of all requests in flight on one
  version of a row, a retry included, one is applied (`WritesOutdate`);
- gate service: a gate moves along its graph only, and each move is recorded
  (`StatusFollowsGraph`, `AuditMatchesRow`);
- directive service: approval by a second person, of what was submitted
  (`TwoPersonEvidence`, `ApprovedContentFrozen`), and never stuck on the unique
  index of the approval rows (`ApprovalPlaceFree`);
- receipt service: at most one receipt settles a directive, and both agree on
  how (`OutcomeAgreement`, `ReceiptBacked`);
- the three together: whatever requests overlap, the tables tell a history of
  whole requests served one after the other (`ImplementsProtocol`);
- reservoir service: a gate lies in a facility its reservoir has, or had when
  they were last compared (`FacilityOfReservoir`), and two writers of a reservoir
  do not undo each other (`ReservoirMoves`);
- rate limiter: no counter lets more than the limit pass (`WithinLimit`), the
  table of a process refuses nobody early and keeps no more of the past than it
  may (`RefusedOnlyWhenFull`, `OverflowIsCurrent`);
- authentication: a request takes effect only by a right its account held, in
  the table, since the request was sent (`RightsAreCurrent`);
- start-up: an interrupted seed is continued, in order, and every instance comes
  to serve (`SeedIsPrefix`, `EvidenceComes`, `SeedGoesOn`, `KeepsServing`);
- client: a transition is applied to what its user saw (`AppliedAsSeen`), the
  buttons are what the server accepts, apart from what the gate stands in the way
  of (`OffersWhatIsAccepted`), one that was offered is refused only because the
  record has moved on, the gate stands in the way, or the gate changed before it
  could be written (`RefusedForCause`), and the page comes to show the record as it is (`CatchesUp`);
- session: no session mixes two accounts (`OneAccountEach`), a tab is never left
  signed out over a session of its own (`WriterShowsStore`), and a loading screen
  waits for exactly one answer (`LoadingAwaitsOne`) and goes away (`LoadingEnds`).

## 2. The modules

| module | models | notes |
|---|---|---|
| `StatusGraph` | `constants/status.go`; of `service/operation_directive.go`, `directiveRoleAllowed` and the state a transition wants of its gate | a graph is the set of its edges |
| `Records` | the row operations of `repository/base.go` | soft deletion and the version check, used by every table |
| `DispatchStore` | the tables of `model/`, the audit log | `EXTENDS StatusGraph, Records`; constants and their assumptions |
| `GateUnit` | `service/gate_unit.go` | one variable, `gateReq`: what each goroutine is doing |
| `OperationDirective` | `service/operation_directive.go`, `repository/operation_directive.go` | `dirReq` |
| `ExecutionConfirmation` | `service/execution_confirmation.go` | `recReq` |
| `Dispatch` | the three services over one database | specification and properties |
| `DispatchProtocol` | what the three services promise together | the abstract specification: one step per accepted request |
| `DispatchInv` | - | the inductive invariant |
| `DispatchRefinement` | - | the refinement mapping, `ImplementsProtocol` |
| `DispatchProofs` | - | invariants and action properties of `Dispatch` |
| `DispatchProtocolProofs`, `DispatchRefinementProofs` | - | what the protocol keeps; the services implement it |
| `Linkage`, `LinkageProofs` | `service/reservoir.go`, the reservoir checks of `service/gate_unit.go` | reservoirs, gates, facilities |
| `RateLimiter`, `RateLimiterProofs` | `middleware/ratelimit.go` | counters, and proofs about them |
| `Access` | `middleware/auth.go`, `Login` of `service/security.go`, the roles of the routes | accounts, tokens, requests in flight |
| `Session`, `SessionProofs` | `hooks/useAuth.ts`, `api/client.ts`, `api/auth.ts`, `router/index.ts`, `pages/LoginPage.vue` of `src/frontend/src` | `EXTENDS Access`: the browser and the server it asks |
| `Startup`, `StartupProofs` | `database/database.go`, `cmd/server/main.go`, the restart policy of `src/docker-compose.yml` | instances over one database |
| `Page`, `PageProofs` | `EntityPage.vue`, `stores/factory.ts`, `hooks/usePolling.ts` of `src/frontend/src`; `Transition` of `service/operation_directive.go` | `EXTENDS StatusGraph, Records`: the directives page over one record and its gate |
| `MCDispatch`, `MCLinkage`, `MCRateLimiter`, `MCPage`, `MCSession` | - | values of the constants, symmetry sets |

`Dispatch` composes the three services and the store, `Session` the browser and
the accounts. The other modules stand beside them and share at most `StatusGraph`
and `Records`, because the code they model meets the dispatch at one narrow point
each (a request that is refused, a request that never arrives, the tables at
start, a version that may be behind), and there `Dispatch` allows everything they
may do.

### State of the dispatch

`gate`, `directive`, `receipt` are functions from codes to rows. A row has the
tag `none` (the code was never used), `live`, or `deleted` (gorm's soft delete:
`Get` and `UPDATE` skip it, the unique indexes do not). Of the columns the model
keeps those some check or property tells apart: status, version, the gate and
the target of a directive, the two signatures, the directive of a receipt. Names,
facilities, measurements and times are left out. `approval` holds, for each
directive, the actor of the `submitted` and of the `approved` row; the unique
index on (directive, stage) is the guard that the field is still empty. `audit`
holds the newest audit record of each entity: the log only grows, and the newest
record is the one a reader compares with the record itself.

### Actions of the dispatch

A request is cut where another request can run: before each query and before the
transaction. So `PUT /api/directives/:id` is `GetForDirectiveUpdate` (read,
check that it is a draft), `GetGateForDirectiveUpdate` (read the linked gate,
check it) and `CommitDirectiveUpdate` (the transaction: the row, the audit
record). A request carries what it read (`cur`, `linked`, `dir`) and a commit
writes these copies, as the code does, not the rows as they are at that moment.

Choices that need a word:

- *A transaction is one step.* On PostgreSQL (READ COMMITTED, the default of the
  deployment) each `UPDATE ... WHERE version = ?` locks its row until commit and
  re-evaluates the condition after waiting, and the transactions take their locks
  in the order receipt, directive, gate. The step stands for the commit; a
  transaction that fails has no effect.
- *Refusal, failure and crash are one action.* `AbandonGate`, `AbandonDirective`,
  `AbandonReceipt` end a request at any point with nothing written. They stand for
  failed checks, conflicts, database errors, a client that went away, and, all at
  once, for a crash of the server. Guards of the other actions are therefore the
  conditions under which the code goes on.
- *Create.* `CreateGate` has no check on modelled state before its insert, so it
  is one step. A create starts only for an unused code; the race of two creates of
  one code is kept, because the insert checks again.
- *Reservoirs* only make a gate request be refused, which is `AbandonGate`.
- *The client's version* is an assumption about clients (`ClientVersions`). A
  client may send any version it has seen: at most the version of the copy the
  server reads after it, at most `MaxLag` behind it. The web client does so, since
  it sends the version of the item it shows. The server does not enforce this: it
  takes any `expectedVersion` from 1 on (`dto/common.go:27`) and compares it with
  the row in the `UPDATE`, never with the copy it read. A client that sent a
  version ahead of the copy would, if another write committed just in between,
  have the old copy written over that write: an approval decided on a pending
  directive could be written over its abort. What is shown here about the lock,
  the graphs, the two persons, the trail and the protocol holds for clients that
  send a version they have seen.
- *Who acts* is remembered only where a row records it (`submittedBy`,
  `approvedBy`); for the other transitions the role check alone matters.
- *`GetByCode` of a directive* is two queries by code and id; the id of a code
  never changes, so they count as the second one.

### The protocol

`DispatchProtocol` is what a reader of the three services would like to believe:
records without versions, and one step per accepted request that looks at the
records as they are. `Settle` moves a receipt, its directive and its gate at once;
`Report` wants a directive that two persons released and that no receipt names.
The mapping of `DispatchRefinement` drops versions, approval rows, audit records
and requests in flight; a commit is the abstract step of the same name, and the
rest (reads, checks, refusals, edits of fields that are not modelled) are
stutters.

The protocol is not stricter than the code. `Report` is possible after its
directive was aborted or completed, because the services check first and insert
later; `RemoveDirective` and `RemoveReceipt` do not ask for a draft or a pending
receipt; and `TakesGate` may leave a gate alone, because a gate that was read in
the wanted state is not looked at again (section 3 has the runs that show why).
What remains is what holds in every interleaving: a move is an edge for the record
as it is, a receipt settles a directive that executes at that moment, and never a
second one.

### Linkage

A request carries the row it is going to write and the version it expects
(`req`). Facilities are compared without regard to case by the code, so a member
of `Facility` is a name up to case. Each gate update is three steps, as in the
code: read the gate, read its reservoir, write. `sites` is a history variable:
every facility a reservoir has had since it was created. Without it the strongest
true statement about a gate could not be said, because the code moves a
reservoir without asking its gates. `Expected` is the same assumption about
clients as in the dispatch: `service/reservoir.go` and `service/gate_unit.go` do
not compare the version they are sent with the copy they read, and `ReservoirMoves`
holds for clients that send one they have seen.

### Rate limiter

`req` holds each request with the counter and the minute it was counted in; the
counter in Redis (`shared`) and the tables of the processes (`local`) are as in
the code, a missing key reading as the zero value. The minute a request counts in
is chosen twice: the Redis key is made before the call, the window of the local
bucket after it failed, so a request that waits for Redis across the change of
the minute is counted in the new one. `LostReply` counts without an answer.
`Tick` waits for calls to Redis in flight, since the timeouts of the client
library (seconds, retries included) are shorter than a minute, and `Expire` may
drop a counter two minutes after its own minute, which is what a key with an
expiry of two minutes that is counted only within its minute comes to. Two
limiters of the router (login and API) use different keys and never meet.
Overlapping requests run their steps one at a time: Redis runs a transaction at
once, and the table has a mutex.

### Start-up

`rows` holds for each seeded table, in the order of `Seed`, whether it is empty,
has live rows, or only soft-deleted ones, which `COUNT` does not see and unique
indexes do. Each statement of the seed is a transaction of its own and a step.
`Fail` stands for a crash, a signal, and for a database or Redis that does not
answer within the attempts the code makes. Requests appear only as `DeleteAll`
and `CreateOne`, on the tables in `Deletable`: users are never deleted and
directives only while they are drafts. `AutoMigrate` is part of `Connect`.

### Access and Session

`account` is the users table; `call` the requests in flight, each with its token,
the principal the middleware made of it (`as`), and a history variable `held`, the
roles the token stood for at some moment since the request was sent. A request is
cut at the read of the account row: `Authenticate` reads it, `Serve` uses the role
later; `Lookup` reads it, `Sign` issues the token after the password was compared
(its outcome is free). Routes are grouped by the roles they ask for. No endpoint
changes an account, so `SetRole`, `SetActive` and `Replace` are external: someone
with access to the database. `Fail` covers the limiter (429), errors of the
handler and a lost connection; `LookupFails` is apart, because the code answers a
database error with 401, and a 401 clears the session.

A tab is `closed`, `booting` (asking the server about the session it found),
`ready` or `signing`. `Open` is also a reload: whatever the page waited for is
then lost (`Orphaned`, `Lost`), but the server still serves it. Code between two
awaits is one step. The session that `bootstrapAuth` read first is `captured`,
because it is merged with the answer later. `localStorage` is shared by the tabs;
`writer` is a history variable, the tab that wrote it. The display name is left
out, the password is the outcome of `Sign`.

### Page

Code of a page runs in one thread, so a step is what runs between two awaits:
`Load` up to the call, `Loaded` or `Failed` from the answer to the end of the
function and of the one that awaits it. `call` is the requests in flight, with
the row a load was answered with or the item the user confirmed.

The server's side is `service/operation_directive.go`, cut where others can write:
`ServerChecks` reads record and gate and refuses or goes on, `ServerCommits` is the
transaction, refused by the version of the record, or by that of the gate when the
gate is to be written. The checks are all those of the code: the graph, the role and
the second person (`RecordAllows`), and the gate, which must be found, not be
locked, and have an edge to where it has to go (`GateAllows`). `gate` is the gate the
record names at the moment. The page neither loads nor shows it, so it offers
transitions that the gate stands in the way of (`GateInTheWay`); `abort_active` shows
one of them. The third check on the gate never decides: a gate that passes the other
two has the edge (`GateObstacles` of `PageProofs`).

The record's other users are `OthersMove`, any account making any transition the
server accepts, and receipts that complete or abort the directive; `OthersEdit`, a
draft that is edited and may name another gate; and `OthersGate`, the gate moved,
edited or deleted, whatever its directive does. The deletion of the record is left
out: the page then shows an empty list. The server compares submitter and actor
without regard to case (`operation_directive.go:161`), the page exactly; users are
values that differ in more than case, since no endpoint creates an account and the
seeded names are such. The confirmation dialog is
closed by whichever transition ends without an error, and can be confirmed again
while a request runs: its button is not disabled (`EntityPage.vue:208`), unlike
that of the create form. The account of the page does not change.

## 3. The runs

### The dispatch

These runs use `MCDispatch`. Versions are bounded by `MaxGateVersion`,
`MaxDirectiveVersion` and `MaxReceiptVersion`: a request that would exceed a bound
does not start. Workers are interchangeable and used as a symmetry set in runs
that check safety only. Deadlock is not checked: the server rests when every
record is terminal, deleted or at its bound and no request is being served.

| run | instance | shows |
|---|---|---|
| `lifecycle` | one seeded gate, one directive code, two directive workers, one gate worker, accounts operator, reviewer, admin; directive versions to 5 (draft, edit, submit, approve, execute, abort), gate versions to 3 | two concurrent writers of one directive cannot break the two-person rule, the graphs, the audit trail or the frozen content, nor leave an approval row that blocks it, nor both be applied to one version of it |
| `execution` | two directives that execute on one moving gate, one towards open and one towards closed, two receipt codes, two receipt workers, one directive worker | receipts race to be the one of a directive, outcomes race with an abort and with the outcome of the rival; at most one settles each directive, the gate moves along its graph, and the whole implements the protocol |
| `end_to_end` | empty database, one worker per service, `MaxLag` 1 | the whole story from creation to outcome with stale clients, every action of the three services; the inductive invariant `IInv`, the audit trail, the refinement |

Two writers of the same row are enough to lose an update, and three versions of a
gate (seeded, moved, settled or locked) and of a receipt (created, edited or
failed, cancelled) reach every edge of their graphs; five versions of a directive
allow one edit and the longest path. `execution` begins where both directives
execute, a state that needs many steps and is easily reached: a gate that is
already moving does not keep a second directive from starting. The proofs below
remove the bounds for every property of these runs.

Three more runs of `MCDispatch` check a sentence of the documentation that the
code does not keep in every interleaving. Each finds its counterexample:

| run | says | what happens |
|---|---|---|
| `draft_delete` | an administrator deletes drafts (`src/README.md:24`) | `Delete` checks a copy and deletes by id: a directive submitted in between is deleted |
| `start_locked` | a locked gate does not enter the process (`src/README.md:47`) | a gate read in the target state is not checked again, and may be locked by then |
| `abort_active` | any active stage can be aborted (`src/README.md:44`) | a gate can be deleted under an executing directive, which nobody can abort then |

Three neighbours of these have no run of their own. An outcome is to settle or
lock the gate (`src/README.md:48`), but a gate read in the state the outcome wants
is not looked at again (`execution_confirmation.go:184`), as in `start_locked`. A
receipt is deleted by the same pattern as a directive, so one that was confirmed
after it was read is removed. And a directive whose gate already stands in its
target starts without the gate entering `moving` (`operation_directive.go:153`),
although `src/README.md:48` promises it without exception.

### Beside the dispatch

Deadlock is not checked here either: an instance rests when its clock has reached
the bound and all requests are answered, when everything is deleted, or when the
page is closed or no tab has a click left.

| run | instance | shows |
|---|---|---|
| `linkage` | two reservoirs, two facilities, one gate, two workers, versions to 2 | a gate's facility is one its reservoir has had; concurrent writers of a reservoir move its status along the graph or edit its fields, never both and never undoing |
| `limiter` | three keys, four requests, limit 1, three minutes, one process with a table cleaned at two keys, Redis counters that lost replies push to 1 | at most the limit per counter, with Redis failing, losing replies and expiring; a request the table refuses found the limit used up; an overfull table is of one minute |
| `startup` | two instances, three faults, reservoirs and receipts deletable | no table is filled before the ones it refers to; approvals can be missing, and the seed given up halfway, only after a failure; unless a table stays emptied, every instance comes to serve again |
| `session` | two tabs, an operator and a reviewer, two requests in flight, two pages opened, two sign-ins or requests, a token lifetime of one tick, one change of an account, one fault | no request takes effect without a right held while it ran; sessions never mix accounts; what is stored is what its writer shows; a page loads exactly while one request of its own is under way; loading ends |
| `page` | an administrator's page, one load and two transitions in flight, one lost request, accounts of all four roles; a draft edited twice, a directive submitted for a closed gate, and one that executes on a moving gate; versions to 4, of the gate to 2 | what is applied is what the user saw; the buttons of an item that is up to date are what the server accepts, unless the gate stands in the way; a refusal has one of three causes; polling catches up |

Three keys over a table of two are the smallest overflow; four requests let the
table overflow and one key exceed the limit; the third minute lets the counter of
the first expire. The tables of several processes never meet, so the run has one,
and the proof any number. Three faults let each of two instances fail at a
different statement and one of them fail again. From the three starts of the page
each edge of the directive's graph is reached within the version bound, and each
cause of a refusal: a gate locked, deleted, or written between the server's check
and its transaction. A load and the reload of a transition are enough to overtake
each other, and two transitions in flight are a dialog confirmed twice. Two tabs
and two requests are the smallest overtaking of a start by a sign-in; one tick
lets a token expire in the store, in flight and while a page starts; the third id
is the account that replaces one of the two. The safety properties were also
checked with three sends, and the proofs remove these bounds.

One run finds a counterexample: `startup_reseed` checks that a server that exits
comes back (`restart: unless-stopped`, `src/docker-compose.yml:43`; seeding is
for an empty database, `src/README.md:139`). After the only example receipt,
`EC-001`, is deleted, each start counts no receipts, inserts `EC-001` again, hits
the unique index, which sees deleted rows, and exits, for ever.

What the bounds that are checked do not say: they hold per counter. A Redis that
fails within a minute starts a second count in each process, so a client may pass
the limit once per counter, where `src/README.md:138` speaks of a limit per
address. Likewise `EvidenceComes` is as far as the seed goes: a crash between its
two statements leaves directives without approvals, and no later start adds them
(`database.go:215`). And a gate may be inserted after its reservoir was moved or
deleted (`gate_unit.go:47`), which is why `FacilityOfReservoir` speaks of the
facilities a reservoir has had.

Fairness is assumed in three modules. `Startup`: each instance goes on
(`WF_vars(Proceed(i))`), because a goroutine that can run does and Docker starts a
container again that exited; faults are finite, and `Fail` itself is never fair.
`startup_reseed` has its counterexample under this fairness. `Page`: each request
in flight is answered or fails (`WF_vars(Proceed(c))`), because `fetch` ends and
its continuation runs, and the timer of `usePolling` fires (`WF_vars(Poll)`),
which holds for a page that is mounted and visible. `Session` (`FairSpec`): the
server goes on with each request, because its goroutine can run and the timeouts
of `main.go:37` end one that cannot, and the browser with each answer. Nothing is
assumed of users: opening, signing in, confirming, cancelling and moving the
record are never fair, and neither are faults. The other modules state safety
only.

## 4. The proofs

`TLAPS` checks, for every set of records, users and workers and every bound:

| theorem | statement |
|---|---|
| `DispatchProofs!TypeCorrect` | `Spec => []TypeOK` |
| `DispatchProofs!LockIsSound` | `Spec => []SnapshotCurrent` |
| `DispatchProofs!WritersOutdated` | `Spec => WritesOutdate` |
| `DispatchProofs!Invariant` | `Spec => []IInv` |
| `DispatchProofs!TwoPersonRule` | `Spec => []TwoPersonEvidence` |
| `DispatchProofs!IndexNeverDecides` | `Spec => []ApprovalPlaceFree` |
| `DispatchProofs!ContentFrozen` | `Spec => ApprovedContentFrozen` |
| `DispatchProofs!GraphsFollowed` | `Spec => StatusFollowsGraph` |
| `DispatchProofs!TrailComplete` | `Spec => []AuditMatchesRow` |
| `DispatchProtocolProofs!Settled` | the protocol's `Spec => [](Agreement /\ Backing)` |
| `DispatchRefinementProofs!Implements` | `Spec => ImplementsProtocol` |
| `DispatchRefinementProofs!OutcomesAgree` | `Spec => []OutcomeAgreement` |
| `DispatchRefinementProofs!ReceiptsBacked` | `Spec => []ReceiptBacked` |
| `RateLimiterProofs!LimiterTypeCorrect` | `Spec => []TypeOK` |
| `RateLimiterProofs!LimitHolds` | `Spec => []WithinLimit` |
| `RateLimiterProofs!OverflowBounded` | `Spec => []OverflowIsCurrent` |
| `RateLimiterProofs!NobodyRefusedEarly` | `Spec => []RefusedOnlyWhenFull` |
| `LinkageProofs!LinkageTypeCorrect` | `Spec => []TypeOK` |
| `LinkageProofs!GatesLinked` | `Spec => []FacilityOfReservoir` |
| `LinkageProofs!NothingUndone` | `Spec => ReservoirMoves` |
| `StartupProofs!StartupTypeCorrect` | `Spec => []TypeOK` |
| `StartupProofs!SeedOrdered` | `Spec => []SeedIsPrefix` |
| `StartupProofs!EvidenceApproved` | `Spec => []EvidenceComes` |
| `StartupProofs!SeedContinued` | `Spec => []SeedGoesOn` |
| `SessionProofs!SessionTypeCorrect` | `Spec => []TypeOK` |
| `SessionProofs!RightsKept` | `Spec => []RightsAreCurrent` |
| `SessionProofs!WriterKept` | `Spec => []WriterShowsStore` |
| `SessionProofs!OneAccountKept` | `Spec => []OneAccountEach` |
| `SessionProofs!LoadingAwaited` | `Spec => []LoadingAwaitsOne` |
| `PageProofs!PageTypeCorrect` | `Spec => []TypeOK` |
| `PageProofs!ButtonsAreRules` | `Spec => []OffersWhatIsAccepted` |
| `PageProofs!AppliedOnce` | `Spec => AppliedAsSeen` |
| `PageProofs!RefusalsExplained` | `Spec => RefusedForCause` |

Those about the dispatch assume what `DispatchStore` names: the codes of different tables differ and
none is the empty string (`CodesDistinct`), roles are known (`RolesKnown`), a form
never asks for `moving` (`TargetsAreStates`, the `oneof` of
`dto/operation_directive.go`), bounds are natural numbers, and the tables at
start are ones a finished seed or an empty database has (`SeedIsConsistent`). TLC
evaluates the assumptions on every run.

For the dispatch the argument goes in three layers (`DispatchInv`).

1. `TypeInv` is the type invariant with what it needs to be inductive: a row in
   use names records (`RowsWellFormed`), and a request in flight has passed the
   checks behind it (`RequestsChecked`), because only the copies it carries, not
   the rows, still satisfy them. `TypeOK` alone is not inductive: `version + 1`
   stays in range only because the request was started below the bound.
2. `SnapshotCurrent` says that a copy is never newer than its row, and that a copy
   of the same version *is* the row, deletion aside. It is inductive over
   `TypeInv` by one lemma about rows (`RowStep`): whatever commits, a row is
   inserted, deleted, or gets its next version; no commit changes a row and keeps
   its version. With it, a commit whose version check succeeds overwrites exactly
   its copy (`OverwritesGate` and its siblings), and any commit leaves the other
   requests on its row with a version that no longer matches (`WritersOutdated`).
3. `ApprovalsFollow` ties the approval rows to the directive. A commit is then a
   move of the *current* row (`DirectiveMoves`), so the check made on the copy is a
   check on the row, and the two-person rule and the frozen content follow. So
   does `ApprovalPlaceFree`: what passes its version check overwrites a draft or a
   pending directive, and the approval rows of those leave the place free.
4. `CreatesBacked` looks ahead for receipts: the directive of an insert under way
   is one that two persons released, since the states after `executing` keep both
   signatures. The four parts together are `IInv`, which `end_to_end` checks.

With `IInv`, the refinement is one lemma per commit: the copy it decided on is
the row (2), so the guard of the code is the guard of the protocol, and the views
of the rows change as the abstract step says. Reads and refusals leave the views
alone. A gate that is not written needs no lemma of its own, since the protocol
may leave it alone; one that is written is its copy, so the move is an edge.

The agreement of receipts and directives is then proved where it is easy, for the
protocol (`Settled`): a directive is only completed together with its receipt, it
has one receipt, and a settled directive is never moved again. `OutcomesAgree` and
`ReceiptsBacked` carry this over through the mapping. Neither is an invariant that
could be proved directly from `IInv`: nothing in it says that a confirmed receipt
keeps its directive completed.

The trail is proved from `IInv` and `GatesFresh`: each step changes a row and the
newest audit record of its code in one of four ways (`Trailed`), and each of the
four follows the graph and keeps the record true of the row.

`LimitHolds` assumes `LimiterConstants`: finitely many requests, bounds that are
natural numbers, a Redis counter that is not a process. The limit says nothing
about the counters, and the counters may be reset: `Expire` sets one back to zero
after its requests have passed. The inductive invariant (`IInv` of `RateLimiterProofs`) therefore bounds
what has passed by the counter only while the counter can still be asked: the
counter of a minute in Redis until the call of a request of that minute can no
longer be open (`SharedCovers`), the bucket of a key while its window is the
current minute (`LocalCovers`); what has passed in the past is within the limit
because it was when its minute ended. A step that lets a request pass adds one to
both sides, or one to the counter alone when the reply is lost.

`OverflowBounded` adds that a table tracks finitely many keys (`TrackedInv`): a
table that is full is cleaned before it grows, so what is left when it outgrows its
bound is of the minute in which it is cleaned. `NobodyRefusedEarly` is the limit
from the other side: a bucket counts no request that did not pass before the limit
was reached (`BucketFills`), and what has passed is never taken back.

`GatesLinked` and `NothingUndone` assume `LinkageConstants`. A request carries a
copy of the row it read; versions only grow, a code is never used twice, and the
facilities a reservoir has had are never forgotten (`Forward`). So a copy either
agrees with its row in what the edit leaves alone or is behind it, and then fails
the version check (`WriteSound`), while a link that was checked once stays in a
facility its reservoir has had (`LinkSited`).

`SeedOrdered` needs to know where the other instances are: one that counts or
fills a table has found all earlier ones filled, and a table once filled is never
empty again, only hidden (`SeedInv`). `EvidenceApproved` adds that only the table
of the directives is approved, by the instance that wrote it, unless it fails
(`ApprovingDirectives`). `SeedContinued` holds because an instance is refused only
at a table that is filled: the one at the first empty table goes on, and whoever
outruns it takes its place (`AtWork`).

The proofs about `Session` assume `AccessConstants` and `SessionConstants`: the
seeded accounts have distinct ids, the routes of the instance are not the login.
`RightsKept` follows a request from the read of the account row to its effect: the
role it was admitted with is among those held since it was sent (`RightsInv`).
`OneAccountKept` follows the token: the request a starting page waits for carries
the token of the session it captured, and is answered about the account of that
token, so the merge is about one account (`BootInv`). `WriterKept` needs no more
than the types: each step that writes the store shows the writer the same session.
`LoadingAwaited` ties the calls to what their tab is doing (`AskInv`): a free call
belongs to nobody, a reload disowns whatever its page waited for, and the one call
of a booting page is its question. It is the safety half of `LoadingEnds`, which
adds that the answer comes.

The proofs about `Page` assume `PageConstants`. What the page shows, asks and sends
are copies of the record (`Copy`): never ahead of it, and the record itself if the
version is the same, because every move of the record gives it the next version
(`CopiesKept`). A record that was loaded and is pending has a submitter (`Sound`),
so a button for an approval and the server's check of it agree; the empty list,
whose version no record has, offers nothing. What the user confirmed was a button
of its copy (`Offered`), and a request that passed the server's checks carries the
gate it was checked with, if the record is still the one it was confirmed on
(`Carried`). `AppliedOnce` follows: a transition that passes the version check was
confirmed on the record as it is. For `ButtonsAreRules`, button and check of the
record agree (`ButtonsAllowed`), and of the three checks on the gate only the two of
`GateInTheWay` ever refuse (`GateObstacles`). `RefusalsExplained` needs both: on the
record as it is the server refuses at the check only for the gate, and in the
transaction only because the gate it has to write is no longer the one it read.

Left to TLC is liveness (`KeepsServing`, `CatchesUp`, `LoadingEnds`), which is out
of the prover's reach; every safety property of a passing run is proved. Nothing
recursive is used.

## 5. Not modelled

- *Formats and validation of forms, error-to-status mapping, paging, searching,
  summaries and histories, request ids and logs.* They keep no state: each is a
  pure function of one request, with unit tests. What a form may ask for enters
  the models as constants (`Target`), the roles of the routes as `RouteRoles`.
- *Configuration.* One process reads its environment once; a configuration that
  is refused, or that makes a start fail, is `Fail` of `Startup`.
- *Container wiring and scripts*, except the restart policy.
- *The create form of a page.* It sends one request, which the dispatch models;
  its button is disabled meanwhile.
- *The facilities of directives and receipts.* A directive's is compared with its
  gate's when it is drafted, a receipt's is copied from its directive; the
  comparison goes stale in the same way as that of a gate with its reservoir,
  which `Linkage` models.
- *`AutoMigrate` running in two instances at once*: the behaviour of the database
  and of gorm, not of this code.
- *Liveness of the dispatch.* No request waits for another one, so a request ends
  because its goroutine runs, and a directive moves on only if people act; there
  is no promise of the code beyond that. Where a directive can get stuck for good
  (a gate deleted under it, its only receipt deleted while pending) `abort_active`
  and the hazards say so.
- *One composition of everything.* `Session` and `Dispatch` meet in the principal
  of a request: the dispatch takes any account with a role its guards accept, and
  `RightsAreCurrent` says which accounts reach it. Composing them would multiply
  the states without a property that relates the two.

Open ends, in the order in which they would add most: two gates, so that editing a
directive can move it from one to the other while both are written; the facilities
of directives and receipts in `Linkage`.
