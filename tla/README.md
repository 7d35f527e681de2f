# A TLA+ model of the integration engine

The integration engine is a FastAPI service: HTTP handlers that run as coroutines of one
event loop per process, over one PostgreSQL database, and call the endpoints that
integrations are configured with. What is hard about it is not in any one handler. It is
that every handler loads rows, computes from its copies, awaits, and writes back, while
other handlers (of the same or of another process) do the same.

## The system

| Part | Source | State | Operations |
|---|---|---|---|
| Sync execution | `app/services/sync_engine.py`, `app/routers/sync.py`, `app/routers/integrations.py` | rows of `integrations` and `sync_jobs` | create an integration, configure a job, trigger a job, trigger an integration, `run_sync_job` |
| Webhooks | `app/routers/webhooks.py`, `app/services/webhook_signature.py` | rows of `webhooks`, their counters | register, receive |
| Templates | `app/routers/templates.py` | none of its own (the catalog is read-only) | install: creates an integration |
| Sessions and transactions | `app/database.py` | one session per request; SQLAlchemy's copies of rows; PostgreSQL's row locks | flush, commit, refresh, close |
| Tenant scoping | `app/middleware/tenant.py`, `app/tenant_context.py`, `app/models/tenant_base.py`, `app/database.py:29-67` | the context variable of a request; `tenant_id` of a row | set or clear, filter a SELECT, stamp a new row |
| Boot | `app/main.py`, `init_db`, `app/seed_templates.py` | the tables, the catalog | create tables, seed |
| Connection pool | `app/database.py:13`, through every handler | the connections of a process | check out at a session's first statement, give back at the end of a transaction, time out |
| Scripts | `scripts/` | `tenants`, every `tenant_id` | create the default tenant, move all rows to it |
| Credentials | `app/services/encryption.py`, `app/models/credential.py` | rows of `credentials` | encrypt on creation; nothing reads them back |
| Lists | `list_integrations`, `list_webhooks` | none | cut a page by OFFSET and LIMIT |

The parts interact through the database only. Sync execution and templates write
`integrations`; sync execution alone writes `sync_jobs`; the receiver alone updates
`webhooks`. A webhook delivery does not start a sync, and no scheduler reads
`next_sync_at`: a sync runs because a client asked for it.

What the repository's README names and the code does not have, so that there is nothing to
model: `DELETE /integrations/{id}` (no row is ever deleted), retries, rate limits, OAuth,
Redis, the global state manager. `SyncStatus.CANCELLED`, `WebhookStatus.INACTIVE` and
`WebhookStatus.ERROR` are never assigned.

### What makes each part correct

*Sync execution.* An integration is run by one request at a time. What the tables show is
the outcome of finished runs, after crashes too. A job that has run stays run, and shows
both its stamps. The two tables agree on when an integration was last synced, and on when
it is next due. Requests that wait for rows do not wait for each other in a circle. The
bookkeeping of errors is exact when requests do not overlap, and never wrong in the wrong
direction when they do.

*Webhooks.* A sender is told what was persisted. A delivery that is answered 200 was
verified with the secret of the webhook it was counted for. Counters never run ahead of
receipts.

*Tenant scoping.* A request that names a tenant never sees or changes another tenant's row,
nor one that has no tenant; what it creates belongs to its tenant. A request that names
none runs as nobody, whatever the one before it left in the context.

*Scripts.* One default tenant, however often the script is run. The migration misses no row
that had no tenant when it began, and mixes no tenants but the default one.

*Boot.* However many replicas boot at once and wherever they die, the catalog is empty or
complete, and holds no name twice; no replica serves before it is; every replica comes up in
the end.

*Connection pool.* Nobody waits for a connection while holding a row. What the pool's
timeout ends was not half done. Endpoints that hang hold up nobody but the runs of their own
integrations.

*Credentials.* As long as there is one key, whoever has it reads all that was stored, also
what was stored while there was none.

*Lists.* A client that pages misses no more rows than have left the list, and sees no more
twice than have joined it.

`PROJECT.json` lists the hazards, each at its line, with the properties that cover it.

## Modules

| Module | Models |
|---|---|
| `Orm` | which columns an UPDATE of SQLAlchemy writes |
| `SyncContract` | what the sync subsystem promises: outcomes, owners, runners |
| `SyncEngine` | sync execution; it implements `SyncContract` |
| `SyncEngineProofs` | proofs about `SyncEngine`: types, locks, who runs what, the refinement |
| `SyncBookkeepingProofs` | proofs about what its tables record: stamps, dates, counters, answers |
| `PooledSync` | `SyncEngine`'s handlers over the connection pool of a process |
| `PooledSyncProofs` | the proofs about `PooledSync`, from those about `SyncEngine` |
| `WebhookReceiver` | registration of webhooks, and the receiver |
| `WebhookReceiverProofs` | the proofs about `WebhookReceiver` |
| `TenantScope` | the tenant of a request, of a statement and of a row, under all the handlers |
| `TenantScopeProofs` | the proofs about `TenantScope` |
| `TenantMigration` | the two scripts; it extends `TenantScope` and runs beside its handlers |
| `TenantMigrationProofs` | the proofs about `TenantMigration`, from those about `TenantScope` |
| `Boot` | what a process does before it serves |
| `CredentialVault` | how credentials are stored and read back (operators, no state) |
| `Listing` | a client that pages through any list of the service |
| `Service` | the life of a deployment; it extends `Boot` and `CredentialVault`, and instantiates `Listing` with the active integrations |
| `ServiceProofs` | the proofs about `Service` |
| `MC*` | small sets and symmetries for TLC |

### How `SyncEngine` corresponds to the code

A step of a handler ends where it awaits the database or the endpoint; what it does to its
objects in memory between two awaits happens in one step. The steps of a request that runs
a job, by `pc`:

| `pc` | action | code |
|---|---|---|
| `new` | `RejectUnknown`, `RejectFinished`, `TriggerJob` | `routers/sync.py:123-126` |
| `new` | `TriggerIntegration` | `routers/integrations.py:116-122`, then `sync_engine.py:27-29` |
| `loaded` | `LoadIntegration` | `routers/sync.py:128`, then `sync_engine.py:27-29` |
| `flushing` | `FlushIntegration` | `sync_engine.py:30`, the first UPDATE |
| `locked` | `FlushJob` | `sync_engine.py:30`, the second UPDATE |
| `running` | `FailNoUrl`, `CallFails`, `CallSucceeds`, `Raise` | `sync_engine.py:32-91` |
| `returned` | `Commit` | `routers/sync.py:136`, `routers/integrations.py:126` |
| `committed` | `Answer` | `routers/sync.py:137-140` |
| any | `DatabaseError`, `Crash` | the `except` clauses; the container's restart |

`CreateIntegration`, `InstallTemplate` and `ConfigureSync` end in one commit of a new row
and are one step each. That a row exists stays true, so nothing is lost by it.

*Two kinds of state.* `integrations` and `sync_jobs` are the committed tables.
`orm_integration[r]` and `orm_job[r]` are the objects in the session of request `r`, with
the values last loaded or flushed; `tx_integration[r]` and `tx_job[r]` are the versions of
the two rows that `r` has written and not committed.

*Columns.* SQLAlchemy writes the columns whose value changed from the one it loaded. Under
READ COMMITTED the others keep what the row holds when the UPDATE gets its lock. So a run's
first flush writes `status` of the integration to the row *as it is by then*, while the
run's `error_count` is the copy's plus one. `Written` models it. Most of what overlapping
runs do right or wrong comes from here.

*Locks.* An UPDATE locks its row until the transaction ends. The unit of work updates
`integrations` before `sync_jobs` because the second refers to the first. The insertion of
a job takes only a key-share lock on its integration, which an UPDATE that leaves the key
alone does not wait for. `Unlocked`, `LetGo` and `Forget` are the database's and the
library's part, marked external in `PROJECT.json`.

*Time.* `now` ticks at each stamp that a run takes, so the stamps of different runs differ;
the code uses `datetime.utcnow()`, and the model assumes a clock that does not step back.
An hour of an interval is one tick: all that the properties need is that the next sync is
the interval after the last. `Dates` is what a `datetime` can hold.

*Data.* `config` is reduced to its `sync_url`: "none", "malformed" for one that httpx cannot
parse (`InvalidURL`) or that is no string (`TypeError`), "valid" for the rest. A string that
httpx parses and cannot use, such as one without a scheme, is among the rest: its
`UnsupportedProtocol` is an `HTTPError`, so it ends like an endpoint that cannot be reached
(`CallFails`). A failure message is reduced to its reason, a response to its number of
records. Names, providers, durations,
metadata, credentials and the other counters (never written) are left out.

*Faults.* `DatabaseError` ends a request with a 500 at any of its steps; before the commit
this rolls its transaction back, after the commit what was committed stays. `Crash` ends
all the requests in flight at once.

*Close and answer.* `get_db` closes the session in the exit stack of FastAPI 0.104.1, whose
middleware is the innermost one, inside the handlers of exceptions. So an exception unwinds
it first and is answered afterwards (404, 409, 500: `RollBack` closes, then answers), while
a success has its answer before the close. In the first case the two are one step: nobody
else sees the difference, and a process that dies between them has rolled back and answered
nothing, as if it had died just before. In the second what is left open is the transaction of
the refresh, which locks no row; it only keeps a connection, and `PooledSync` has the step
(`Close`).

### How `PooledSync` corresponds to the code

`database.py:13` creates the engine with SQLAlchemy's defaults: a pool of 5 connections and
10 more, `PoolLimit` together, and a timeout of 30 seconds for who finds it empty. A session
asks for a connection at its first statement (`Ask`, `CheckOut`, or `TimeOut`, which
surfaces as any exception of a handler does: a 500) and gives it back when it commits, or
when an exception closes it (`Ends`, `GiveBack`). The refresh behind a commit is a statement
of a new transaction and asks again; its connection comes back when the session of a request
that has been answered is closed (`Close`). A handler has one session, so one connection at a
time.

`Work(r)` is a step of `SyncEngine` by a request that has a connection; `RejectUnparsed` is
the 404 for an identity that is no UUID, which reaches no statement. `PooledConfigure`
stands for handlers that need a connection within their one step. `PooledCrash` is
`SyncEngine`'s `Crash`, and also a crash while all requests are still waiting to begin. The
pool is one process's, so this module is about one process; `SyncEngine` itself is about any
number. Who waits is not served in order: a request that comes when a connection is given
back may overtake.

The call of an endpoint, `OnTheWire(r)`, may last for ever: `timeout=30.0` is a limit for
each of httpx's operations (connect, write, read, pool) and not for the call.

### How `WebhookReceiver` corresponds to the code

| `pc` | action | code |
|---|---|---|
| `new` | `SelectExact` | `routers/webhooks.py:123-125` |
| `fallback` | `SelectAny` | `routers/webhooks.py:127-133` |
| `loaded` | `Verify`, `VerifyRaises` | `routers/webhooks.py:135-141` |
| `rejected` | `Reject` | `routers/webhooks.py:141-144` |
| `refused` | `Refuse` | `routers/webhooks.py:145` |
| `accepted` | `Accept` | `routers/webhooks.py:147-149` |
| `committed` | `Answer` | `routers/webhooks.py:150-159` |

`.first()` of a query without ORDER BY is a choice of any row that matches. A signature is
abstracted to the secret that made it: the properties ask whether it was made with the
webhook's secret, not how HMAC works. `"garbled"` stands for a header that is not ASCII,
for which `hmac.compare_digest` raises. An UPDATE and the COMMIT behind it are one step:
the row is locked in between, and another UPDATE of it waits. `receipts` is a history
variable: what was committed, counted by the model itself. Initially some webhooks without
a secret may exist, as the validator's comment says of earlier registrations.

### How `TenantScope` and `TenantMigration` correspond to the code

`TenantScope` crosses the other modules: it keeps of each row its table, its tenant and the
integration it refers to, and of each handler what it loads, writes and refreshes. Its
actors are not requests but *chains*: sequences of requests that are served one after the
other in one context, where `tenant_context` keeps what the last one left. There is no
bound on the requests of a chain.

| action | code |
|---|---|
| `Enter` | `middleware/tenant.py:42-87`; a header that is no UUID is answered 400 and does nothing |
| `Load`, `List`, `LoadIntegrationOfJob` | the SELECTs, each through `Visible` (`database.py:29-67`) |
| `CreateIntegration` | `create_integration`, and `install_template` when there are no credentials |
| `Attach` | `configure_sync`, `register_webhook` |
| `TriggerIntegration`, `TriggerJob`, `ReceiveWebhook` | the handlers that update what they have loaded, up to their commit |
| `Answer` | `db.refresh` and the answer |
| `End` | a 404, a read-only answer, an insertion that the foreign key refuses, any failure |

A header may name a tenant that does not exist (`Strangers`): it is let in, sees nothing,
and can insert nothing (`MayInsert`, the foreign key). `writer` is a history variable: the
tenant that the last writer of a row named.

`TenantMigration` adds two processes. Each run of `create_default_tenant` looks for the slug
and then inserts it (`LookForDefault`, `InsertDefault`); `d \in Defaults` is the identity it
would insert. `migrate_to_default_tenant` finds the default tenant, then selects and updates
one table after the other in `Order`, then commits. What it has updated it keeps locked
(`moved`): a handler's UPDATE of such a row waits (`Serve`), and its SELECT still sees the
old tenant. `AbortMigration` is an error or a killed script; another run may follow.

### How `Boot` and `Service` correspond to the code

| `phase` | action | code |
|---|---|---|
| `off` | `Start` | `main.py:20-26`; the container's restart |
| `looking` | `LookForTables` | `create_all` looks for what is there |
| `creating`, `created` | `CreateTables`, `CommitTables` | `create_all` creates the rest; `engine.begin()` commits |
| `selecting` | `LookForTemplates` | `seed_templates.py:68-70` |
| `seeding` | `InsertTemplate`, `CommitTemplates` | `seed_templates.py:72-74` |
| `creating`, `seeding` | `FailBoot` in `CreateTables`, `InsertTemplate` | a table or name that another boot committed; `database.py:85-87`: the exception is raised again and ends the process |
| `looking` to `seeding` | `RaiseInBoot` | any other exception of `init_db`, with the same end |
| any but `off` | `Crash` | the process dies |

The tables are created in one transaction, so they are one state variable; a CREATE that
meets one that is not committed waits, and fails if the other commits. The rows of the
catalog go in one after the other in the order of `_CATALOG`; `name` is unique
(`integration_template.py:27`), so one that another session has inserted makes this one
wait, and one that is committed makes it fail. `Orphan` is the session of a process that is
dead: PostgreSQL keeps its transaction until it notices, and finds in it a COMMIT that was
on its way, or nothing. (A boot that fails because the answer to its COMMIT never came
leaves such a session as well, so it is `Crash` and not `RaiseInBoot`.) One orphan is
enough: two sessions cannot both have inserted the first name. The model orders nothing
between the orphan and a successor but the locks.

In `Service`, `Restart` is `Start` with a setting of ENCRYPTION_KEY: a valid Fernet key
(`Keys`) or not (`Unusable`; empty and malformed ones have the same effect). A row of
`StoredCredentials` is what `encrypt_credentials` returned; that Fernet decrypts with the
key it encrypted with, and with no other, is the meaning of `Readable`.
`decrypt_credentials` has no caller in the service, so it is an operator of a property and
not an action.

An integration is named by its `created_at`, which the flush stamps (`Flush`); the commit
makes the row visible later (`CommitIntegration`), perhaps after rows with later stamps.
Stamps are distinct. `EndSync` is all that is left of `SyncEngine` here: a commit that makes
an integration active or puts it in error. `Client` is `Listing` over `Active`, the list
that `GET /integrations/?status=active` cuts: `ReadPage` is one request, and the client
asks for the next page until one is empty. `known`, `arrivals` and `departures` are
history: the rows that have been in the list since the client began, and how many have
joined and left since.

Operators named `Action_Change` are an action or a helper with one plausible bug; no
specification uses them. `PROJECT.json` names, for each property of each run, the bug that
the property detects: with the bug in place of the definition TLC finds a violation.

## Runs

| Run | Expect | What it shows |
|---|---|---|
| `sync_concurrent` | pass | three overlapping triggers, one integration, two jobs, crashes and failing statements: the invariants and action properties below, and `SyncContract` |
| `sync_sequential` | pass | four triggers one after the other, all kinds of URL and interval: exact bookkeeping |
| `sync_liveness` | pass | three overlapping triggers of two integrations, several of one job among them, over a pool of two connections, calls that may hang: who waits for what, and that all requests end if calls do |
| `sync_run_twice` | violation | a completed job is run again by a trigger that overlapped the first |
| `sync_not_terminal` | violation | a `sync_url` that httpx cannot parse leaves a configured job that was triggered pending |
| `webhook_concurrent` | pass | three overlapping deliveries, two webhooks, registrations meanwhile |
| `webhook_sequential` | pass | three deliveries one at a time, two integrations: receipts counted exactly |
| `webhook_lost_receipt` | violation | two overlapping deliveries, one receipt counted |
| `tenant_scope` | pass | two chains, two tenants, a stranger and callers without a tenant: isolation |
| `tenant_migration` | pass | two runs of `create_default_tenant` and a migration beside a live chain of callers of two tenants |
| `migration_moves_owned` | violation | the migration takes a row from the tenant that owns it |
| `service` | pass | two replicas that boot, die and restart with or without a key, two integrations, a client that pages: the catalog, the credentials, the pages |

### Properties of overlapping requests

- `OneCallPerIntegration`: no two requests call the endpoint of an integration, or hold an
  uncommitted result for it, at once.
- `NothingRunningIsPublished`: RUNNING and SYNCING are never committed, so no crash leaves
  them behind. A consequence: nobody ever *sees* them either, and the 409 of `/trigger`
  is only ever for a completed job.
- `JobLockUnderIntegrationLock`: rows are locked in one order.
- `TerminalJobsAreStamped`, `CompletedJobsAreCovered`, `NextSyncFollowsLastSync`,
  `LastSyncNeverGoesBack`: stamps and dates, within and across the two tables, although
  runs that loaded the rows in one order commit in another.
- `ErrorCountBounded`, `CountersAreBounded`: racing writers lose increments. What remains
  true is that a counter is never ahead of the events, and is 0 only while there were none.
- `AnswersAreDurable`, `AnswersAreReceipts`: what a client is told was persisted.
- `TerminalStays`: a job that has run never shows as pending again.
- `ImplementsContract`: the refinement of `SyncContract`.

### Properties of the pool

- `LockHoldersNeverWait`: a request that holds a row is not waiting for a connection. With
  `JobLockUnderIntegrationLock` this orders everything a request may hold: a connection, then
  an integration, then a job.
- `TimeoutsAreWholeOrNothing`: a request that the pool dismissed has no job, or has committed
  its outcome. The client cannot tell which from the 500.
- `SlowEndpointsHoldTheirOwn`: although calls may hang for ever, a request that hangs is of an
  integration whose endpoint is being called. Others are served or dismissed.
- `EveryRequestEnds`: if calls end (`CallsEnd`), so does every request, and the liveness part
  of the contract (`Released`) holds: an integration that is being run is given back.

### Properties of a deployment

- `CatalogIsWhole`, `EveryReplicaComesUp`: of the boots, see above. The second needs the
  first: a replica that loses the race fails, and finds the catalog whole the next time.
- `CredentialsStayReadable`: with at most one usable key in the history, across restarts
  without it. With two keys nothing is promised: a row does not say which one it needs.
- `PagesDriftWithTheList`: missed rows are bounded by departures and repeated ones by
  arrivals. So nothing is missed while rows are only added, also when they are committed out
  of order; a filter on `status` is what makes rows leave.

### Properties of requests that do not overlap

`ErrorCountExact`, `StatusMatchesLastError`, `RecordsAgree`, `CompletedIsFinal`,
`ReceiptsAreCounted` and `LastErrorIsLastVerdict` hold with `MaxInFlight = 1`. With
overlapping requests each of them fails, for the reasons listed under "hazards". Two of the
failures contradict what the repository's tests say of the program and are findings;
the others are races that the repository promises nothing about.

### Properties of tenants

- `HandlersRunAsTheirCaller`: the context of a handler is what its own request named.
- `SessionsHoldOwnRows`, `WritesStayHome`: a request with a tenant holds and writes rows of
  its tenant only. Writes go through other rows (a job's integration, an integration's
  webhook), so the second is not a case of the first.
- `ChildrenFollowParents`: a child with a tenant is of an integration of the same tenant. A
  child without one may be of any integration: callers without a header are not scoped.
- `RefreshFindsTheRow`: the filter never hides from a handler the row it has committed.
- `OneDefaultTenant`, `UnownedRowsAreMoved`, `OnlyTheDefaultTenantMixes`: see "Scripts"
  above. The second is what the script's docstring promises, about rows without a tenant; of
  rows that have one see finding 4. `ChildrenFollowParents` does *not* survive the
  migration, and the last of these says how far it fails: a handler that commits between two
  tables leaves a child and its integration on different sides, but one side is the default
  tenant's.

### Findings

1. *A completed job runs again* (`sync_run_twice`). `routers/sync.py:125` checks the status
   of the row as loaded; the run then waits at its flush for the row lock of the first run,
   and nothing checks the status again.
2. *`run_sync_job` does not always leave a terminal state* (`sync_not_terminal`). Its
   docstring says that it always does. Only `httpx.HTTPError` is caught, and
   `httpx.InvalidURL` and `TypeError` are none: the request answers 500, the run is rolled
   back, and a job that `configure_sync` had stored and `/trigger` ran stays pending, with no
   trace of the attempt. Of a job that `POST /integrations/{id}/sync` created nothing is
   left; the property speaks of stored jobs only.
3. *A receipt is not counted* (`webhook_lost_receipt`). The counter is incremented in
   memory.
4. *The migration moves rows that have a tenant* (`migration_moves_owned`). Its docstring
   says that it moves those that have none; the UPDATE has no WHERE.

### Bounds, and why they are enough

`sync_concurrent`: one integration, because requests of different integrations share no
row and no lock (a job belongs to one integration); two jobs, so that two requests can want
the same job or different ones of the same integration; three requests, so that a request
can load before, wait behind, and commit after two others. One direction and the interval 0,
because neither affects how requests interleave. `Requests` bounds the number of triggers,
`MaxInFlight` how many overlap; both are named constants. `now` is bounded by them.

`sync_sequential` gives up overlap (`MaxInFlight = 1`) for data: all three kinds of
`sync_url`, and intervals that are negative, 0, and past the last date; four
requests, so that an integration can fail, recover, fail again and be triggered again.

`sync_liveness` uses no symmetry. Two integrations, so that a request can be of another one
than the request that hangs; a pool of two connections and three requests, so that the pool
can be full of runs of one integration (one calling, one behind it) while the third waits.
The process starts with one integration installed and one job configured for it
(`Restarted`), so that two or all three requests can trigger the same job while others run
new ones; the other integration is installed during the run, and further jobs come from runs
(`Intervals` and `Directions` are empty). Calls that end do so with success: an ending with
an error is the same to locks and connections. The two safety properties are proved for all
values.

`service`: two replicas, because the races of a boot are between two sessions and the locks
make a third one wait behind them; an orphan and two crashes, so that a successor of a dead
process can die too (other exceptions of a boot share the bound, `MaxFaults`); a catalog
of two names, so that it can be half inserted; two keys and
one setting that is none; two integrations and pages of one, so that one row can push the
other across a page's edge; `MaxDrift` bounds how often syncs change the list. The three
invariants are proved for all values.

`webhook_concurrent` and `webhook_sequential` divide the work in the same way.

`tenant_scope`: two tenants and a stranger, because isolation is about pairs of tenants; two
chains, for interleavings of two requests; four rows, for an integration with its credential
and two more children, or two integrations with a child each. Chains go on for ever, so every
order of callers in one context is covered.

`tenant_migration`: two ordinary tenants, so that those two could mix and not only one of
them with the default tenant, beside the two possible default ones; three rows, one chain.
The chain and the scripts are the actors that interleave; `tenant_scope` has the
interleavings of chains among themselves.

No run switches deadlock checking off: `Idle` is the only step that stands for waiting, and
it is possible only while nothing is in flight, so a circle of waiting requests would be
reported as a deadlock.

### Fairness

`PooledFairness` assumes four things of each request, as weak fairness: the event loop
resumes a coroutine whose await is over, and a transaction's next statement runs once the
row lock it needs stays free (`~OnTheWire(r) /\ Work(r)`); who waits for a connection gets
one or is dismissed after the pool's timeout (`CheckOut(r) \/ TimeOut(r)`); a request that
has committed goes on to its refresh (`Ask`); and FastAPI closes the session of a request
that has been answered (`Close`). It assumes nothing of calls: that they
end is the premise `CallsEnd` of the one property that needs it. Weak fairness of waiting is
enough, although who waits can be overtaken, because requests are finitely many: each takes
its row once and a connection twice. Nothing is assumed of arrivals, failures or crashes.

`ServiceFairness`: the container restarts a process that has ended (`restart:
unless-stopped`), a boot goes on when what it waits for is over, and PostgreSQL ends the
transactions of dead processes. `EveryReplicaComesUp` holds because crashes and exceptions
of boots other than a lost race are finitely many (`MaxFaults`): it says what happens once
they stop. Clients are assumed to do nothing.

## Proofs

*Sync execution.* `SyncEngineProofs` proves, for all sets of integrations, jobs and
requests, all values of the other constants, and any number of overlapping requests, crashes
and failing statements:

| Theorem | States |
|---|---|
| `Invariance` | `Spec => []Inv`, the inductive invariant |
| `TypeCorrect` | `Spec => []TypeOK` |
| `RunsAreSerial` | `Spec => []OneCallPerIntegration` |
| `LockOrder` | `Spec => []JobLockUnderIntegrationLock` |
| `OnlyOutcomesArePublished` | `Spec => []NothingRunningIsPublished` |
| `JobsKeepTheirEnd` | `Spec => TerminalStays` |
| `Refinement` | `Spec => ImplementsContract` |

From the assumptions of `SyncEngine` on its constants: `NULL` is none of the identities,
numbers or rows; the kinds of `sync_url` are the three; intervals and dates are integers;
record counts are naturals. They hold of the program by construction (None is no UUID).

None of the safety properties is inductive. `Inv` adds to `TypeOK` what makes them so:

- `SessionsOK`: what a request has in its session at each step. A request that has returned
  from `run_sync_job` holds a terminal job and an integration that is active or in error;
  one that has committed finds its job in the table, terminal.
- `ReferencesOK`: nothing dangles. Jobs refer to integrations that exist, all requests of a
  job agree on its integration, and a job that is not committed yet is known to one request
  only. Without the last part, two requests could publish one job for two integrations.
- `LocksOK`: the lock of a row and the step of its holder determine each other. This is what
  turns "the row is locked" into "nobody else is at that step".

Each is shown to be preserved by every action (`TypeStep`, `SessionsStep`, `ReferencesStep`,
`LocksStep`); `OthersAreStill` and `ReleaseOK` say once, for all actions, that what a
request does to its own session and locks leaves the others' as they were. The theorems
follow from `Inv`; `JobsKeepTheirEnd` and `Refinement` also need the step. In the
refinement `FlushIntegration` is the contract's `Begin`, `Commit` its `Finish`, a rollback
its `Abandon` when the request holds the row and a stutter when it does not, `ConfigureSync`
its `Configure`, `Crash` its `Crash`, and every other action a stutter.

*What the tables record.* `SyncBookkeepingProofs` proves, for the same constants:

| Theorem | States |
|---|---|
| `Bookkeeping` | `Spec => []BookInv`, the second inductive invariant |
| `FinishedJobsAreStamped` | `Spec => []TerminalJobsAreStamped` |
| `LastSyncCoversJobs` | `Spec => []CompletedJobsAreCovered` |
| `NextSyncIsDue` | `Spec => []NextSyncFollowsLastSync` |
| `NoFailureIsInvented` | `Spec => []ErrorCountBounded` |
| `AnswersStayTrue` | `Spec => []AnswersAreDurable` |
| `SyncsOnlyAdvance` | `Spec => LastSyncNeverGoesBack` |
| `SequentialBookkeeping` | `MaxInFlight = 1 => (Spec => []SequentialInv)` |
| `EveryFailureIsCounted` | `MaxInFlight = 1 => (Spec => []ErrorCountExact)` |
| `StatusTellsTheError` | `MaxInFlight = 1 => (Spec => []StatusMatchesLastError)` |
| `CountsOfAJobAgree` | `MaxInFlight = 1 => (Spec => []RecordsAgree)` |
| `CompletedJobsStay` | `MaxInFlight = 1 => (Spec => CompletedIsFinal)` |

`BookInv` is inductive together with `Inv`. It says what a run carries towards the tables at
each step (`RunsOK`): a copy is as old as its load, so its `error_count` is at most the
failures published by now; its interval is the row's, because no handler changes an
interval; and the dates of the uncommitted row of a run that holds the lock are those of the
published row until the run ends. The last is where the lock matters: with it, the date a
run commits is not older than the one it replaces, although runs load in one order and
commit in another. That a failed job keeps a message although an unchanged column is left
out of the UPDATE needs `HasMessage`: where the copy shows a message the row has one, so a
message that is not written is already there. Each conjunct has a lemma per action.

With `MaxInFlight = 1` the counters and messages are exact. `SequentialInv` says that at
most one request is in flight, that the tables tell what the runs did, and that the copy of
the one request is still the row. `MaxInFlight` bounds how many requests are in flight, so
the theorems say what the code promises when they do not overlap; the runs and findings say
what it does not when they do.

*Webhooks.* `WebhookReceiverProofs` proves, for all webhooks, events, secrets and
deliveries:

| Theorem | States |
|---|---|
| `Invariance` | `Spec => []Inv`, the inductive invariant |
| `TypeCorrect` | `Spec => []TypeOK` |
| `CountersNeverRunAhead` | `Spec => []CountersAreBounded` |
| `AnswersAreKept` | `Spec => []AnswersAreReceipts` |
| `SequentialInvariance` | `MaxInFlight = 1 => (Spec => []SequentialInv)` |
| `NoReceiptIsLost` | `MaxInFlight = 1 => (Spec => []ReceiptsAreCounted)` |
| `LastErrorIsCurrent` | `MaxInFlight = 1 => (Spec => []LastErrorIsLastVerdict)` |

The bounds on the counters are not inductive: that a counter does not exceed the receipts
needs the same of the copies that deliveries in flight have loaded (`CopyOK`), and that it
is not 0 after a receipt needs that what a verdict adds to a copy makes it positive. Answers
need that a verdict which is committed is counted although its answer is still to come
(`CountedAsFailed` of a delivery at `refused`, for instance), that a webhook keeps its
secret and its integration, and that no counter returns to 0 (`RowsKept`), which is what a
delivery that has answered relies on when others write its row after it. The proofs need
that `NULL` is none of the verdicts and answers, which `WebhookReceiver` assumes besides
what it assumed of its other constants.

*The pool.* `PooledSyncProofs` proves, for all values of the constants and a pool of any
size:

| Theorem | States |
|---|---|
| `PooledInvariance` | `PooledSpec => []PoolInv`, the inductive invariant |
| `PoolRefinesSync` | `PooledSpec => Spec` |
| `NoWaitUnderLock` | `PooledSpec => []LockHoldersNeverWait` |
| `TimeoutsStrikeNoRun` | `PooledSpec => []TimeoutsAreWholeOrNothing` |

`PoolInv` is `Inv` of `SyncEngine`, that a request in a transaction has a connection and one
that waits for a connection is in none, and the second property. By `PoolRefinesSync` the
theorems about `SyncEngine` hold of the handlers over a pool.

*A deployment.* `ServiceProofs` proves, for any number of replicas, any catalog without a
name twice, any keys, finitely many integrations and any page size:

| Theorem | States |
|---|---|
| `ServiceInvariance` | `ServiceSpec => []Inv`, the inductive invariant |
| `ServiceTypeCorrect` | `ServiceSpec => []ServiceTypeOK` |
| `CatalogStaysWhole` | `ServiceSpec => []CatalogIsWhole` |
| `CredentialsAreReadable` | `ServiceSpec => []CredentialsStayReadable` |
| `PagesDrift` | `ServiceSpec => []PagesDriftWithTheList` |

For the catalog, `BootOK` adds that only one session at a time has rows that are not
committed, and only over an empty catalog: that is what the unique names give, and with it
a COMMIT turns empty into whole. For the credentials, `KeysOK` adds that the key of a
process and of a row is in the history. For the pages no strengthening is needed but a
counting argument: the rows of a list that cross the client's offset forwards when the list
changes are at most as many as leave it (`FewCross`). Their places are different
(`FrontShrinks`), begin at the offset, and lie less than the number of departures behind it,
since no row moves ahead by more than that (`FrontLoses`). `DriftIsBounded` uses it in both
directions. The proofs need that stamps are numbers and that there are finitely many.

*Tenant scoping.* `TenantScopeProofs` proves, for all sets of rows, tenants, strangers and
chains:

| Theorem | States |
|---|---|
| `TenantInvariance` | `Spec => []Inv({})`, the inductive invariant |
| `TypeCorrect` | `Spec => []TypeOK` |
| `ContextIsTheCallers` | `Spec => []HandlersRunAsTheirCaller` |
| `RowsStayInPlace` | `Spec => [][RowsStand]_vars` |
| `OnlyOwnRowsAreHeld` | `Spec => []SessionsHoldOwnRows` |
| `OnlyOwnRowsAreWritten` | `Spec => []WritesStayHome` |
| `ChildrenAreOfTheirTenant` | `Spec => []ChildrenFollowParents` |
| `CommittedRowsAreFound` | `Spec => []RefreshFindsTheRow` |

Its assumptions are that `NULL` is no row, tenant or stranger, and that strangers are not
tenants. `Inv` adds to the properties what each step of a handler has in its session
(`ObjectsOK`), that a job, webhook or credential refers to a row (`ParentsOK`) and a row's
tenant to the table of tenants (`TenantsExist`). It has a parameter, the tenants that rows
may have been moved to behind the handlers' back: none in a service alone, so `Inv({})`
gives the properties as they are stated; every step of a handler preserves `Inv(D)` for any
`D` and leaves the rows that are there in place (`NextOK`). The argument has two lemmas.
`ReadersOK`: a step that changes no row preserves `Inv(D)` if what it adds to its session
passed the filter. `CommitOK`: a transaction preserves it if the rows it inserts are stamped
by the caller and refer to a row of its session or to one inserted with them, and those it
updates are of its session. Every action is an instance of one of the two.

*The migration.* `TenantMigrationProofs` proves, for all sets of rows, tenants and chains,
and any number of runs of `create_default_tenant`:

| Theorem | States |
|---|---|
| `MigrationInvariance` | `MigrationSpec => []MigrationInv`, the inductive invariant |
| `MigrationTypeCorrect` | `MigrationSpec => []MigrationTypeOK` |
| `DefaultIsUnique` | `MigrationSpec => []OneDefaultTenant` |
| `NoRowIsMissed` | `MigrationSpec => []UnownedRowsAreMoved` |
| `OtherTenantsStayApart` | `MigrationSpec => []OnlyTheDefaultTenantMixes` |
| `ForeignRowsAreMovedRows` | `MigrationSpec => []SessionsOwn(Defaults)` |

The properties of `TenantScope` do not survive the migration: its commit takes rows from the
tenants while their requests hold them. What survives is `Inv(Defaults)`, in which a
session, a write and a child may each be off by a row of a default tenant. To it
`MigrationInv` adds that two default tenants are one (`OneSlug`), that the target of a
migration is one (`MigratorOK`), and that the migration has updated, of the tables it has
passed, all rows that had no tenant when it began (`UnownedOK`), which at the end are all
tables (`OrderOfTables`). That the rows stay moved follows from `NextOK`: no handler writes
the tenant of a row.

Model-checked only: the liveness properties `EveryRequestEnds`, `SlowEndpointsHoldTheirOwn`
and `EveryReplicaComesUp`, since the prover has no rule for ENABLED or fairness. Every other
property of a passing run is a theorem. Of the four that a run refutes, `CompletedIsFinal`
and `ReceiptsAreCounted` are theorems for `MaxInFlight = 1`, where no two requests overlap.

## Not modelled

The application shell (routes, CORS, `/` and `/health`) is static wiring. The
safety-boundary middleware is another package; a request it rejects never reaches a handler,
which is a request that does not arrive. The other read-only endpoints
(`get_integration`, `get_webhook`, `get_sync_status`, `list_templates`, `get_template`) read
one committed state and change none.

Not covered by a property, with the reasons under "hazards": the first `next_sync_at`,
deliveries that are sent twice, children of callers without a tenant, and equal stamps in a
list. `routers/templates.py:102` says that an installed integration "needs real credentials
before it can go active"; a sync that succeeds makes it active without any (`EndSync`), and
no endpoint adds credentials to it. Only that comment tells of the intent, so no property
states it.

## Plan

1. `SyncEngine`, `SyncContract`, `WebhookReceiver`, `SyncEngineProofs`: done.
2. `TenantScope`, `TenantScopeProofs`, `TenantMigration`: done.
3. `PooledSync`, `Boot`, `CredentialVault`, `Listing`, `Service` and their proofs: done.
4. Proofs of all the safety and action properties that hold: done.
5. To be considered: the abstract service that `PooledSync`, `Service` and `TenantScope`
   each refine a part of, and lifting the sequential theorems to requests that do not share
   an integration, which the lock should make as exact as requests that do not overlap.

## Running it

`tlc -workers 2 -config MCSyncConcurrent.cfg MCSyncEngine` (about a minute, two million
states), and likewise for the other configurations; `MCPooledSync.cfg` takes about three
minutes, the others about as long or less. `tlapm SyncEngineProofs.tla` (about a minute),
and likewise for `SyncBookkeepingProofs`, `PooledSyncProofs`, `WebhookReceiverProofs`,
`ServiceProofs`, `TenantScopeProofs` and `TenantMigrationProofs`.
