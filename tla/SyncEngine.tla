----------------------------- MODULE SyncEngine -----------------------------
(* Sync execution: the handlers that create integrations and jobs, the two  *)
(* handlers that run a job, and run_sync_job itself, as concurrent request  *)
(* handlers over one PostgreSQL database (READ COMMITTED).                  *)
(*                                                                          *)
(* A handler's step ends where it awaits the database or the remote         *)
(* endpoint.  A running request holds two ORM objects (its copy of the      *)
(* integration and of the job, as last loaded or flushed) and, once it has  *)
(* flushed, the uncommitted versions of the two rows, which it keeps locked *)
(* until it commits or rolls back: across the HTTP call.                    *)
(*                                                                          *)
(* An operator named Action_Change is Action with one plausible bug; no     *)
(* specification uses it.  PROJECT.json says which property each one breaks.*)
EXTENDS Integers, FiniteSets, Orm

CONSTANTS
    Integrations, Jobs,   \* identities the database may hand out
    Requests,             \* one per call of a handler that runs a job
    Urls,                 \* kinds of sync_url: none, one that httpx can parse,
                          \* one that it cannot
    Intervals,            \* values of sync_interval_hours
    Directions,           \* "push", or anything else
    CallErrors,           \* reasons why a call of the endpoint may fail
    RecordCounts,         \* records an endpoint may answer with
    Dates,                \* what a datetime can hold: others raise OverflowError
    MaxInFlight,          \* bound on the requests in flight at a time
    Faults,               \* which of "crash", "db_error" may happen
    NULL                  \* None in a column, and "no such row"

ASSUME NullAssumption ==
    NULL \notin Integrations \cup Jobs \cup Requests \cup Int \cup CallErrors
ASSUME UrlAssumption == Urls \subseteq {"none", "valid", "malformed"}
ASSUME IntervalAssumption == Intervals \subseteq Int
ASSUME RecordAssumption == RecordCounts \subseteq Nat
ASSUME DateAssumption == Dates \subseteq Int
ASSUME MessageAssumption == "no_sync_url" # NULL

VARIABLES
    \* the committed database
    integrations,      \* [Integrations -> IntegrationRow \cup {NULL}]
    sync_jobs,         \* [Jobs -> JobRow \cup {NULL}]
    integration_lock,  \* [Integrations -> Requests \cup {NULL}], row locks
    job_lock,          \* [Jobs -> Requests \cup {NULL}]
    \* each request
    pc, job_of, integration_of, answer,
    orm_integration, orm_job,  \* its ORM objects
    tx_integration, tx_job,    \* its uncommitted row versions
    \* history, and the clock
    failures,          \* failed runs committed for each integration
    now                \* datetime.utcnow(), which ticks at each stamp

database == <<integrations, sync_jobs>>
locks    == <<integration_lock, job_lock>>
target   == <<job_of, integration_of>>
session  == <<orm_integration, orm_job, tx_integration, tx_job>>
vars     == <<database, locks, pc, target, answer, session, failures, now>>

Stamps == Nat \cup {NULL}
Messages == CallErrors \cup {"no_sync_url", NULL}
Terminal == {"completed", "failed"}

IntegrationRow ==
    [url : Urls, interval : Intervals \cup {24}, status : {"active", "inactive", "error", "syncing"},
     last_error : Messages, error_count : Nat,
     last_sync_at : Stamps, next_sync_at : Int \cup {NULL}]

JobRow ==
    [integration_id : Integrations, direction : Directions \cup {"pull"},
     status : {"pending", "running", "completed", "failed"},
     error_message : Messages, processed_records : Nat,
     total_records : Nat \cup {NULL}, records_created : Nat,
     started_at : Stamps, completed_at : Stamps]

ASSUME NullIsNoRow == NULL \notin IntegrationRow \cup JobRow

Steps == {"new", "loaded", "flushing", "locked", "running",
          "returned", "committed", "done", "lost"}
Answers == {"404", "409", "500", "db_error"} \cup Terminal

InFlight == {r \in Requests : pc[r] \notin {"new", "done", "lost"}}
MayArrive(r) == pc[r] = "new" /\ Cardinality(InFlight) < MaxInFlight

NoOne(S) == [x \in S |-> NULL]

(* No row is locked, no request has come yet.                               *)
NoRequests ==
    /\ integration_lock = NoOne(Integrations) /\ job_lock = NoOne(Jobs)
    /\ pc = [r \in Requests |-> "new"]
    /\ job_of = NoOne(Requests) /\ integration_of = NoOne(Requests)
    /\ answer = NoOne(Requests)
    /\ orm_integration = NoOne(Requests) /\ orm_job = NoOne(Requests)
    /\ tx_integration = NoOne(Requests) /\ tx_job = NoOne(Requests)
    /\ failures = [i \in Integrations |-> 0]
    /\ now = 1

Init == integrations = NoOne(Integrations) /\ sync_jobs = NoOne(Jobs) /\ NoRequests

-----------------------------------------------------------------------------
(* Handlers that end in one commit of their own.                            *)

NewIntegration_NoDefault(url, interval, status, next) ==
    [url |-> url, interval |-> interval, status |-> status, last_error |-> NULL,
     error_count |-> NULL, last_sync_at |-> NULL, next_sync_at |-> next]
NewIntegration(url, interval, status, next) ==
    [url |-> url, interval |-> interval, status |-> status, last_error |-> NULL,
     error_count |-> 0, last_sync_at |-> NULL, next_sync_at |-> next]

NewJob(i, direction) ==
    [integration_id |-> i, direction |-> direction, status |-> "pending",
     error_message |-> NULL, processed_records |-> 0, total_records |-> NULL,
     records_created |-> 0, started_at |-> NULL, completed_at |-> NULL]

(* POST /integrations/create.  The interval is taken as it is, 0 or         *)
(* negative included; one that leads out of Dates creates nothing (a 500).  *)
CreateIntegration(i, url, interval, auto) ==
    /\ integrations[i] = NULL
    /\ auto => now + interval \in Dates
    /\ integrations' = [integrations EXCEPT ![i] =
           NewIntegration(url, interval, "active", IF auto THEN now + interval ELSE NULL)]
    /\ UNCHANGED <<sync_jobs, locks, pc, target, answer, session, failures, now>>

(* POST /templates/{id}/install: the interval is the column's default.      *)
InstallTemplate(i, url) ==
    /\ integrations[i] = NULL
    /\ integrations' = [integrations EXCEPT ![i] = NewIntegration(url, 24, "inactive", NULL)]
    /\ UNCHANGED <<sync_jobs, locks, pc, target, answer, session, failures, now>>

(* No row has identity j yet, committed or not.                             *)
Fresh(j) == sync_jobs[j] = NULL /\ \A r \in Requests : job_of[r] # j

(* POST /sync/configure.                                                    *)
ConfigureSync(j, i, direction) ==
    /\ Fresh(j)
    /\ integrations[i] # NULL
    /\ sync_jobs' = [sync_jobs EXCEPT ![j] = NewJob(i, direction)]
    /\ UNCHANGED <<integrations, locks, pc, target, answer, session, failures, now>>

-----------------------------------------------------------------------------
(* How a request ends.                                                      *)

LetGo(lock, S) == [x \in DOMAIN lock |-> IF lock[x] \in S THEN NULL ELSE lock[x]]
Forget(object, S) == [r \in Requests |-> IF r \in S THEN NULL ELSE object[r]]

(* The transactions of the requests in S end and their sessions close.      *)
CloseSessions(S) ==
    /\ integration_lock' = LetGo(integration_lock, S)
    /\ job_lock'         = LetGo(job_lock, S)
    /\ orm_integration'  = Forget(orm_integration, S)
    /\ orm_job'          = Forget(orm_job, S)
    /\ tx_integration'   = Forget(tx_integration, S)
    /\ tx_job'           = Forget(tx_job, S)

Respond(r, code) ==
    /\ pc'     = [pc EXCEPT ![r] = "done"]
    /\ answer' = [answer EXCEPT ![r] = code]

(* An exception: get_db's close rolls back, then the client is answered.    *)
(* (The exit stack of FastAPI 0.104 lies inside of its exception handlers:  *)
(* an error is answered behind the close, a success before it.)  Nobody     *)
(* sees the two apart, and a crash in between leaves what Crash does.       *)
RollBack_NotClosed(r, code) ==
    /\ Respond(r, code)
    /\ UNCHANGED <<database, locks, target, session, failures, now>>
RollBack(r, code) ==
    /\ CloseSessions({r})
    /\ Respond(r, code)
    /\ UNCHANGED <<database, target, failures, now>>

-----------------------------------------------------------------------------
(* POST /sync/{id}/trigger and POST /integrations/{id}/sync, up to the run. *)

(* Either handler answers 404 to an identity it cannot parse or find.       *)
RejectUnknown(r) ==
    /\ MayArrive(r)
    /\ Respond(r, "404")
    /\ UNCHANGED <<database, locks, target, session, failures, now>>

(* A job that failed may be triggered again.                                *)
MayRun_Unfinished(status) == status # "running"
MayRun(status) == status \in {"pending", "failed"}

RejectFinished(r, j) ==
    /\ MayArrive(r)
    /\ sync_jobs[j] # NULL
    /\ ~MayRun(sync_jobs[j].status)
    /\ Respond(r, "409")
    /\ UNCHANGED <<database, locks, target, session, failures, now>>

(* The job's status is checked here, once, on the row as loaded.            *)
TriggerJob(r, j) ==
    /\ MayArrive(r)
    /\ sync_jobs[j] # NULL
    /\ MayRun(sync_jobs[j].status)
    /\ pc'             = [pc EXCEPT ![r] = "loaded"]
    /\ job_of'         = [job_of EXCEPT ![r] = j]
    /\ integration_of' = [integration_of EXCEPT ![r] = sync_jobs[j].integration_id]
    /\ orm_job'        = [orm_job EXCEPT ![r] = sync_jobs[j]]
    /\ UNCHANGED <<database, locks, answer, orm_integration, tx_integration, tx_job, failures, now>>

(* run_sync_job's first assignments, in memory.                             *)
Begin_Unstamped(r, i, job) ==
    /\ pc' = [pc EXCEPT ![r] = "flushing"]
    /\ now' = now + 1
    /\ orm_job' = [orm_job EXCEPT ![r] = [job EXCEPT !.status = "running"]]
    /\ orm_integration' = [orm_integration EXCEPT ![r] =
           [integrations[i] EXCEPT !.status = "syncing"]]
Begin(r, i, job) ==
    /\ pc' = [pc EXCEPT ![r] = "flushing"]
    /\ now' = now + 1
    /\ orm_job' = [orm_job EXCEPT ![r] =
           [job EXCEPT !.status = "running", !.started_at = now + 1]]
    /\ orm_integration' = [orm_integration EXCEPT ![r] =
           [integrations[i] EXCEPT !.status = "syncing"]]

LoadIntegration(r) ==
    /\ pc[r] = "loaded"
    /\ Begin(r, integration_of[r], orm_job[r])
    /\ UNCHANGED <<database, locks, target, answer, tx_integration, tx_job, failures>>

(* The job inserted here is visible to this transaction alone until it      *)
(* commits, so the load of the integration, the insertion and run_sync_job's*)
(* first assignments are one step: only the stamp comes early.              *)
TriggerIntegration(r, i, j) ==
    /\ MayArrive(r)
    /\ integrations[i] # NULL
    /\ Fresh(j)
    /\ job_of'         = [job_of EXCEPT ![r] = j]
    /\ integration_of' = [integration_of EXCEPT ![r] = i]
    /\ Begin(r, i, NewJob(i, "pull"))
    /\ UNCHANGED <<database, locks, answer, tx_integration, tx_job, failures>>

-----------------------------------------------------------------------------
(* run_sync_job, from its flush.                                            *)

(* An UPDATE waits until no other transaction holds the row.                *)
Unlocked(lock, x) == lock[x] = NULL

(* Of the integration the first flush writes the status alone, to the row   *)
(* as it is by then.                                                        *)
Syncing_WholeRow(row, orm) == orm
Syncing(row, orm) == [row EXCEPT !.status = orm.status]

(* The flush updates the integration before the job, which refers to it.    *)
FlushIntegration_NotDirty(r) ==
    /\ pc[r] = "flushing"
    /\ tx_integration' = [tx_integration EXCEPT ![r] = integrations[integration_of[r]]]
    /\ pc' = [pc EXCEPT ![r] = "locked"]
    /\ UNCHANGED <<database, locks, target, answer, orm_integration, orm_job, tx_job, failures, now>>
FlushIntegration(r) ==
    LET i == integration_of[r] IN
    /\ pc[r] = "flushing"
    /\ Unlocked(integration_lock, i)
    /\ integration_lock' = [integration_lock EXCEPT ![i] = r]
    /\ tx_integration' = [tx_integration EXCEPT ![r] =
           Syncing(integrations[i], orm_integration[r])]
    /\ pc' = [pc EXCEPT ![r] = "locked"]
    /\ UNCHANGED <<database, job_lock, target, answer, orm_integration, orm_job, tx_job, failures, now>>

FlushJob_Commits(r) ==
    LET j == job_of[r] IN
    /\ pc[r] = "locked"
    /\ tx_job' = [tx_job EXCEPT ![r] = orm_job[r]]
    /\ integrations' = [integrations EXCEPT ![integration_of[r]] = tx_integration[r]]
    /\ sync_jobs' = [sync_jobs EXCEPT ![j] = orm_job[r]]
    /\ integration_lock' = LetGo(integration_lock, {r})
    /\ pc' = [pc EXCEPT ![r] = "running"]
    /\ UNCHANGED <<job_lock, target, answer, orm_integration, orm_job, tx_integration, failures, now>>
FlushJob(r) ==
    LET j   == job_of[r]
        row == IF sync_jobs[j] = NULL THEN orm_job[r] ELSE sync_jobs[j]
    IN
    /\ pc[r] = "locked"
    /\ Unlocked(job_lock, j)
    /\ job_lock' = [job_lock EXCEPT ![j] = r]
    /\ tx_job' = [tx_job EXCEPT ![r] =
           [row EXCEPT !.status = orm_job[r].status, !.started_at = orm_job[r].started_at]]
    /\ pc' = [pc EXCEPT ![r] = "running"]
    /\ UNCHANGED <<database, integration_lock, target, answer, orm_integration, orm_job,
                   tx_integration, failures, now>>

(* From here both rows are locked: the columns that the commit's flush will *)
(* write are applied to them as soon as the run knows them.                 *)
Return(r, integration, job) ==
    /\ tx_integration' = [tx_integration EXCEPT ![r] = integration]
    /\ tx_job' = [tx_job EXCEPT ![r] = job]
    /\ pc' = [pc EXCEPT ![r] = "returned"]
    /\ now' = now + 1
    /\ UNCHANGED <<database, locks, target, answer, orm_integration, orm_job, failures>>

Running(r, url) == pc[r] = "running" /\ orm_integration[r].url = url

(* What _fail makes of the two rows.                                        *)
FailedIntegration_NotCounted(row, orm, message) ==
    [row EXCEPT !.status     = "error",
                !.last_error = Written(@, orm.last_error, message)]
FailedIntegration(row, orm, message) ==
    [row EXCEPT !.status      = "error",
                !.last_error  = Written(@, orm.last_error, message),
                !.error_count = orm.error_count + 1]

FailedJob(row, orm, message, stamp) ==
    [row EXCEPT !.status        = "failed",
                !.error_message = Written(@, orm.error_message, message),
                !.completed_at  = stamp]

Fail(r, message) ==
    Return(r, FailedIntegration(tx_integration[r], orm_integration[r], message),
              FailedJob(tx_job[r], orm_job[r], message, now + 1))

FailNoUrl(r) == Running(r, "none") /\ Fail(r, "no_sync_url")

(* The request cannot be sent, times out, breaks, or is answered >= 400.    *)
CallFails(r, message) == Running(r, "valid") /\ Fail(r, message)

(* "integration.sync_interval_hours or 24"                                  *)
Hours_Given(integration) == integration.interval
Hours(integration) == IF integration.interval = 0 THEN 24 ELSE integration.interval

(* What a successful run makes of them.                                     *)
SyncedIntegration_KeepsError(row, orm, stamp) ==
    [row EXCEPT !.status       = "active",
                !.last_sync_at = stamp,
                !.next_sync_at = stamp + Hours(orm)]
SyncedIntegration(row, orm, stamp) ==
    [row EXCEPT !.status       = "active",
                !.last_error   = Written(@, orm.last_error, NULL),
                !.last_sync_at = stamp,
                !.next_sync_at = stamp + Hours(orm)]

SyncedJob_AnyDirection(row, orm, n, stamp) ==
    [row EXCEPT !.status            = "completed",
                !.processed_records = Written(@, orm.processed_records, n),
                !.total_records     = Written(@, orm.total_records, n),
                !.records_created   = Written(@, orm.records_created, n),
                !.completed_at      = stamp]
SyncedJob(row, orm, n, stamp) ==
    [row EXCEPT !.status            = "completed",
                !.processed_records = Written(@, orm.processed_records, n),
                !.total_records     = Written(@, orm.total_records, n),
                !.records_created   = IF orm.direction = "push" THEN @
                                      ELSE Written(@, orm.records_created, n),
                !.completed_at      = stamp]

Succeed(r, n) ==
    Return(r, SyncedIntegration(tx_integration[r], orm_integration[r], now + 1),
              SyncedJob(tx_job[r], orm_job[r], n, now + 1))

CallSucceeds(r, n) ==
    /\ Running(r, "valid")
    /\ now + 1 + Hours(orm_integration[r]) \in Dates
    /\ Succeed(r, n)

(* Two exceptions run_sync_job does not catch: httpx.InvalidURL (TypeError) *)
(* for a sync_url that httpx cannot parse (is no string), and OverflowError *)
(* for an interval that leads past the first or the last date.  A URL that  *)
(* it can parse and not use is an HTTPError, one of CallFails.              *)
Raise(r) ==
    /\ \/ Running(r, "malformed")
       \/ Running(r, "valid") /\ now + 1 + Hours(orm_integration[r]) \notin Dates
    /\ RollBack(r, "500")

-----------------------------------------------------------------------------
(* The handlers again: db.commit(), then db.refresh() and the answer.       *)

Commit(r) ==
    /\ pc[r] = "returned"
    /\ integrations' = [integrations EXCEPT ![integration_of[r]] = tx_integration[r]]
    /\ sync_jobs'    = [sync_jobs EXCEPT ![job_of[r]] = tx_job[r]]
    /\ failures' = [failures EXCEPT ![integration_of[r]] =
                        IF tx_job[r].status = "failed" THEN @ + 1 ELSE @]
    /\ CloseSessions({r})
    /\ pc' = [pc EXCEPT ![r] = "committed"]
    /\ UNCHANGED <<target, answer, now>>

(* The refresh reads the row as committed by now, by whoever came last.     *)
(* The transaction it begins locks nothing and ends behind the answer.      *)
Answer(r) ==
    /\ pc[r] = "committed"
    /\ Respond(r, sync_jobs[job_of[r]].status)
    /\ UNCHANGED <<database, locks, target, session, failures, now>>

(* A statement fails (connection lost, no connection to be had), the first  *)
(* of a request included: 500.  What was committed before stays.            *)
DatabaseError(r) ==
    /\ "db_error" \in Faults
    /\ pc[r] \notin {"done", "lost"}
    /\ RollBack(r, "db_error")

(* The process dies and is restarted; the database frees its sessions.      *)
Crash ==
    /\ "crash" \in Faults
    /\ InFlight # {}
    /\ CloseSessions(InFlight)
    /\ pc' = [r \in Requests |-> IF r \in InFlight THEN "lost" ELSE pc[r]]
    /\ UNCHANGED <<database, target, answer, failures, now>>

(* Nothing in flight: clients may stay away.                                *)
Idle == InFlight = {} /\ UNCHANGED vars

-----------------------------------------------------------------------------
Arrive(r) ==
    \/ RejectUnknown(r)
    \/ \E j \in Jobs : RejectFinished(r, j) \/ TriggerJob(r, j)
    \/ \E i \in Integrations, j \in Jobs : TriggerIntegration(r, i, j)

(* What a request in flight does next when nothing breaks.                  *)
Proceed(r) ==
    \/ LoadIntegration(r)
    \/ FlushIntegration(r)
    \/ FlushJob(r)
    \/ FailNoUrl(r)
    \/ \E m \in CallErrors : CallFails(r, m)
    \/ \E n \in RecordCounts : CallSucceeds(r, n)
    \/ Raise(r)
    \/ Commit(r)
    \/ Answer(r)

Configure ==
    \/ \E i \in Integrations, url \in Urls :
          \/ \E interval \in Intervals, auto \in BOOLEAN :
                CreateIntegration(i, url, interval, auto)
          \/ InstallTemplate(i, url)
    \/ \E j \in Jobs, i \in Integrations, direction \in Directions :
          ConfigureSync(j, i, direction)

Next ==
    \/ Configure
    \/ \E r \in Requests : Arrive(r) \/ Proceed(r) \/ DatabaseError(r)
    \/ Crash
    \/ Idle

Spec == Init /\ [][Next]_vars

-----------------------------------------------------------------------------
(* Properties.                                                              *)

TypeOK ==
    /\ integrations \in [Integrations -> IntegrationRow \cup {NULL}]
    /\ sync_jobs \in [Jobs -> JobRow \cup {NULL}]
    /\ integration_lock \in [Integrations -> Requests \cup {NULL}]
    /\ job_lock \in [Jobs -> Requests \cup {NULL}]
    /\ pc \in [Requests -> Steps]
    /\ job_of \in [Requests -> Jobs \cup {NULL}]
    /\ integration_of \in [Requests -> Integrations \cup {NULL}]
    /\ answer \in [Requests -> Answers \cup {NULL}]
    /\ orm_integration \in [Requests -> IntegrationRow \cup {NULL}]
    /\ orm_job \in [Requests -> JobRow \cup {NULL}]
    /\ tx_integration \in [Requests -> IntegrationRow \cup {NULL}]
    /\ tx_job \in [Requests -> JobRow \cup {NULL}]
    /\ failures \in [Integrations -> Nat]
    /\ now \in Nat

(* The flush at the head of run_sync_job serialises the runs of an          *)
(* integration: no two requests call its endpoint, or hold a result for it  *)
(* that is not committed, at the same time.                                 *)
OneCallPerIntegration ==
    \A r, s \in Requests :
        /\ pc[r] \in {"running", "returned"} /\ pc[s] \in {"running", "returned"}
        /\ integration_of[r] = integration_of[s]
        => r = s

(* RUNNING and SYNCING never leave the transaction that wrote them: whoever *)
(* reads the tables sees what a finished run left, also after a crash.      *)
NothingRunningIsPublished ==
    /\ \A i \in Integrations : integrations[i] # NULL => integrations[i].status # "syncing"
    /\ \A j \in Jobs : sync_jobs[j] # NULL => sync_jobs[j].status # "running"

(* Rows are locked in one order, the integration before its job, so that    *)
(* handlers waiting for rows never wait for one another in a circle.        *)
JobLockUnderIntegrationLock ==
    \A j \in Jobs : job_lock[j] # NULL =>
        /\ job_of[job_lock[j]] = j
        /\ integration_lock[integration_of[job_lock[j]]] = job_lock[j]

(* A job published as completed or failed has run: both its stamps are      *)
(* there and in order, and a failure has its message, however many requests *)
(* ran it and in whatever order their writes reached the row.               *)
TerminalJobsAreStamped ==
    \A j \in Jobs :
        LET job == sync_jobs[j] IN
        job # NULL /\ job.status \in Terminal =>
            /\ job.started_at # NULL /\ job.completed_at # NULL
            /\ job.started_at < job.completed_at
            /\ job.status = "failed" => job.error_message # NULL

(* The two tables agree: an integration's last_sync_at covers every job of  *)
(* it that is published as completed.                                       *)
CompletedJobsAreCovered ==
    \A j \in Jobs :
        LET job == sync_jobs[j] IN
        job # NULL /\ job.status = "completed" =>
            /\ integrations[job.integration_id].last_sync_at # NULL
            /\ job.completed_at =< integrations[job.integration_id].last_sync_at

(* Once synced, an integration's next sync is one interval after its last,  *)
(* though each column is written or left alone on its own.                  *)
NextSyncFollowsLastSync ==
    \A i \in Integrations :
        LET row == integrations[i] IN
        row # NULL /\ row.last_sync_at # NULL =>
            row.next_sync_at = row.last_sync_at + (IF row.interval = 0 THEN 24 ELSE row.interval)

(* Racing runs may lose increments of error_count but never invent one, and *)
(* never lose the first: it is 0 only while no run has failed.              *)
ErrorCountBounded ==
    \A i \in Integrations : integrations[i] # NULL =>
        /\ integrations[i].error_count =< failures[i]
        /\ integrations[i].error_count = 0 => failures[i] = 0

(* What a trigger answers is durable: an answer that is not an error is the *)
(* outcome of a finished run, and the job's row keeps one through crashes,  *)
(* failed statements and the runs of others.                                *)
AnswersAreDurable ==
    \A r \in Requests :
        pc[r] = "done" /\ answer[r] \notin {"404", "409", "500", "db_error"} =>
            /\ answer[r] \in Terminal
            /\ sync_jobs[job_of[r]] # NULL
            /\ sync_jobs[job_of[r]].status \in Terminal

(* last_sync_at never goes back, whichever run commits last.                *)
LastSyncNeverGoesBack ==
    [][\A i \in Integrations :
          integrations[i] # NULL /\ integrations[i].last_sync_at # NULL =>
              /\ integrations'[i].last_sync_at # NULL
              /\ integrations'[i].last_sync_at >= integrations[i].last_sync_at]_vars

(* A job that has run never shows as pending or absent again, and never     *)
(* changes hands.                                                           *)
TerminalStays ==
    [][\A j \in Jobs : sync_jobs[j] # NULL =>
          /\ sync_jobs'[j] # NULL
          /\ sync_jobs'[j].integration_id = sync_jobs[j].integration_id
          /\ sync_jobs[j].status \in Terminal => sync_jobs'[j].status \in Terminal]_vars

(* What the database promises its readers implements the contract of the    *)
(* sync subsystem: the committed rows are the outcomes, the row locks on    *)
(* integrations say who runs them.                                          *)
Outcome(j) == IF sync_jobs[j] = NULL THEN "absent" ELSE sync_jobs[j].status
Owner(j)   == IF sync_jobs[j] = NULL THEN NULL ELSE sync_jobs[j].integration_id

Contract == INSTANCE SyncContract WITH
    outcome <- [j \in Jobs |-> Outcome(j)],
    owner   <- [j \in Jobs |-> Owner(j)],
    runner  <- integration_lock

ImplementsContract == Contract!Spec

-----------------------------------------------------------------------------
(* What holds of requests that do not overlap, as when MaxInFlight = 1.     *)

(* error_count is the number of runs that failed.                           *)
ErrorCountExact ==
    \A i \in Integrations : integrations[i] # NULL =>
        integrations[i].error_count = failures[i]

(* An integration shows an error message exactly when it is in error.       *)
StatusMatchesLastError ==
    \A i \in Integrations : integrations[i] # NULL =>
        (integrations[i].status = "error" <=> integrations[i].last_error # NULL)

(* The record counts of a completed job agree with one another.             *)
RecordsAgree ==
    \A j \in Jobs :
        LET job == sync_jobs[j] IN
        job # NULL /\ job.status = "completed" =>
            /\ job.total_records = job.processed_records
            /\ job.records_created = IF job.direction = "push" THEN 0 ELSE job.processed_records

(* A job reported completed is never run again: a second trigger is refused.*)
CompletedIsFinal ==
    [][\A j \in Jobs : sync_jobs[j] # NULL /\ sync_jobs[j].status = "completed" =>
          sync_jobs'[j] = sync_jobs[j]]_vars

(* run_sync_job leaves a job that is stored in a terminal state, whatever   *)
(* the endpoint and the configuration are (failures of the database itself  *)
(* set aside).  A job that its own request created may be rolled back with  *)
(* it: of that one nothing is left to be in any state.                      *)
RunLeavesTerminalState ==
    \A r \in Requests :
        /\ pc[r] = "done" /\ job_of[r] # NULL /\ answer[r] # "db_error"
        /\ sync_jobs[job_of[r]] # NULL
        => sync_jobs[job_of[r]].status \in Terminal
=============================================================================
