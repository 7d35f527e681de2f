-------------------------- MODULE SyncEngineProofs --------------------------
(* Proofs about SyncEngine for every set of integrations, jobs and requests *)
(* and every value of the other constants.                                  *)
EXTENDS SyncEngine, TLAPS

(* The steps at which a request has its objects, holds the integration's    *)
(* row, and holds the job's row.                                            *)
Began   == {"flushing", "locked", "running", "returned"}
Holding == {"locked", "running", "returned"}
InRun   == {"running", "returned"}

(* What a request knows at each step of its way.                            *)
SessionOK(r) ==
    /\ pc[r] \in {"loaded", "committed"} \cup Began =>
           job_of[r] \in Jobs /\ integration_of[r] \in Integrations
    /\ pc[r] \in {"loaded", "committed"} => sync_jobs[job_of[r]] # NULL
    /\ pc[r] \in {"loaded"} \cup Began => orm_job[r] \in JobRow
    /\ pc[r] \in Began => orm_integration[r] \in IntegrationRow
    /\ pc[r] \in Holding => tx_integration[r] \in IntegrationRow
    /\ pc[r] \in InRun => tx_job[r] \in JobRow
    /\ pc[r] = "returned" => tx_job[r].status \in Terminal
                           /\ tx_integration[r].status \in {"active", "error"}
    /\ pc[r] = "committed" => sync_jobs[job_of[r]].status \in Terminal

(* No row is ever deleted, so what refers to one goes on doing so.  A job   *)
(* that is not committed yet is known to the request that inserted it alone,*)
(* and all the requests of a job agree on the integration it belongs to.    *)
ReferencesOK ==
    /\ \A j \in Jobs : sync_jobs[j] # NULL => integrations[sync_jobs[j].integration_id] # NULL
    /\ \A r \in Requests : integration_of[r] # NULL => integrations[integration_of[r]] # NULL
    /\ \A r \in Requests : pc[r] \in {"loaded"} \cup Began =>
           orm_job[r].integration_id = integration_of[r]
    /\ \A r \in Requests : pc[r] \in InRun =>
           tx_job[r].integration_id = integration_of[r]
    /\ \A r \in Requests : job_of[r] # NULL /\ sync_jobs[job_of[r]] # NULL =>
           sync_jobs[job_of[r]].integration_id = integration_of[r]
    /\ \A r, s \in Requests : job_of[r] # NULL /\ sync_jobs[job_of[r]] = NULL =>
           (job_of[s] = job_of[r] => r = s)

(* A lock is held exactly by the request whose step says so.                *)
LocksOK ==
    /\ \A r \in Requests :
           /\ pc[r] \in Holding => integration_lock[integration_of[r]] = r
           /\ pc[r] \in InRun => job_lock[job_of[r]] = r
    /\ \A i \in Integrations : integration_lock[i] # NULL =>
           /\ pc[integration_lock[i]] \in Holding
           /\ integration_of[integration_lock[i]] = i
    /\ \A j \in Jobs : job_lock[j] # NULL =>
           /\ pc[job_lock[j]] \in InRun
           /\ job_of[job_lock[j]] = j

SessionsOK == \A r \in Requests : SessionOK(r)

-----------------------------------------------------------------------------
(* Rows stay rows under the updates the handlers make.                      *)

LEMMA NewIntegrationType ==
    ASSUME NEW url \in Urls, NEW interval \in Intervals \cup {24},
           NEW status \in {"active", "inactive"}, NEW next \in Int \cup {NULL}
    PROVE  /\ NewIntegration(url, interval, status, next) \in IntegrationRow
           /\ NewIntegration(url, interval, status, next) # NULL
<1>1. NewIntegration(url, interval, status, next) \in IntegrationRow
  BY DEF NewIntegration, IntegrationRow, Messages, Stamps
<1> QED BY <1>1, NullIsNoRow

LEMMA NewJobType ==
    ASSUME NEW i \in Integrations, NEW direction \in Directions \cup {"pull"}
    PROVE  /\ NewJob(i, direction) \in JobRow
           /\ NewJob(i, direction) # NULL
           /\ NewJob(i, direction).integration_id = i
<1>1. NewJob(i, direction) \in JobRow
  BY DEF NewJob, JobRow, Messages, Stamps
<1> QED BY <1>1, NullIsNoRow DEF NewJob

(* The row as the first flush leaves it.                                    *)
LEMMA FlushedJobType ==
    ASSUME NEW row \in JobRow, NEW stamp \in Stamps
    PROVE  /\ [row EXCEPT !.status = "running", !.started_at = stamp] \in JobRow
           /\ [row EXCEPT !.status = "running", !.started_at = stamp].integration_id
                = row.integration_id
  BY DEF JobRow

LEMMA FlushedIntegrationType ==
    ASSUME NEW row \in IntegrationRow
    PROVE  [row EXCEPT !.status = "syncing"] \in IntegrationRow
  BY DEF IntegrationRow
LEMMA HoursType ==
    ASSUME NEW row \in IntegrationRow
    PROVE  Hours(row) \in Int
<1>1. row.interval \in Intervals \cup {24}
  BY DEF IntegrationRow
<1>2. Intervals \cup {24} \subseteq Int
  BY IntervalAssumption
<1>3. row.interval \in Int
  BY <1>1, <1>2
<1> QED BY <1>3 DEF Hours

(* The rows as _fail leaves them.                                           *)
LEMMA FailedIntegrationType ==
    ASSUME NEW row \in IntegrationRow, NEW orm \in IntegrationRow, NEW message \in Messages
    PROVE  /\ FailedIntegration(row, orm, message) \in IntegrationRow
           /\ FailedIntegration(row, orm, message).status = "error"
<1>1. orm.error_count + 1 \in Nat
  BY DEF IntegrationRow
<1>2. FailedIntegration(row, orm, message) \in IntegrationRow
  BY <1>1 DEF FailedIntegration, IntegrationRow, Written
<1> QED BY <1>2 DEF FailedIntegration, IntegrationRow

LEMMA FailedJobType ==
    ASSUME NEW row \in JobRow, NEW orm \in JobRow, NEW message \in Messages, NEW stamp \in Nat
    PROVE  /\ FailedJob(row, orm, message, stamp) \in JobRow
           /\ FailedJob(row, orm, message, stamp).status = "failed"
           /\ FailedJob(row, orm, message, stamp).integration_id = row.integration_id
<1>1. FailedJob(row, orm, message, stamp) \in JobRow
  BY DEF FailedJob, JobRow, Written, Stamps
<1> QED BY <1>1 DEF FailedJob, JobRow

(* The rows as a successful run leaves them.                                *)
LEMMA SyncedIntegrationType ==
    ASSUME NEW row \in IntegrationRow, NEW orm \in IntegrationRow, NEW stamp \in Nat
    PROVE  /\ SyncedIntegration(row, orm, stamp) \in IntegrationRow
           /\ SyncedIntegration(row, orm, stamp).status = "active"
<1>1. stamp + Hours(orm) \in Int
  BY HoursType
<1>2. SyncedIntegration(row, orm, stamp) \in IntegrationRow
  BY <1>1 DEF SyncedIntegration, IntegrationRow, Written, Stamps, Messages
<1> QED BY <1>2 DEF SyncedIntegration, IntegrationRow

LEMMA SyncedJobType ==
    ASSUME NEW row \in JobRow, NEW orm \in JobRow, NEW n \in Nat, NEW stamp \in Nat
    PROVE  /\ SyncedJob(row, orm, n, stamp) \in JobRow
           /\ SyncedJob(row, orm, n, stamp).status = "completed"
           /\ SyncedJob(row, orm, n, stamp).integration_id = row.integration_id
<1> DEFINE processed == Written(row.processed_records, orm.processed_records, n)
           total     == Written(row.total_records, orm.total_records, n)
           created   == IF orm.direction = "push" THEN row.records_created
                        ELSE Written(row.records_created, orm.records_created, n)
<1>1. processed \in Nat /\ total \in Nat \cup {NULL} /\ created \in Nat
  BY DEF JobRow, Written
<1>2. SyncedJob(row, orm, n, stamp) =
          [row EXCEPT !.status = "completed", !.processed_records = processed,
                      !.total_records = total, !.records_created = created,
                      !.completed_at = stamp]
  BY DEF SyncedJob
<1> HIDE DEF processed, total, created
<1> DEFINE new == [row EXCEPT !.status = "completed", !.processed_records = processed,
                              !.total_records = total, !.records_created = created,
                              !.completed_at = stamp]
<1>3. new \in JobRow
  BY <1>1 DEF JobRow, Stamps
<1>4. new.status = "completed" /\ new.integration_id = row.integration_id
  BY DEF JobRow
<1> QED BY <1>2, <1>3, <1>4

-----------------------------------------------------------------------------
(* A run that ends without an exception returns an outcome for both rows.    *)
Outcomes(r) ==
    \/ FailNoUrl(r)
    \/ \E m \in CallErrors : CallFails(r, m)
    \/ \E n \in RecordCounts : CallSucceeds(r, n)

LEMMA RunReturns ==
    ASSUME TypeOK, SessionsOK, NEW r \in Requests, Outcomes(r)
    PROVE  \E integration \in IntegrationRow, job \in JobRow :
              /\ pc[r] = "running"
              /\ Return(r, integration, job)
              /\ integration.status \in {"active", "error"}
              /\ job.status \in Terminal
              /\ job.integration_id = tx_job[r].integration_id
<1>1. pc[r] = "running"
  BY DEF Outcomes, FailNoUrl, CallFails, CallSucceeds, Running
<1>2. /\ tx_integration[r] \in IntegrationRow /\ orm_integration[r] \in IntegrationRow
      /\ tx_job[r] \in JobRow /\ orm_job[r] \in JobRow
      /\ now + 1 \in Nat
  BY <1>1 DEF SessionsOK, SessionOK, Began, Holding, InRun, TypeOK
<1>3. ASSUME NEW message \in Messages, Fail(r, message)
      PROVE  \E integration \in IntegrationRow, job \in JobRow :
                /\ Return(r, integration, job)
                /\ integration.status = "error"
                /\ job.status = "failed"
                /\ job.integration_id = tx_job[r].integration_id
  <2> DEFINE stamp == now + 1
             i == FailedIntegration(tx_integration[r], orm_integration[r], message)
             j == FailedJob(tx_job[r], orm_job[r], message, stamp)
  <2>0. stamp \in Nat
    BY <1>2
  <2> HIDE DEF stamp
  <2>1. i \in IntegrationRow /\ i.status = "error"
    BY <1>2, <1>3, FailedIntegrationType
  <2>2. j \in JobRow /\ j.status = "failed" /\ j.integration_id = tx_job[r].integration_id
    BY <1>2, <1>3, <2>0, FailedJobType
  <2>3. Return(r, i, j)
    BY <1>3 DEF Fail, stamp
  <2> HIDE DEF i, j
  <2> QED BY <2>1, <2>2, <2>3
<1>4. ASSUME NEW n \in RecordCounts, Succeed(r, n)
      PROVE  \E integration \in IntegrationRow, job \in JobRow :
                /\ Return(r, integration, job)
                /\ integration.status = "active"
                /\ job.status = "completed"
                /\ job.integration_id = tx_job[r].integration_id
  <2> DEFINE stamp == now + 1
             i == SyncedIntegration(tx_integration[r], orm_integration[r], stamp)
             j == SyncedJob(tx_job[r], orm_job[r], n, stamp)
  <2>0. stamp \in Nat /\ n \in Nat
    BY <1>2, <1>4, RecordAssumption
  <2> HIDE DEF stamp
  <2>1. i \in IntegrationRow /\ i.status = "active"
    BY <1>2, <2>0, SyncedIntegrationType
  <2>2. j \in JobRow /\ j.status = "completed" /\ j.integration_id = tx_job[r].integration_id
    <3>1. tx_job[r] \in JobRow /\ orm_job[r] \in JobRow /\ n \in Nat /\ stamp \in Nat
      BY <1>2, <2>0
    <3> QED BY <3>1, SyncedJobType
  <2>3. Return(r, i, j)
    BY <1>4 DEF Succeed, stamp
  <2> HIDE DEF i, j
  <2> QED BY <2>1, <2>2, <2>3
<1> QED
  BY <1>1, <1>3, <1>4
  DEF Outcomes, FailNoUrl, CallFails, CallSucceeds, Messages, Terminal

-----------------------------------------------------------------------------
Inv == TypeOK /\ SessionsOK /\ ReferencesOK /\ LocksOK

LEMMA TypeStep == Inv /\ Next => TypeOK'
<1> SUFFICES ASSUME Inv, Next PROVE TypeOK'
  OBVIOUS
<1> USE DEF Inv
<1> DEFINE Sessions ==
      /\ orm_integration' \in [Requests -> IntegrationRow \cup {NULL}]
      /\ orm_job' \in [Requests -> JobRow \cup {NULL}]
      /\ tx_integration' \in [Requests -> IntegrationRow \cup {NULL}]
      /\ tx_job' \in [Requests -> JobRow \cup {NULL}]
<1>a. ASSUME NEW S \in SUBSET Requests, CloseSessions(S)
      PROVE  /\ Sessions
             /\ integration_lock' \in [Integrations -> Requests \cup {NULL}]
             /\ job_lock' \in [Jobs -> Requests \cup {NULL}]
  BY <1>a DEF CloseSessions, LetGo, Forget, TypeOK
<1>b. ASSUME NEW r \in Requests, NEW code \in Answers, RollBack(r, code) PROVE TypeOK'
  BY <1>a, <1>b DEF RollBack, Respond, Steps, TypeOK, database, target
<1>1. ASSUME NEW i \in Integrations, NEW url \in Urls, NEW interval \in Intervals,
             NEW auto \in BOOLEAN, CreateIntegration(i, url, interval, auto)
      PROVE  TypeOK'
  <2>1. (IF auto THEN now + interval ELSE NULL) \in Int \cup {NULL}
    BY IntervalAssumption DEF TypeOK
  <2>2. integrations' \in [Integrations -> IntegrationRow \cup {NULL}]
    BY <1>1, <2>1, NewIntegrationType DEF CreateIntegration, TypeOK
  <2> QED BY <1>1, <2>2 DEF CreateIntegration, TypeOK, locks, target, session
<1>2. ASSUME NEW i \in Integrations, NEW url \in Urls, InstallTemplate(i, url)
      PROVE  TypeOK'
  <2>1. integrations' \in [Integrations -> IntegrationRow \cup {NULL}]
    BY <1>2, NewIntegrationType DEF InstallTemplate, TypeOK
  <2> QED BY <1>2, <2>1 DEF InstallTemplate, TypeOK, locks, target, session
<1>3. ASSUME NEW j \in Jobs, NEW i \in Integrations, NEW direction \in Directions,
             ConfigureSync(j, i, direction)
      PROVE  TypeOK'
  <2>1. sync_jobs' \in [Jobs -> JobRow \cup {NULL}]
    BY <1>3, NewJobType DEF ConfigureSync, TypeOK
  <2> QED BY <1>3, <2>1 DEF ConfigureSync, TypeOK, locks, target, session
<1>4. ASSUME NEW r \in Requests, RejectUnknown(r) PROVE TypeOK'
  BY <1>4 DEF RejectUnknown, Respond, TypeOK, Steps, Answers, database, locks, target, session
<1>5. ASSUME NEW r \in Requests, NEW j \in Jobs, RejectFinished(r, j) PROVE TypeOK'
  BY <1>5 DEF RejectFinished, Respond, TypeOK, Steps, Answers, database, locks, target, session
<1>6. ASSUME NEW r \in Requests, NEW j \in Jobs, TriggerJob(r, j) PROVE TypeOK'
  <2>1. sync_jobs[j] \in JobRow /\ sync_jobs[j].integration_id \in Integrations
    BY <1>6 DEF TriggerJob, TypeOK, JobRow
  <2> QED BY <1>6, <2>1 DEF TriggerJob, TypeOK, Steps, database, locks
<1>7. ASSUME NEW r \in Requests, NEW i \in Integrations, NEW job \in JobRow,
             integrations[i] # NULL, Begin(r, i, job)
      PROVE  /\ pc' \in [Requests -> Steps]
             /\ now' \in Nat
             /\ orm_integration' \in [Requests -> IntegrationRow \cup {NULL}]
             /\ orm_job' \in [Requests -> JobRow \cup {NULL}]
  <2>1. [job EXCEPT !.status = "running", !.started_at = now + 1] \in JobRow
    <3>1. now + 1 \in Stamps
      BY DEF TypeOK, Stamps
    <3> QED BY <3>1, FlushedJobType
  <2>2. [integrations[i] EXCEPT !.status = "syncing"] \in IntegrationRow
    BY <1>7, FlushedIntegrationType DEF TypeOK
  <2> QED BY <1>7, <2>1, <2>2 DEF Begin, TypeOK, Steps
<1>8. ASSUME NEW r \in Requests, LoadIntegration(r) PROVE TypeOK'
  <2>1. /\ integration_of[r] \in Integrations /\ integrations[integration_of[r]] # NULL
        /\ orm_job[r] \in JobRow
    BY <1>8, NullAssumption DEF LoadIntegration, SessionsOK, SessionOK, ReferencesOK
  <2> QED BY <1>7, <1>8, <2>1 DEF LoadIntegration, TypeOK, database, locks, target
<1>9. ASSUME NEW r \in Requests, NEW i \in Integrations, NEW j \in Jobs,
             TriggerIntegration(r, i, j)
      PROVE  TypeOK'
  <2>1. NewJob(i, "pull") \in JobRow
    BY NewJobType
  <2> QED BY <1>7, <1>9, <2>1 DEF TriggerIntegration, TypeOK, database, locks
<1>10. ASSUME NEW r \in Requests, FlushIntegration(r) PROVE TypeOK'
  <2> DEFINE i == integration_of[r]
  <2>1. i \in Integrations /\ orm_integration[r] \in IntegrationRow
    BY <1>10 DEF FlushIntegration, SessionsOK, SessionOK, Began
  <2>2. integrations[i] \in IntegrationRow
    BY <2>1, NullAssumption DEF ReferencesOK, TypeOK
  <2>3. [integrations[i] EXCEPT !.status = orm_integration[r].status] \in IntegrationRow
    BY <2>1, <2>2 DEF IntegrationRow
  <2> QED BY <1>10, <2>1, <2>3 DEF FlushIntegration, Syncing, TypeOK, Steps, database, target
<1>11. ASSUME NEW r \in Requests, FlushJob(r) PROVE TypeOK'
  <2> DEFINE j   == job_of[r]
             row == IF sync_jobs[j] = NULL THEN orm_job[r] ELSE sync_jobs[j]
  <2>1. j \in Jobs /\ orm_job[r] \in JobRow
    BY <1>11 DEF FlushJob, SessionsOK, SessionOK, Began
  <2>2. row \in JobRow
    BY <2>1 DEF TypeOK
  <2>3. [row EXCEPT !.status = orm_job[r].status, !.started_at = orm_job[r].started_at] \in JobRow
    BY <2>1, <2>2 DEF JobRow
  <2> QED BY <1>11, <2>1, <2>3 DEF FlushJob, TypeOK, Steps, database, target
<1>12. ASSUME NEW r \in Requests, pc[r] = "running", NEW integration \in IntegrationRow,
              NEW job \in JobRow, Return(r, integration, job)
       PROVE  TypeOK'
  BY <1>12 DEF Return, TypeOK, Steps, database, locks, target
<1>13. ASSUME NEW r \in Requests, Outcomes(r) PROVE TypeOK'
  BY <1>12, <1>13, RunReturns
<1>14. ASSUME NEW r \in Requests, Commit(r) PROVE TypeOK'
  <2>1. /\ job_of[r] \in Jobs /\ integration_of[r] \in Integrations
        /\ tx_integration[r] \in IntegrationRow /\ tx_job[r] \in JobRow
    BY <1>14 DEF Commit, SessionsOK, SessionOK, Began, Holding, InRun
  <2>2. CloseSessions({r})
    BY <1>14 DEF Commit
  <2> QED BY <1>a, <1>14, <2>1, <2>2 DEF Commit, TypeOK, Steps, target
<1>15. ASSUME NEW r \in Requests, Answer(r) PROVE TypeOK'
  <2>1. sync_jobs[job_of[r]].status \in Answers
    BY <1>15 DEF Answer, SessionsOK, SessionOK, Answers
  <2> QED BY <1>15, <2>1 DEF Answer, Respond, TypeOK, Steps, database, locks, target, session
<1>16. CASE Crash
  BY <1>a, <1>16 DEF Crash, InFlight, TypeOK, Steps, database, target
<1>17. CASE Idle
  BY <1>17 DEF Idle, vars, TypeOK, database, locks, target, session
<1> QED
  BY <1>b, <1>1, <1>2, <1>3, <1>4, <1>5, <1>6, <1>8, <1>9, <1>10, <1>11, <1>13,
     <1>14, <1>15, <1>16, <1>17
  DEF Next, Configure, Arrive, Proceed, Outcomes, Raise, DatabaseError, Answers
-----------------------------------------------------------------------------
(* Only four handlers write to the committed tables.                        *)
LEMMA Writers ==
    ASSUME Next
    PROVE  \/ UNCHANGED database
           \/ \E i \in Integrations, url \in Urls :
                 \/ \E interval \in Intervals, auto \in BOOLEAN :
                       CreateIntegration(i, url, interval, auto)
                 \/ InstallTemplate(i, url)
           \/ \E j \in Jobs, i \in Integrations, direction \in Directions :
                 ConfigureSync(j, i, direction)
           \/ \E r \in Requests : Commit(r)
  BY DEF Next, Configure, Arrive, Proceed, RejectUnknown, RejectFinished, TriggerJob, TriggerIntegration,
     LoadIntegration, FlushIntegration, FlushJob, FailNoUrl, CallFails, Fail, CallSucceeds,
     Succeed, Return, Raise, RollBack, Answer, DatabaseError, Crash, Idle, vars, database

(* Committed rows are never deleted, a job stays with its integration, and  *)
(* a terminal job stays terminal.                                           *)
RowsStay ==
    /\ \A i \in Integrations : integrations[i] # NULL => integrations'[i] # NULL
    /\ \A j \in Jobs : sync_jobs[j] # NULL =>
          /\ sync_jobs'[j] # NULL
          /\ sync_jobs'[j].integration_id = sync_jobs[j].integration_id
          /\ sync_jobs[j].status \in Terminal => sync_jobs'[j].status \in Terminal

LEMMA RowsStayStep == Inv /\ Next => RowsStay
<1> SUFFICES ASSUME Inv, Next PROVE RowsStay
  OBVIOUS
<1> USE DEF Inv
<1>1. CASE UNCHANGED database
  BY <1>1 DEF database, RowsStay
<1>2. ASSUME NEW i \in Integrations, NEW url \in Urls, NEW interval \in Intervals,
             NEW auto \in BOOLEAN, CreateIntegration(i, url, interval, auto)
      PROVE  RowsStay
  BY <1>2 DEF CreateIntegration, TypeOK, RowsStay
<1>3. ASSUME NEW i \in Integrations, NEW url \in Urls, InstallTemplate(i, url)
      PROVE  RowsStay
  BY <1>3 DEF InstallTemplate, TypeOK, RowsStay
<1>4. ASSUME NEW j \in Jobs, NEW i \in Integrations, NEW direction \in Directions,
             ConfigureSync(j, i, direction)
      PROVE  RowsStay
  BY <1>4 DEF ConfigureSync, Fresh, TypeOK, RowsStay
<1>5. ASSUME NEW r \in Requests, Commit(r) PROVE RowsStay
  <2>1. /\ job_of[r] \in Jobs /\ integration_of[r] \in Integrations
        /\ tx_integration[r] # NULL /\ tx_job[r] # NULL
        /\ tx_job[r].status \in Terminal
        /\ tx_job[r].integration_id = integration_of[r]
    BY <1>5, NullIsNoRow
    DEF Commit, SessionsOK, SessionOK, ReferencesOK, Began, Holding, InRun
  <2>2. sync_jobs[job_of[r]] # NULL =>
            sync_jobs[job_of[r]].integration_id = tx_job[r].integration_id
    BY <2>1, NullAssumption DEF ReferencesOK
  <2> QED BY <1>5, <2>1, <2>2 DEF Commit, TypeOK, RowsStay
<1> QED BY <1>1, <1>2, <1>3, <1>4, <1>5, Writers
-----------------------------------------------------------------------------
(* A request that does not move keeps what it knows, whatever others commit.*)
Still(s) ==
    /\ pc'[s] = pc[s] /\ job_of'[s] = job_of[s] /\ integration_of'[s] = integration_of[s]
    /\ orm_integration'[s] = orm_integration[s] /\ orm_job'[s] = orm_job[s]
    /\ tx_integration'[s] = tx_integration[s] /\ tx_job'[s] = tx_job[s]

LEMMA StillOK ==
    ASSUME NEW s \in Requests, SessionOK(s), Still(s), RowsStay
    PROVE  SessionOK(s)'
  BY DEF SessionOK, Still, RowsStay, Began, Holding, InRun, Terminal

(* A request that is over knows nothing any more.                           *)
LEMMA OverOK ==
    ASSUME NEW s \in Requests, pc'[s] \in {"new", "done", "lost"}
    PROVE  SessionOK(s)'
  BY DEF SessionOK, Began, Holding, InRun

(* Which requests a step can move: one, or in a crash all that are in       *)
(* flight.                                                                  *)
Moves(r) ==
    \/ Arrive(r)
    \/ Proceed(r)
    \/ DatabaseError(r)

LEMMA OthersAreStill ==
    ASSUME TypeOK, NEW r \in Requests, Moves(r), NEW s \in Requests, s # r
    PROVE  Still(s)
<1> USE DEF TypeOK, Still
<1>1. CASE Arrive(r)
  BY <1>1 DEF Arrive, RejectUnknown, RejectFinished, TriggerJob, TriggerIntegration, Begin,
     Respond, session, target
<1>2. CASE LoadIntegration(r) \/ FlushIntegration(r) \/ FlushJob(r)
  BY <1>2 DEF LoadIntegration, Begin, FlushIntegration, FlushJob, target
<1>3. ASSUME NEW integration, NEW job, Return(r, integration, job) PROVE Still(s)
  BY <1>3 DEF Return, target
<1>4. ASSUME NEW message, Fail(r, message) PROVE Still(s)
  BY <1>3, <1>4 DEF Fail
<1>5. ASSUME NEW n, CallSucceeds(r, n) PROVE Still(s)
  BY <1>3, <1>5 DEF CallSucceeds, Succeed
<1>6. ASSUME NEW code, RollBack(r, code) PROVE Still(s)
  BY <1>6 DEF RollBack, CloseSessions, Forget, Respond, target
<1>7. CASE Commit(r)
  BY <1>7 DEF Commit, CloseSessions, Forget, target
<1>8. CASE Answer(r)
  BY <1>8 DEF Answer, Respond, session, target
<1> QED
  BY <1>1, <1>2, <1>4, <1>5, <1>6, <1>7, <1>8
  DEF Moves, Proceed, FailNoUrl, CallFails, Raise, DatabaseError

LEMMA SessionsStep == Inv /\ Next => SessionsOK'
<1> SUFFICES ASSUME Inv, Next, NEW s \in Requests PROVE SessionOK(s)'
  BY DEF SessionsOK
<1> USE DEF Inv
<1>a. RowsStay /\ TypeOK'
  BY RowsStayStep, TypeStep
<1>b. SessionOK(s)
  BY DEF SessionsOK
<1>c. ASSUME Still(s) PROVE SessionOK(s)'
  BY <1>a, <1>b, <1>c, StillOK
<1>1. ASSUME RejectUnknown(s) \/ (\E j \in Jobs : RejectFinished(s, j)) PROVE SessionOK(s)'
  BY <1>1, OverOK DEF RejectUnknown, RejectFinished, Respond, TypeOK
<1>2. ASSUME NEW j \in Jobs, TriggerJob(s, j) PROVE SessionOK(s)'
  <2>1. pc'[s] = "loaded" /\ job_of'[s] = j /\ integration_of'[s] = sync_jobs[j].integration_id
        /\ orm_job'[s] = sync_jobs[j] /\ sync_jobs' = sync_jobs /\ sync_jobs[j] # NULL
    BY <1>2 DEF TriggerJob, TypeOK, database
  <2>2. sync_jobs[j] \in JobRow /\ sync_jobs[j].integration_id \in Integrations
    BY <2>1 DEF TypeOK, JobRow
  <2> QED BY <2>1, <2>2 DEF SessionOK, Began, Holding, InRun
<1>3. ASSUME NEW j \in Jobs, NEW i \in Integrations,
             TriggerIntegration(s, i, j) \/ (LoadIntegration(s) /\ j = job_of[s] /\ i = integration_of[s])
      PROVE  SessionOK(s)'
  <2>1. pc'[s] = "flushing" /\ job_of'[s] = j /\ integration_of'[s] = i
    BY <1>3 DEF TriggerIntegration, LoadIntegration, Begin, TypeOK, target
  <2>2. orm_integration'[s] # NULL /\ orm_job'[s] # NULL
    <3>1. integrations[i] \in IntegrationRow
      BY <1>3, NullAssumption
      DEF TriggerIntegration, LoadIntegration, SessionOK, ReferencesOK, TypeOK, database
    <3>2. [integrations[i] EXCEPT !.status = "syncing"] \in IntegrationRow
      BY <3>1, FlushedIntegrationType
    <3>3. NewJob(i, "pull") \in JobRow
      BY NewJobType
    <3>4. LoadIntegration(s) => orm_job[s] \in JobRow
      BY <1>b DEF LoadIntegration, SessionOK
    <3>5. now + 1 \in Stamps
      BY DEF TypeOK, Stamps
    <3>6. \E job \in JobRow :
             /\ Begin(s, i, job)
             /\ [job EXCEPT !.status = "running", !.started_at = now + 1] \in JobRow
      BY <1>3, <3>3, <3>4, <3>5, FlushedJobType DEF TriggerIntegration, LoadIntegration
    <3>7. orm_integration'[s] \in IntegrationRow /\ orm_job'[s] \in JobRow
      BY <3>2, <3>6 DEF Begin, TypeOK
    <3> QED BY <3>7, NullIsNoRow
  <2> QED BY <1>a, <2>1, <2>2 DEF SessionOK, TypeOK, Began, Holding, InRun
<1>4. CASE FlushIntegration(s)
  <2>1. pc'[s] = "locked" /\ tx_integration'[s] # NULL
    <3>1. pc'[s] = "locked"
      BY <1>4 DEF FlushIntegration, Syncing, TypeOK
    <3>2. integrations[integration_of[s]] \in IntegrationRow
      BY <1>4, <1>b, NullAssumption
      DEF FlushIntegration, SessionOK, Began, ReferencesOK, TypeOK
    <3>3. orm_integration[s] \in IntegrationRow
      BY <1>4, <1>b DEF FlushIntegration, SessionOK, Began
    <3>4. [integrations[integration_of[s]] EXCEPT !.status = orm_integration[s].status]
            \in IntegrationRow
      BY <3>2, <3>3 DEF IntegrationRow
    <3> QED BY <1>4, <3>1, <3>4, NullIsNoRow DEF FlushIntegration, Syncing, TypeOK, Began
  <2>2. /\ job_of'[s] \in Jobs /\ integration_of'[s] \in Integrations
        /\ orm_job'[s] \in JobRow /\ orm_integration'[s] \in IntegrationRow
    BY <1>4, <1>b DEF FlushIntegration, SessionOK, Began, target
  <2> QED BY <1>a, <2>1, <2>2 DEF SessionOK, TypeOK, Holding, InRun
<1>5. CASE FlushJob(s)
  <2>1. pc'[s] = "running"
    BY <1>5 DEF FlushJob, TypeOK
  <2>2. /\ job_of'[s] \in Jobs /\ integration_of'[s] \in Integrations
        /\ orm_job'[s] \in JobRow /\ orm_integration'[s] \in IntegrationRow
        /\ tx_integration'[s] \in IntegrationRow
    BY <1>5, <1>b DEF FlushJob, SessionOK, Began, Holding, target
  <2>3. tx_job'[s] # NULL
    <3> DEFINE row == IF sync_jobs[job_of[s]] = NULL THEN orm_job[s] ELSE sync_jobs[job_of[s]]
    <3>1. orm_job[s] \in JobRow /\ row \in JobRow
      BY <1>5, <1>b DEF FlushJob, SessionOK, Began, TypeOK
    <3>2. [row EXCEPT !.status = orm_job[s].status, !.started_at = orm_job[s].started_at]
            \in JobRow
      BY <3>1 DEF JobRow
    <3> QED BY <1>5, <3>2, NullIsNoRow DEF FlushJob, TypeOK
  <2> QED BY <1>a, <2>1, <2>2, <2>3 DEF SessionOK, TypeOK, Began, Holding, InRun
<1>6. ASSUME NEW integration \in IntegrationRow, NEW job \in JobRow, pc[s] = "running",
             integration.status \in {"active", "error"}, job.status \in Terminal,
             Return(s, integration, job)
      PROVE  SessionOK(s)'
  <2>1. /\ pc'[s] = "returned" /\ tx_integration'[s] = integration /\ tx_job'[s] = job
        /\ job_of'[s] = job_of[s] /\ integration_of'[s] = integration_of[s]
        /\ orm_job'[s] = orm_job[s] /\ orm_integration'[s] = orm_integration[s]
    BY <1>6 DEF Return, TypeOK, target
  <2> QED BY <1>6, <1>b, <2>1 DEF SessionOK, Began, Holding, InRun
<1>7. CASE Outcomes(s)
  BY <1>6, <1>7, RunReturns
<1>8. ASSUME NEW code, RollBack(s, code) PROVE SessionOK(s)'
  BY <1>8, OverOK DEF RollBack, Respond, TypeOK
<1>9. CASE Commit(s)
  <2>1. /\ pc'[s] = "committed" /\ job_of'[s] \in Jobs /\ integration_of'[s] \in Integrations
        /\ sync_jobs'[job_of'[s]] = tx_job[s] /\ tx_job[s] \in JobRow
        /\ tx_job[s].status \in Terminal
    BY <1>9, <1>b DEF Commit, SessionOK, Began, InRun, TypeOK, target
  <2> QED BY <2>1, NullIsNoRow DEF SessionOK, Began, Holding, InRun
<1>10. CASE Answer(s)
  BY <1>10, OverOK DEF Answer, Respond, TypeOK
<1>11. CASE Crash
  <2>1. CASE s \in InFlight
    BY <1>11, <2>1, OverOK DEF Crash
  <2>2. CASE s \notin InFlight
    BY <1>11, <2>2, OverOK DEF Crash, InFlight
  <2> QED BY <2>1, <2>2
<1>12. CASE Moves(s)
  <2>1. CASE Arrive(s)
    BY <1>1, <1>2, <1>3, <2>1 DEF Arrive
  <2>2. CASE LoadIntegration(s)
    BY <1>3, <1>b, <2>2 DEF LoadIntegration, SessionOK
  <2> QED
    BY <1>4, <1>5, <1>7, <1>8, <1>9, <1>10, <1>12, <2>1, <2>2
    DEF Moves, Proceed, Outcomes, Raise, DatabaseError
<1>13. ASSUME NEW r \in Requests, r # s, Moves(r) PROVE SessionOK(s)'
  BY <1>c, <1>13, OthersAreStill
<1> QED
  <2>1. ASSUME NEW r \in Requests, Moves(r) PROVE SessionOK(s)'
    BY <1>12, <1>13, <2>1
  <2>2. CASE Idle
    BY <1>c, <2>2 DEF Idle, vars, target, session, Still
  <2>3. ASSUME NEW i \in Integrations, NEW url \in Urls, InstallTemplate(i, url)
        PROVE  SessionOK(s)'
    BY <1>c, <2>3 DEF InstallTemplate, target, session, Still
  <2>4. ASSUME NEW i \in Integrations, NEW url \in Urls, NEW interval \in Intervals,
               NEW auto \in BOOLEAN, CreateIntegration(i, url, interval, auto)
        PROVE  SessionOK(s)'
    BY <1>c, <2>4 DEF CreateIntegration, target, session, Still
  <2>5. ASSUME NEW j \in Jobs, NEW i \in Integrations, NEW direction \in Directions,
               ConfigureSync(j, i, direction)
        PROVE  SessionOK(s)'
    BY <1>c, <2>5 DEF ConfigureSync, target, session, Still
  <2> QED BY <1>11, <2>1, <2>2, <2>3, <2>4, <2>5 DEF Next, Configure, Moves
-----------------------------------------------------------------------------
(* Releasing the locks of requests that leave the steps where they are held *)
(* keeps the others' locks.                                                 *)
LEMMA ReleaseOK ==
    ASSUME TypeOK, SessionsOK, LocksOK, NEW S \in SUBSET Requests, CloseSessions(S),
           UNCHANGED target,
           \A r \in S : pc'[r] \notin Holding,
           \A r \in Requests \ S : pc'[r] = pc[r]
    PROVE  LocksOK'
<1>1. ASSUME NEW r \in Requests, pc'[r] \in Holding
      PROVE  integration_lock'[integration_of'[r]] = r
  <2>1. r \notin S /\ pc[r] \in Holding /\ integration_of' = integration_of
    BY <1>1 DEF target
  <2>2. integration_of[r] \in Integrations /\ integration_lock[integration_of[r]] = r
    BY <2>1 DEF LocksOK, SessionsOK, SessionOK, Began, Holding
  <2> QED BY <2>1, <2>2 DEF CloseSessions, LetGo, TypeOK
<1>2. ASSUME NEW r \in Requests, pc'[r] \in InRun PROVE job_lock'[job_of'[r]] = r
  <2>1. r \notin S /\ pc[r] \in InRun /\ job_of' = job_of
    BY <1>2 DEF target, Holding, InRun
  <2>2. job_of[r] \in Jobs /\ job_lock[job_of[r]] = r
    BY <2>1 DEF LocksOK, SessionsOK, SessionOK, Began, InRun
  <2> QED BY <2>1, <2>2 DEF CloseSessions, LetGo, TypeOK
<1>3. ASSUME NEW i \in Integrations, integration_lock'[i] # NULL
      PROVE  /\ pc'[integration_lock'[i]] \in Holding
             /\ integration_of'[integration_lock'[i]] = i
  BY <1>3 DEF LocksOK, CloseSessions, LetGo, target, TypeOK
<1>4. ASSUME NEW j \in Jobs, job_lock'[j] # NULL
      PROVE  /\ pc'[job_lock'[j]] \in InRun
             /\ job_of'[job_lock'[j]] = j
  BY <1>4 DEF LocksOK, CloseSessions, LetGo, target, TypeOK
<1> QED BY <1>1, <1>2, <1>3, <1>4 DEF LocksOK, Holding, InRun

LEMMA LocksStep == Inv /\ Next => LocksOK'
<1> SUFFICES ASSUME Inv, Next PROVE LocksOK'
  OBVIOUS
<1> USE DEF Inv
<1>a. ASSUME UNCHANGED <<locks, pc, target>> PROVE LocksOK'
  BY <1>a DEF LocksOK, locks, target, Holding, InRun
(* A request that neither holds a lock nor gets one moves. *)
<1>b. ASSUME NEW r \in Requests, UNCHANGED locks, pc[r] \notin Holding,
             NEW step \in Steps \ Holding, pc' = [pc EXCEPT ![r] = step],
             NEW j, job_of' = [job_of EXCEPT ![r] = j],
             NEW i, integration_of' = [integration_of EXCEPT ![r] = i]
      PROVE  LocksOK'
  BY <1>b DEF LocksOK, TypeOK, locks, Holding, InRun
<1>c. ASSUME NEW r \in Requests, UNCHANGED <<locks, target>>, pc[r] \notin Holding,
             NEW step \in Steps \ Holding, pc' = [pc EXCEPT ![r] = step]
      PROVE  LocksOK'
  BY <1>c DEF LocksOK, TypeOK, locks, target, Holding, InRun
<1>1. ASSUME NEW r \in Requests, NEW code, RollBack(r, code) PROVE LocksOK'
  BY <1>1, ReleaseOK DEF RollBack, Respond, TypeOK, Holding
<1>2. ASSUME NEW r \in Requests, RejectUnknown(r) \/ (\E j \in Jobs : RejectFinished(r, j))
      PROVE  LocksOK'
  BY <1>2, <1>c DEF RejectUnknown, RejectFinished, MayArrive, Respond, Steps, Holding
<1>3. ASSUME NEW r \in Requests, NEW j \in Jobs, TriggerJob(r, j) PROVE LocksOK'
  BY <1>3, <1>b DEF TriggerJob, MayArrive, Steps, Holding
<1>4. ASSUME NEW r \in Requests, LoadIntegration(r) PROVE LocksOK'
  BY <1>4, <1>c DEF LoadIntegration, Begin, Steps, Holding
<1>5. ASSUME NEW r \in Requests, NEW i \in Integrations, NEW j \in Jobs,
             TriggerIntegration(r, i, j)
      PROVE  LocksOK'
  BY <1>5, <1>b DEF TriggerIntegration, Begin, MayArrive, Steps, Holding
<1>6. ASSUME NEW r \in Requests, FlushIntegration(r) PROVE LocksOK'
  BY <1>6, NullAssumption
  DEF FlushIntegration, Unlocked, LocksOK, SessionsOK, SessionOK, TypeOK, target, Began, Holding, InRun
<1>7. ASSUME NEW r \in Requests, FlushJob(r) PROVE LocksOK'
  BY <1>7, NullAssumption
  DEF FlushJob, Unlocked, LocksOK, SessionsOK, SessionOK, TypeOK, target, Began, Holding, InRun
<1>8. ASSUME NEW r \in Requests, Outcomes(r) PROVE LocksOK'
  <2>1. UNCHANGED <<locks, target>> /\ pc[r] = "running" /\ pc' = [pc EXCEPT ![r] = "returned"]
    BY <1>8, RunReturns DEF Return
  <2> QED BY <2>1 DEF LocksOK, TypeOK, locks, target, Holding, InRun
<1>9. ASSUME NEW r \in Requests, Commit(r) PROVE LocksOK'
  BY <1>9, ReleaseOK DEF Commit, TypeOK, Holding
<1>10. ASSUME NEW r \in Requests, Answer(r) PROVE LocksOK'
  BY <1>10, <1>c DEF Answer, Respond, Steps, Holding
<1>11. CASE Crash
  <2>1. /\ InFlight \in SUBSET Requests
        /\ \A r \in InFlight : pc'[r] \notin Holding
        /\ \A r \in Requests \ InFlight : pc'[r] = pc[r]
    BY <1>11 DEF Crash, InFlight, Holding
  <2> QED BY <1>11, <2>1, ReleaseOK DEF Crash
<1> QED
  BY <1>a, <1>1, <1>2, <1>3, <1>4, <1>5, <1>6, <1>7, <1>8, <1>9, <1>10, <1>11
  DEF Next, Configure, Arrive, Proceed, Outcomes, Raise, DatabaseError, CreateIntegration,
      InstallTemplate, ConfigureSync, Idle, vars

-----------------------------------------------------------------------------
LEMMA ReferencesStep == Inv /\ Next => ReferencesOK'
<1> SUFFICES ASSUME Inv, Next PROVE ReferencesOK'
  OBVIOUS
<1> USE DEF Inv
<1>a. RowsStay
  BY RowsStayStep
(* What a step that touches none of the tables and no request's target must *)
(* still show: that the copies it makes belong to the same integration.     *)
<1>b. ASSUME UNCHANGED <<database, target>>,
             \A r \in Requests : pc'[r] \in {"loaded"} \cup Began =>
                 orm_job'[r].integration_id = integration_of[r],
             \A r \in Requests : pc'[r] \in InRun =>
                 tx_job'[r].integration_id = integration_of[r]
      PROVE  ReferencesOK'
  BY <1>b DEF ReferencesOK, database, target, Began, InRun
<1>1. ASSUME NEW i \in Integrations, integrations[i] = NULL, NEW row \in IntegrationRow,
             integrations' = [integrations EXCEPT ![i] = row],
             UNCHANGED <<sync_jobs, locks, pc, target, answer, session, failures, now>>
      PROVE  ReferencesOK'
  BY <1>1, NullIsNoRow DEF ReferencesOK, TypeOK, target, session, Began, InRun
<1>2. ASSUME NEW r \in Requests, NEW code, RollBack(r, code) PROVE ReferencesOK'
  BY <1>2, <1>b DEF RollBack, CloseSessions, Forget, Respond, TypeOK, ReferencesOK, target,
     Began, InRun
<1>3. ASSUME NEW r \in Requests, RejectUnknown(r) \/ (\E j \in Jobs : RejectFinished(r, j))
      PROVE  ReferencesOK'
  BY <1>3, <1>b DEF RejectUnknown, RejectFinished, Respond, TypeOK, ReferencesOK, session,
     Began, InRun
<1>4. ASSUME NEW r \in Requests, NEW j \in Jobs, TriggerJob(r, j) PROVE ReferencesOK'
  <2>1. /\ sync_jobs[j] \in JobRow /\ integrations[sync_jobs[j].integration_id] # NULL
        /\ pc[r] = "new"
    BY <1>4 DEF TriggerJob, MayArrive, TypeOK, ReferencesOK
  <2> QED BY <1>4, <2>1, NullAssumption DEF TriggerJob, TypeOK, ReferencesOK, database, Began, InRun
<1>5. ASSUME NEW r \in Requests, LoadIntegration(r) PROVE ReferencesOK'
  <2>1. orm_job[r] \in JobRow /\ now + 1 \in Stamps
    BY <1>5 DEF LoadIntegration, SessionsOK, SessionOK, TypeOK, Stamps
  <2>2. /\ orm_job'[r].integration_id = orm_job[r].integration_id
        /\ \A s \in Requests \ {r} : orm_job'[s] = orm_job[s] /\ pc'[s] = pc[s]
        /\ pc'[r] = "flushing" /\ pc[r] = "loaded" /\ tx_job' = tx_job
    BY <1>5, <2>1, FlushedJobType DEF LoadIntegration, Begin, TypeOK
  <2> QED BY <1>b, <1>5, <2>2 DEF LoadIntegration, ReferencesOK, Began, InRun
<1>6. ASSUME NEW r \in Requests, NEW i \in Integrations, NEW j \in Jobs,
             TriggerIntegration(r, i, j)
      PROVE  ReferencesOK'
  <2>1. /\ NewJob(i, "pull") \in JobRow /\ NewJob(i, "pull").integration_id = i
        /\ now + 1 \in Stamps
    BY NewJobType DEF TypeOK, Stamps
  <2>2. /\ orm_job'[r].integration_id = i /\ job_of'[r] = j /\ integration_of'[r] = i
        /\ \A s \in Requests \ {r} :
              /\ orm_job'[s] = orm_job[s] /\ pc'[s] = pc[s]
              /\ job_of'[s] = job_of[s] /\ integration_of'[s] = integration_of[s]
        /\ pc'[r] = "flushing" /\ tx_job' = tx_job /\ UNCHANGED database
    BY <1>6, <2>1, FlushedJobType DEF TriggerIntegration, Begin, TypeOK
  <2>3. sync_jobs[j] = NULL /\ integrations[i] # NULL /\ \A s \in Requests : job_of[s] # j
    BY <1>6 DEF TriggerIntegration, Fresh
  <2> QED BY <2>2, <2>3 DEF ReferencesOK, database, Began, InRun
<1>7. ASSUME NEW r \in Requests, FlushIntegration(r) PROVE ReferencesOK'
  BY <1>7, <1>b DEF FlushIntegration, Syncing, TypeOK, ReferencesOK, Began, InRun
<1>8. ASSUME NEW r \in Requests, FlushJob(r) PROVE ReferencesOK'
  <2> DEFINE row == IF sync_jobs[job_of[r]] = NULL THEN orm_job[r] ELSE sync_jobs[job_of[r]]
  <2>1. /\ job_of[r] \in Jobs /\ orm_job[r] \in JobRow /\ row \in JobRow
        /\ orm_job[r].integration_id = integration_of[r]
    BY <1>8 DEF FlushJob, SessionsOK, SessionOK, TypeOK, ReferencesOK, Began
  <2>2. row.integration_id = integration_of[r]
    BY <2>1, NullAssumption DEF ReferencesOK
  <2>3. [row EXCEPT !.status = orm_job[r].status,
                    !.started_at = orm_job[r].started_at].integration_id = integration_of[r]
    BY <2>1, <2>2 DEF JobRow
  <2>4. /\ tx_job'[r].integration_id = integration_of[r] /\ pc[r] = "locked" /\ pc'[r] = "running"
        /\ \A s \in Requests \ {r} : tx_job'[s] = tx_job[s] /\ pc'[s] = pc[s]
        /\ orm_job' = orm_job
    BY <1>8, <2>3 DEF FlushJob, TypeOK
  <2> QED BY <1>b, <1>8, <2>4 DEF FlushJob, ReferencesOK, Began, InRun
<1>9. ASSUME NEW r \in Requests, Outcomes(r) PROVE ReferencesOK'
  <2>1. /\ tx_job'[r].integration_id = tx_job[r].integration_id
        /\ pc[r] = "running" /\ pc'[r] = "returned"
        /\ \A s \in Requests \ {r} : tx_job'[s] = tx_job[s] /\ pc'[s] = pc[s]
        /\ orm_job' = orm_job /\ UNCHANGED <<database, target>>
    BY <1>9, RunReturns DEF Return, TypeOK
  <2> QED BY <1>b, <2>1 DEF ReferencesOK, Began, InRun
<1>10. ASSUME NEW r \in Requests, Answer(r) PROVE ReferencesOK'
  BY <1>10, <1>b DEF Answer, Respond, TypeOK, ReferencesOK, session, Began, InRun
<1>11. CASE Crash
  BY <1>11, <1>b DEF Crash, CloseSessions, Forget, InFlight, TypeOK, ReferencesOK, Began, InRun
<1>12. ASSUME NEW r \in Requests, Commit(r) PROVE ReferencesOK'
  <2>1. /\ job_of[r] \in Jobs /\ integration_of[r] \in Integrations
        /\ tx_integration[r] # NULL /\ tx_job[r] # NULL
        /\ tx_job[r].integration_id = integration_of[r]
    BY <1>12, NullIsNoRow
    DEF Commit, SessionsOK, SessionOK, ReferencesOK, Began, Holding, InRun
  <2>2. /\ UNCHANGED target
        /\ \A s \in Requests : pc'[s] = IF s = r THEN "committed" ELSE pc[s]
        /\ \A s \in Requests \ {r} : orm_job'[s] = orm_job[s] /\ tx_job'[s] = tx_job[s]
        /\ \A i \in Integrations : integrations'[i] =
               IF i = integration_of[r] THEN tx_integration[r] ELSE integrations[i]
        /\ \A j \in Jobs : sync_jobs'[j] = IF j = job_of[r] THEN tx_job[r] ELSE sync_jobs[j]
    BY <1>12, <2>1 DEF Commit, CloseSessions, Forget, TypeOK
  <2>3. \A j \in Jobs : sync_jobs'[j] # NULL => integrations'[sync_jobs'[j].integration_id] # NULL
    BY <2>1, <2>2 DEF ReferencesOK, TypeOK, JobRow
  <2>4. \A s \in Requests : integration_of'[s] # NULL => integrations'[integration_of'[s]] # NULL
    BY <1>a, <2>2 DEF ReferencesOK, RowsStay, TypeOK, target
  <2>5. ASSUME NEW s \in Requests, job_of[s] # NULL, sync_jobs'[job_of[s]] # NULL
        PROVE  sync_jobs'[job_of[s]].integration_id = integration_of[s]
    <3>1. job_of[s] \in Jobs
      BY <2>5 DEF TypeOK
    <3>2. CASE sync_jobs[job_of[s]] # NULL
      BY <1>a, <2>5, <3>1, <3>2 DEF ReferencesOK, RowsStay
    <3>3. CASE sync_jobs[job_of[s]] = NULL
      BY <2>1, <2>2, <2>5, <3>1, <3>3 DEF ReferencesOK
    <3> QED BY <3>2, <3>3
  <2>6. ASSUME NEW s \in Requests, NEW t \in Requests, job_of[s] # NULL,
               sync_jobs'[job_of[s]] = NULL, job_of[t] = job_of[s]
        PROVE  s = t
    BY <1>a, <2>6 DEF ReferencesOK, RowsStay, TypeOK
  <2> QED BY <2>2, <2>3, <2>4, <2>5, <2>6 DEF ReferencesOK, target, Began, InRun
<1>13. ASSUME NEW j \in Jobs, NEW i \in Integrations, NEW direction \in Directions,
              ConfigureSync(j, i, direction)
       PROVE  ReferencesOK'
  BY <1>13, NewJobType, NullAssumption
  DEF ConfigureSync, Fresh, ReferencesOK, TypeOK, target, session, Began, InRun
<1>14. CASE Idle
  BY <1>14, <1>b DEF Idle, vars, session, ReferencesOK
<1> QED
  <2>1. ASSUME NEW i \in Integrations, NEW url \in Urls, InstallTemplate(i, url)
        PROVE  ReferencesOK'
    BY <1>1, <2>1, NewIntegrationType DEF InstallTemplate
  <2>2. ASSUME NEW i \in Integrations, NEW url \in Urls, NEW interval \in Intervals,
               NEW auto \in BOOLEAN, CreateIntegration(i, url, interval, auto)
        PROVE  ReferencesOK'
    <3>1. (IF auto THEN now + interval ELSE NULL) \in Int \cup {NULL}
      BY IntervalAssumption DEF TypeOK
    <3> QED BY <1>1, <2>2, <3>1, NewIntegrationType DEF CreateIntegration
  <2> QED
    BY <1>2, <1>3, <1>4, <1>5, <1>6, <1>7, <1>8, <1>9, <1>10, <1>11, <1>12, <1>13, <1>14,
       <2>1, <2>2
    DEF Next, Configure, Arrive, Proceed, Outcomes, Raise, DatabaseError
-----------------------------------------------------------------------------
LEMMA InitOK == Init => Inv
  BY DEF Init, NoRequests, Inv, TypeOK, SessionsOK, SessionOK, ReferencesOK, LocksOK, NoOne, Steps,
     Began, Holding, InRun

LEMMA Stutter == Inv /\ UNCHANGED vars => Inv'
  BY DEF vars, database, locks, target, session, Inv, TypeOK, SessionsOK, SessionOK,
     ReferencesOK, LocksOK, Began, Holding, InRun

LEMMA InvStep == Inv /\ [Next]_vars => Inv'
  BY TypeStep, SessionsStep, ReferencesStep, LocksStep, Stutter DEF Inv

(* The inductive invariant that every theorem below rests on.               *)
THEOREM Invariance == Spec => []Inv
<1> QED BY InvStep, InitOK, PTL DEF Spec

(* Every variable keeps to its type: no handler writes to a column or keeps *)
(* in its session anything the tables and the code do not allow for.        *)
THEOREM TypeCorrect == Spec => []TypeOK
<1>1. Inv => TypeOK
  BY DEF Inv
<1> QED BY <1>1, Invariance, PTL

(* The runs of an integration are serialised by the flush at the head of    *)
(* run_sync_job, however many requests ask for one.                         *)
THEOREM RunsAreSerial == Spec => []OneCallPerIntegration
<1>1. Inv => OneCallPerIntegration
  BY DEF Inv, LocksOK, OneCallPerIntegration, Holding, InRun
<1> QED BY <1>1, Invariance, PTL

(* Row locks are taken in one order, so they cannot form a circle.          *)
THEOREM LockOrder == Spec => []JobLockUnderIntegrationLock
<1>1. Inv => JobLockUnderIntegrationLock
  BY DEF Inv, LocksOK, JobLockUnderIntegrationLock, TypeOK, Holding, InRun
<1> QED BY <1>1, Invariance, PTL

(* RUNNING and SYNCING never reach the committed tables.                    *)
LEMMA PublishedStep ==
    Inv /\ NothingRunningIsPublished /\ [Next]_vars => NothingRunningIsPublished'
<1> SUFFICES ASSUME Inv, NothingRunningIsPublished, [Next]_vars
             PROVE  NothingRunningIsPublished'
  OBVIOUS
<1> USE DEF NothingRunningIsPublished, Inv
<1>1. CASE UNCHANGED database
  BY <1>1 DEF database
<1>2. ASSUME NEW i \in Integrations, NEW url, NEW interval, NEW auto \in BOOLEAN,
             \/ InstallTemplate(i, url)
             \/ CreateIntegration(i, url, interval, auto)
      PROVE  NothingRunningIsPublished'
  BY <1>2 DEF InstallTemplate, CreateIntegration, NewIntegration, TypeOK
<1>3. ASSUME NEW j \in Jobs, NEW i \in Integrations, NEW direction, ConfigureSync(j, i, direction)
      PROVE  NothingRunningIsPublished'
  BY <1>3 DEF ConfigureSync, NewJob, TypeOK
<1>4. ASSUME NEW r \in Requests, Commit(r) PROVE NothingRunningIsPublished'
  <2>1. tx_job[r].status # "running" /\ tx_integration[r].status # "syncing"
    BY <1>4 DEF Commit, SessionsOK, SessionOK, Terminal
  <2> QED BY <1>4, <2>1 DEF Commit, TypeOK
<1>5. CASE UNCHANGED vars
  BY <1>1, <1>5 DEF vars
<1> QED BY <1>1, <1>2, <1>3, <1>4, <1>5, Writers

THEOREM OnlyOutcomesArePublished == Spec => []NothingRunningIsPublished
<1>1. Init => NothingRunningIsPublished
  BY DEF Init, NoRequests, NoOne, NothingRunningIsPublished
<1> QED BY <1>1, PublishedStep, Invariance, PTL DEF Spec

(* A job never loses its terminal state, its row or its integration.        *)
THEOREM JobsKeepTheirEnd == Spec => TerminalStays
<1> DEFINE Kept ==
      \A j \in Jobs : sync_jobs[j] # NULL =>
          /\ sync_jobs'[j] # NULL
          /\ sync_jobs'[j].integration_id = sync_jobs[j].integration_id
          /\ sync_jobs[j].status \in Terminal => sync_jobs'[j].status \in Terminal
<1>1. Inv /\ [Next]_vars => [Kept]_vars
  BY RowsStayStep DEF RowsStay
<1> QED BY <1>1, Invariance, PTL DEF Spec, TerminalStays
-----------------------------------------------------------------------------
(* Refinement.  A run begins, for the contract, when its flush gets the     *)
(* integration's row, and ends with the transaction.                        *)

LEMMA ContractInit == Init => Contract!Init
  BY DEF Init, NoRequests, NoOne, Outcome, Owner, Contract!Init

LEMMA ContractUnchanged ==
    ASSUME UNCHANGED <<sync_jobs, integration_lock>>
    PROVE  UNCHANGED Contract!contractVars
  BY DEF Contract!contractVars, Outcome, Owner

(* The end of a transaction that publishes nothing.                         *)
LEMMA RollBackAbandons ==
    ASSUME Inv, NEW r \in Requests, NEW code, RollBack(r, code)
    PROVE  Contract!Next \/ UNCHANGED Contract!contractVars
<1> USE DEF Inv
<1>1. sync_jobs' = sync_jobs /\ integration_lock' = LetGo(integration_lock, {r})
  BY DEF RollBack, CloseSessions, database
<1>2. CASE \A i \in Integrations : integration_lock[i] # r
  <2>1. integration_lock' = integration_lock
    BY <1>1, <1>2 DEF LetGo, TypeOK
  <2> QED BY <1>1, <2>1, ContractUnchanged
<1>3. ASSUME NEW i \in Integrations, integration_lock[i] = r PROVE Contract!Next
  <2>1. \A k \in Integrations : integration_lock[k] = r => k = i
    BY <1>3, NullAssumption DEF LocksOK
  <2>2. integration_lock' = [integration_lock EXCEPT ![i] = NULL]
    BY <1>1, <1>3, <2>1 DEF LetGo, TypeOK
  <2>3. Contract!Abandon(r, i)
    BY <1>1, <1>3, <2>2 DEF Contract!Abandon, Outcome, Owner
  <2> QED BY <2>3 DEF Contract!Next
<1> QED BY <1>2, <1>3

LEMMA CommitFinishes ==
    ASSUME Inv, NEW r \in Requests, Commit(r)
    PROVE  Contract!Next
<1> USE DEF Inv
<1> DEFINE i == integration_of[r]
           j == job_of[r]
<1>1. /\ j \in Jobs /\ i \in Integrations
      /\ tx_job[r] # NULL /\ tx_job[r].status \in Terminal
      /\ tx_job[r].integration_id = i /\ integration_lock[i] = r
  BY NullIsNoRow
  DEF Commit, SessionsOK, SessionOK, ReferencesOK, LocksOK, Began, Holding, InRun
<1>2. Owner(j) = i \/ Outcome(j) = "absent"
  BY <1>1, NullAssumption DEF ReferencesOK, Owner, Outcome
<1>3. sync_jobs' = [sync_jobs EXCEPT ![j] = tx_job[r]]
  BY DEF Commit
<1>4. \A k \in Jobs : /\ Outcome(k)' = IF k = j THEN tx_job[r].status ELSE Outcome(k)
                      /\ Owner(k)' = IF k = j THEN i ELSE Owner(k)
  BY <1>1, <1>3 DEF Outcome, Owner, TypeOK
<1>5. \A k \in Integrations : integration_lock[k] = r => k = i
  BY NullAssumption DEF LocksOK
<1>6. integration_lock' = [integration_lock EXCEPT ![i] = NULL]
  BY <1>1, <1>5 DEF Commit, CloseSessions, LetGo, TypeOK
<1>7. Contract!Finish(r, i, j)
  <2>1. [k \in Jobs |-> Outcome(k)]' = [[k \in Jobs |-> Outcome(k)] EXCEPT ![j] = tx_job[r].status]
    BY <1>4
  <2>2. [k \in Jobs |-> Owner(k)]' = [[k \in Jobs |-> Owner(k)] EXCEPT ![j] = i]
    BY <1>4
  <2>3. tx_job[r].status \in Contract!Terminal
    BY <1>1 DEF Terminal, Contract!Terminal
  <2> QED BY <1>1, <1>2, <1>6, <2>1, <2>2, <2>3 DEF Contract!Finish
<1> QED BY <1>1, <1>7 DEF Contract!Next

LEMMA ContractStep == Inv /\ [Next]_vars => [Contract!Next]_(Contract!contractVars)
<1> SUFFICES ASSUME Inv, [Next]_vars PROVE Contract!Next \/ UNCHANGED Contract!contractVars
  BY DEF Contract!contractVars
<1> USE DEF Inv
<1>1. ASSUME NEW j \in Jobs, NEW i \in Integrations, NEW direction \in Directions,
             ConfigureSync(j, i, direction)
      PROVE  Contract!Next
  <2>1. /\ sync_jobs[j] = NULL /\ integration_lock' = integration_lock
        /\ \A k \in Jobs : sync_jobs'[k] = IF k = j THEN NewJob(i, direction) ELSE sync_jobs[k]
    BY <1>1 DEF ConfigureSync, Fresh, TypeOK, locks
  <2>2. NewJob(i, direction) # NULL
    BY NewJobType
  <2>3. NewJob(i, direction).status = "pending" /\ NewJob(i, direction).integration_id = i
    BY DEF NewJob
  <2>4. \A k \in Jobs : /\ Outcome(k)' = IF k = j THEN "pending" ELSE Outcome(k)
                        /\ Owner(k)' = IF k = j THEN i ELSE Owner(k)
    BY <2>1, <2>2, <2>3 DEF Outcome, Owner
  <2>5. Contract!Configure(j, i)
    BY <2>1, <2>4 DEF Contract!Configure, Outcome
  <2> QED BY <2>5 DEF Contract!Next
<1>2. ASSUME NEW r \in Requests, FlushIntegration(r) PROVE Contract!Next
  <2>1. integration_of[r] \in Integrations
    BY <1>2 DEF FlushIntegration, SessionsOK, SessionOK, Began
  <2>2. Contract!Begin(r, integration_of[r])
    BY <1>2, <2>1 DEF FlushIntegration, Unlocked, database, Contract!Begin, Outcome, Owner
  <2> QED BY <2>1, <2>2 DEF Contract!Next
<1>3. ASSUME NEW r \in Requests, Commit(r) PROVE Contract!Next
  BY <1>3, CommitFinishes
<1>4. ASSUME NEW r \in Requests, NEW code, RollBack(r, code)
      PROVE  Contract!Next \/ UNCHANGED Contract!contractVars
  BY <1>4, RollBackAbandons
<1>5. CASE Crash
  <2>1. \A i \in Integrations : integration_lock[i] # NULL => integration_lock[i] \in InFlight
    BY DEF LocksOK, TypeOK, InFlight, Holding
  <2>2. integration_lock' = [i \in Integrations |-> NULL] /\ sync_jobs' = sync_jobs
    BY <1>5, <2>1 DEF Crash, CloseSessions, LetGo, TypeOK, database
  <2>3. Contract!Crash
    BY <2>2 DEF Contract!Crash, Outcome, Owner
  <2> QED BY <2>3 DEF Contract!Next
<1>6. CASE UNCHANGED <<sync_jobs, integration_lock>>
  BY <1>6, ContractUnchanged
<1>7. ASSUME NEW r \in Requests, Outcomes(r) PROVE UNCHANGED <<sync_jobs, integration_lock>>
  BY <1>7, RunReturns DEF Return, database, locks
<1> QED
  BY <1>1, <1>2, <1>3, <1>4, <1>5, <1>6, <1>7
  DEF Next, Configure, Arrive, Proceed, Outcomes, Raise, DatabaseError, CreateIntegration, InstallTemplate,
      RejectUnknown, RejectFinished, TriggerJob, TriggerIntegration, LoadIntegration, FlushJob,
      Answer, Idle, vars, database, locks

(* Seen from the committed tables and the row locks, sync execution keeps   *)
(* the contract: outcomes are published by the one request that runs the    *)
(* integration, together with its release, and a run that is given up, for  *)
(* whatever reason, publishes nothing.                                      *)
THEOREM Refinement == Spec => ImplementsContract
  BY ContractInit, ContractStep, Invariance, PTL DEF Spec, ImplementsContract, Contract!Spec
=============================================================================
