------------------------ MODULE SyncBookkeepingProofs ------------------------
(* Proofs about what SyncEngine's tables record of the runs: stamps, counts,*)
(* messages and answers.  The first part is about any number of requests in *)
(* flight, the second about requests that do not overlap.                   *)
EXTENDS SyncEngineProofs, FiniteSetTheorems

Errors == {"404", "409", "500", "db_error"}

(* A published row of an integration counts no failure that did not happen  *)
(* and shows the last sync, if any, with the next one an interval later.    *)
IntegrationOK(i) ==
    LET row == integrations[i] IN
    /\ row = NULL => failures[i] = 0
    /\ row # NULL =>
        /\ row.error_count =< failures[i]
        /\ row.error_count = 0 => failures[i] = 0
        /\ row.last_sync_at # NULL =>
              /\ row.last_sync_at =< now
              /\ row.next_sync_at = row.last_sync_at + Hours(row)

(* The row of a job that has run.                                           *)
Stamped(job) ==
    /\ job.started_at # NULL /\ job.completed_at # NULL
    /\ job.started_at < job.completed_at
    /\ job.status = "failed" => job.error_message # NULL

JobOK(j) ==
    LET job == sync_jobs[j]
        row == integrations[job.integration_id]
    IN  /\ job # NULL /\ job.status \in Terminal => Stamped(job)
        /\ job # NULL /\ job.status = "completed" =>
              row.last_sync_at # NULL /\ job.completed_at =< row.last_sync_at

(* The columns of the integration that only the end of a run writes.        *)
SameSync(row, table) ==
    /\ row.interval = table.interval
    /\ row.last_sync_at = table.last_sync_at
    /\ row.next_sync_at = table.next_sync_at

(* The two outcomes a request can hold uncommitted: table is the row as     *)
(* published, which its lock keeps as it is.                                *)
HoldsFailure(r) ==
    LET row   == tx_integration[r]
        table == integrations[integration_of[r]]
    IN  /\ tx_job[r].status = "failed"
        /\ SameSync(row, table)
        /\ row.error_count > 0 /\ row.error_count =< failures[integration_of[r]] + 1

HoldsSuccess(r) ==
    LET row   == tx_integration[r]
        table == integrations[integration_of[r]]
    IN  /\ tx_job[r].status = "completed"
        /\ row.interval = table.interval
        /\ row.error_count = table.error_count
        /\ row.last_sync_at # NULL /\ row.last_sync_at =< now
        /\ table.last_sync_at # NULL => table.last_sync_at =< row.last_sync_at
        /\ row.next_sync_at = row.last_sync_at + Hours(row)
        /\ tx_job[r].completed_at = row.last_sync_at

HasMessage(job) == job # NULL /\ job.error_message # NULL

(* What the objects and the uncommitted rows of a request are worth.        *)
RunOK(r) ==
    LET table == integrations[integration_of[r]] IN
    /\ pc[r] \in Began =>
          /\ orm_integration[r].interval = table.interval
          /\ orm_integration[r].error_count =< failures[integration_of[r]]
          /\ orm_job[r].started_at # NULL /\ orm_job[r].started_at =< now
    /\ pc[r] \in {"locked", "running"} =>
          /\ SameSync(tx_integration[r], table)
          /\ tx_integration[r].error_count = table.error_count
    /\ pc[r] = "running" => tx_job[r].started_at # NULL /\ tx_job[r].started_at =< now
    /\ pc[r] = "returned" => Stamped(tx_job[r]) /\ (HoldsFailure(r) \/ HoldsSuccess(r))
    /\ pc[r] \in {"loaded"} \cup Began /\ HasMessage(orm_job[r]) => HasMessage(sync_jobs[job_of[r]])
    /\ pc[r] \in InRun /\ (HasMessage(orm_job[r]) \/ HasMessage(sync_jobs[job_of[r]])) =>
          HasMessage(tx_job[r])

(* An answer that is not an error was read from a finished job.             *)
AnswerOK(r) ==
    pc[r] = "done" /\ answer[r] \notin Errors =>
        /\ answer[r] \in Terminal /\ job_of[r] \in Jobs
        /\ sync_jobs[job_of[r]] # NULL /\ sync_jobs[job_of[r]].status \in Terminal

IntegrationsOK == \A i \in Integrations : IntegrationOK(i)
JobsOK         == \A j \in Jobs : JobOK(j)
RunsOK         == \A r \in Requests : RunOK(r)
AnswersOK      == \A r \in Requests : AnswerOK(r)

BookInv == IntegrationsOK /\ JobsOK /\ RunsOK /\ AnswersOK

-----------------------------------------------------------------------------
(* What the updates of a run leave in the columns this is about.            *)

LEMMA FailedIntegrationValues ==
    ASSUME NEW row \in IntegrationRow, NEW orm \in IntegrationRow, NEW message
    PROVE  LET new == FailedIntegration(row, orm, message) IN
           /\ SameSync(new, row)
           /\ new.status = "error"
           /\ new.error_count = orm.error_count + 1
           /\ new.last_error = Written(row.last_error, orm.last_error, message)
  BY DEF FailedIntegration, SameSync, IntegrationRow

LEMMA FailedJobValues ==
    ASSUME NEW row \in JobRow, NEW orm, NEW message, NEW stamp
    PROVE  LET new == FailedJob(row, orm, message, stamp) IN
           /\ new.status = "failed"
           /\ new.started_at = row.started_at /\ new.completed_at = stamp
           /\ new.error_message = Written(row.error_message, orm.error_message, message)
           /\ new.direction = row.direction /\ new.records_created = row.records_created
           /\ new.processed_records = row.processed_records
           /\ new.total_records = row.total_records
  BY DEF FailedJob, JobRow

LEMMA SyncedIntegrationValues ==
    ASSUME NEW row \in IntegrationRow, NEW orm, NEW stamp
    PROVE  LET new == SyncedIntegration(row, orm, stamp) IN
           /\ new.interval = row.interval /\ new.error_count = row.error_count
           /\ new.status = "active"
           /\ new.last_sync_at = stamp /\ new.next_sync_at = stamp + Hours(orm)
           /\ new.last_error = Written(row.last_error, orm.last_error, NULL)
  BY DEF SyncedIntegration, IntegrationRow

LEMMA SyncedJobValues ==
    ASSUME NEW row \in JobRow, NEW orm, NEW n, NEW stamp
    PROVE  LET new == SyncedJob(row, orm, n, stamp) IN
           /\ new.status = "completed"
           /\ new.started_at = row.started_at /\ new.completed_at = stamp
           /\ new.error_message = row.error_message /\ new.direction = row.direction
           /\ new.processed_records = Written(row.processed_records, orm.processed_records, n)
           /\ new.total_records = Written(row.total_records, orm.total_records, n)
           /\ new.records_created =
                 IF orm.direction = "push" THEN row.records_created
                 ELSE Written(row.records_created, orm.records_created, n)
  BY DEF SyncedJob, JobRow

-----------------------------------------------------------------------------
(* What a commit writes.                                                    *)
LEMMA CommitWrites ==
    ASSUME Inv, NEW r \in Requests, Commit(r)
    PROVE  LET i == integration_of[r]
               j == job_of[r]
           IN  /\ i \in Integrations /\ j \in Jobs
               /\ integrations[i] \in IntegrationRow
               /\ tx_integration[r] \in IntegrationRow /\ tx_job[r] \in JobRow
               /\ tx_job[r].integration_id = i /\ tx_job[r].status \in Terminal
               /\ \A k \in Integrations : integrations'[k] =
                      IF k = i THEN tx_integration[r] ELSE integrations[k]
               /\ \A k \in Jobs : sync_jobs'[k] = IF k = j THEN tx_job[r] ELSE sync_jobs[k]
               /\ \A k \in Integrations : failures'[k] =
                      IF k = i /\ tx_job[r].status = "failed" THEN failures[k] + 1 ELSE failures[k]
               /\ \A s \in Requests \ {r} :
                      /\ pc[s] \in Holding => integration_of[s] # i
                      /\ pc[s] \in InRun => job_of[s] # j
               /\ now' = now
<1>1. /\ integration_of[r] \in Integrations /\ job_of[r] \in Jobs
      /\ tx_integration[r] \in IntegrationRow /\ tx_job[r] \in JobRow
      /\ tx_job[r].integration_id = integration_of[r] /\ tx_job[r].status \in Terminal
      /\ pc[r] = "returned"
  BY DEF Commit, Inv, SessionsOK, SessionOK, ReferencesOK, Began, Holding, InRun
<1>2. integrations[integration_of[r]] \in IntegrationRow
  BY <1>1, NullAssumption DEF Inv, ReferencesOK, TypeOK
<1>3. ASSUME NEW s \in Requests \ {r}
      PROVE  /\ pc[s] \in Holding => integration_of[s] # integration_of[r]
             /\ pc[s] \in InRun => job_of[s] # job_of[r]
  BY <1>1, <1>3 DEF Inv, LocksOK, Holding, InRun
<1>4. \A k \in Integrations : failures'[k] =
          IF k = integration_of[r] /\ tx_job[r].status = "failed"
          THEN failures[k] + 1 ELSE failures[k]
  BY <1>1 DEF Commit, Inv, TypeOK
<1> QED BY <1>1, <1>2, <1>3, <1>4 DEF Commit, Inv, TypeOK

LEMMA OnlyCommitsFail ==
    ASSUME Inv, Next
    PROVE  failures' = failures \/ \E r \in Requests : Commit(r)
<1>1. ASSUME NEW r \in Requests, Outcomes(r) PROVE failures' = failures
  BY <1>1, RunReturns DEF Return, Inv
<1> QED
  BY <1>1
  DEF Next, Configure, CreateIntegration, InstallTemplate, ConfigureSync, Arrive, Proceed,
      Outcomes, RejectUnknown, RejectFinished, TriggerJob, TriggerIntegration, LoadIntegration,
      FlushIntegration, FlushJob, Raise, RollBack, Answer, DatabaseError, Crash, Idle, vars

LEMMA ClockStep == Inv /\ Next => now \in Nat /\ now' \in Nat /\ now =< now'
<1> SUFFICES ASSUME Inv, Next PROVE now \in Nat /\ now' \in Nat /\ now =< now'
  OBVIOUS
<1>0. now \in Nat /\ now' \in Nat
  BY TypeStep DEF Inv, TypeOK
<1>1. ASSUME NEW r \in Requests, Outcomes(r) PROVE now' = now + 1
  BY <1>1, RunReturns DEF Return, Inv
<1>2. now' = now \/ now' = now + 1
  BY <1>1
  DEF Next, Configure, CreateIntegration, InstallTemplate, ConfigureSync, Arrive, Proceed,
      Outcomes, RejectUnknown, RejectFinished, TriggerJob, TriggerIntegration, LoadIntegration,
      Begin, FlushIntegration, FlushJob, Raise, RollBack, Commit, Answer, DatabaseError, Crash,
      Idle, vars
<1> QED BY <1>0, <1>2

-----------------------------------------------------------------------------
(* What no step takes back.                                                 *)
RecordsStay ==
    /\ \A i \in Integrations :
          /\ failures[i] \in Nat /\ failures'[i] \in Nat /\ failures[i] =< failures'[i]
          /\ integrations[i] # NULL =>
                /\ integrations'[i] # NULL
                /\ integrations'[i].interval = integrations[i].interval
          /\ integrations[i] # NULL /\ integrations[i].last_sync_at # NULL =>
                /\ integrations'[i].last_sync_at # NULL
                /\ integrations[i].last_sync_at =< integrations'[i].last_sync_at
    /\ \A j \in Jobs : HasMessage(sync_jobs[j]) => HasMessage(sync_jobs'[j])

(* The outcome a request commits.                                           *)
LEMMA CommittedOutcome ==
    ASSUME Inv, RunsOK, NEW r \in Requests, Commit(r)
    PROVE  /\ Stamped(tx_job[r]) /\ (HoldsFailure(r) \/ HoldsSuccess(r))
           /\ HasMessage(sync_jobs[job_of[r]]) => HasMessage(tx_job[r])
  BY DEF Commit, RunsOK, RunOK, InRun

LEMMA StampsAreNat ==
    ASSUME NEW row \in IntegrationRow, row.last_sync_at # NULL
    PROVE  row.last_sync_at \in Nat
  BY DEF IntegrationRow, Stamps

LEMMA RecordsStayStep == Inv /\ RunsOK /\ Next => RecordsStay
<1> SUFFICES ASSUME Inv, RunsOK, Next PROVE RecordsStay
  OBVIOUS
<1>a. \A i \in Integrations : failures[i] \in Nat /\ failures'[i] \in Nat
  BY TypeStep DEF Inv, TypeOK
<1>b. \A i \in Integrations : integrations[i] # NULL => integrations[i] \in IntegrationRow
  BY DEF Inv, TypeOK
<1>c. \A i \in Integrations : integrations[i] # NULL /\ integrations[i].last_sync_at # NULL
                               => integrations[i].last_sync_at \in Nat
  BY <1>b, StampsAreNat
<1>1. ASSUME failures' = failures,
             \A i \in Integrations : integrations[i] # NULL => integrations'[i] = integrations[i],
             \A j \in Jobs : sync_jobs[j] # NULL => sync_jobs'[j] = sync_jobs[j]
      PROVE  RecordsStay
  BY <1>1, <1>a, <1>c DEF RecordsStay, HasMessage
<1>2. ASSUME NEW r \in Requests, Commit(r) PROVE RecordsStay
  <2> DEFINE i == integration_of[r]
             j == job_of[r]
             new == tx_integration[r]
             row == integrations[i]
  <2>1. /\ i \in Integrations /\ j \in Jobs /\ row \in IntegrationRow /\ row # NULL
        /\ \A k \in Integrations : integrations'[k] = IF k = i THEN new ELSE integrations[k]
        /\ \A k \in Jobs : sync_jobs'[k] = IF k = j THEN tx_job[r] ELSE sync_jobs[k]
        /\ \A k \in Integrations : failures'[k] =
               IF k = i /\ tx_job[r].status = "failed" THEN failures[k] + 1 ELSE failures[k]
        /\ new \in IntegrationRow /\ new # NULL
    BY <1>2, CommitWrites, NullIsNoRow
  <2>2. /\ new.interval = row.interval
        /\ row.last_sync_at # NULL =>
               new.last_sync_at # NULL /\ row.last_sync_at =< new.last_sync_at
    <3>1. CASE HoldsFailure(r)
      BY <1>c, <2>1, <3>1 DEF HoldsFailure, SameSync
    <3>2. CASE HoldsSuccess(r)
      BY <3>2 DEF HoldsSuccess
    <3> QED BY <1>2, <3>1, <3>2, CommittedOutcome
  <2>3. HasMessage(sync_jobs[j]) => HasMessage(tx_job[r])
    BY <1>2, CommittedOutcome
  <2> HIDE DEF i, j, new, row
  <2>4. \A k \in Integrations : failures[k] =< failures'[k]
    BY <1>a, <2>1
  <2>5. ASSUME NEW k \in Integrations, integrations[k] # NULL
        PROVE  /\ integrations'[k] # NULL
               /\ integrations'[k].interval = integrations[k].interval
               /\ integrations[k].last_sync_at # NULL =>
                     /\ integrations'[k].last_sync_at # NULL
                     /\ integrations[k].last_sync_at =< integrations'[k].last_sync_at
    BY <1>c, <2>1, <2>2, <2>5 DEF row
  <2>6. \A k \in Jobs : HasMessage(sync_jobs[k]) => HasMessage(sync_jobs'[k])
    BY <2>1, <2>3
  <2> QED BY <1>a, <2>4, <2>5, <2>6 DEF RecordsStay
<1>3. ASSUME ~ \E r \in Requests : Commit(r) PROVE RecordsStay
  <2>1. failures' = failures
    BY <1>3, OnlyCommitsFail
  <2>2. /\ \A i \in Integrations : integrations[i] # NULL => integrations'[i] = integrations[i]
        /\ \A j \in Jobs : sync_jobs[j] # NULL => sync_jobs'[j] = sync_jobs[j]
    BY <1>3, Writers
    DEF database, CreateIntegration, InstallTemplate, ConfigureSync, Fresh, Inv, TypeOK
  <2> QED BY <1>1, <2>1, <2>2
<1> QED BY <1>2, <1>3

(* A row that a request holds locked is published by nobody else.           *)
LEMMA LockedRowsStay ==
    ASSUME Inv, Next, NEW s \in Requests, Still(s), pc[s] \in Holding
    PROVE  /\ integrations'[integration_of[s]] = integrations[integration_of[s]]
           /\ failures'[integration_of[s]] = failures[integration_of[s]]
           /\ pc[s] \in InRun => sync_jobs'[job_of[s]] = sync_jobs[job_of[s]]
<1>1. /\ integration_of[s] \in Integrations /\ integrations[integration_of[s]] # NULL
      /\ job_of[s] \in Jobs
  BY NullAssumption DEF Inv, SessionsOK, SessionOK, ReferencesOK, Began, Holding
<1>2. ASSUME NEW r \in Requests, Commit(r)
      PROVE  /\ integrations'[integration_of[s]] = integrations[integration_of[s]]
             /\ failures'[integration_of[s]] = failures[integration_of[s]]
             /\ pc[s] \in InRun => sync_jobs'[job_of[s]] = sync_jobs[job_of[s]]
  <2>1. s # r
    BY <1>2 DEF Commit, Inv, TypeOK, Still, Holding
  <2> QED BY <1>1, <1>2, <2>1, CommitWrites
<1>3. ASSUME ~ \E r \in Requests : Commit(r)
      PROVE  /\ integrations'[integration_of[s]] = integrations[integration_of[s]]
             /\ failures'[integration_of[s]] = failures[integration_of[s]]
             /\ pc[s] \in InRun => sync_jobs'[job_of[s]] = sync_jobs[job_of[s]]
  BY <1>1, <1>3, Writers, OnlyCommitsFail
  DEF database, CreateIntegration, InstallTemplate, ConfigureSync, Fresh, Inv, TypeOK
<1> QED BY <1>2, <1>3

-----------------------------------------------------------------------------
LEMMA IntegrationsStep == Inv /\ IntegrationsOK /\ RunsOK /\ Next => IntegrationsOK'
<1> SUFFICES ASSUME Inv, IntegrationsOK, RunsOK, Next, NEW k \in Integrations
             PROVE  IntegrationOK(k)'
  BY DEF IntegrationsOK
<1>a. /\ IntegrationOK(k) /\ now \in Nat /\ now' \in Nat /\ now =< now'
      /\ failures[k] \in Nat /\ failures'[k] \in Nat /\ failures[k] =< failures'[k]
      /\ integrations[k] # NULL => integrations[k] \in IntegrationRow
  BY ClockStep, RecordsStayStep DEF IntegrationsOK, RecordsStay, Inv, TypeOK
<1>1. ASSUME integrations'[k] = integrations[k], failures'[k] = failures[k]
      PROVE  IntegrationOK(k)'
  BY <1>1, <1>a, StampsAreNat DEF IntegrationOK, Hours
<1>2. ASSUME integrations[k] = NULL, failures'[k] = failures[k], NEW url, NEW interval,
             NEW status, NEW next, integrations'[k] = NewIntegration(url, interval, status, next)
      PROVE  IntegrationOK(k)'
  <2>1. failures'[k] = 0
    BY <1>2, <1>a DEF IntegrationOK
  <2> QED BY <1>2, <2>1 DEF IntegrationOK, NewIntegration
<1>3. ASSUME NEW r \in Requests, Commit(r) PROVE IntegrationOK(k)'
  <2> DEFINE i == integration_of[r]
             new == tx_integration[r]
             row == integrations[i]
  <2>1. /\ integrations'[k] = IF k = i THEN new ELSE integrations[k]
        /\ failures'[k] =
               IF k = i /\ tx_job[r].status = "failed" THEN failures[k] + 1 ELSE failures[k]
        /\ new \in IntegrationRow /\ row \in IntegrationRow /\ row # NULL /\ now' = now
    BY <1>3, CommitWrites, NullIsNoRow
  <2>2. CASE k = i
    <3>1. integrations'[k] = new /\ new # NULL
      BY <2>1, <2>2, NullIsNoRow
    <3>2. CASE HoldsFailure(r)
      <4>1. /\ new.error_count > 0 /\ new.error_count =< failures[k] + 1
            /\ failures'[k] = failures[k] + 1 /\ SameSync(new, integrations[k])
        BY <2>1, <2>2, <3>2 DEF HoldsFailure
      <4>2. new.error_count \in Nat
        BY <2>1 DEF IntegrationRow
      <4>3. new.error_count =< failures'[k] /\ (new.error_count = 0 => failures'[k] = 0)
        BY <1>a, <4>1, <4>2
      <4>4. new.last_sync_at # NULL =>
               new.last_sync_at =< now /\ new.next_sync_at = new.last_sync_at + Hours(new)
        BY <1>a, <2>1, <2>2, <4>1 DEF IntegrationOK, SameSync, Hours
      <4> HIDE DEF new
      <4> QED BY <2>1, <3>1, <4>3, <4>4 DEF IntegrationOK, Hours
    <3>3. CASE HoldsSuccess(r)
      <4>1. /\ new.error_count = integrations[k].error_count /\ failures'[k] = failures[k]
            /\ new.last_sync_at =< now /\ new.next_sync_at = new.last_sync_at + Hours(new)
        BY <2>1, <2>2, <3>3 DEF HoldsSuccess
      <4>2. new.error_count =< failures'[k] /\ (new.error_count = 0 => failures'[k] = 0)
        BY <1>a, <2>1, <2>2, <4>1 DEF IntegrationOK
      <4> HIDE DEF new
      <4> QED BY <2>1, <3>1, <4>1, <4>2 DEF IntegrationOK, Hours
    <3> QED BY <1>3, <3>2, <3>3, CommittedOutcome
  <2>3. CASE k # i
    BY <1>1, <2>1, <2>3
  <2> QED BY <2>2, <2>3
<1>4. ASSUME ~ \E r \in Requests : Commit(r) PROVE IntegrationOK(k)'
  <2>1. failures'[k] = failures[k]
    BY <1>4, OnlyCommitsFail
  <2>2. ASSUME NEW i \in Integrations, NEW url \in Urls, NEW interval \in Intervals,
               NEW auto \in BOOLEAN, CreateIntegration(i, url, interval, auto)
        PROVE  IntegrationOK(k)'
    <3>1. CASE i = k
      BY <1>2, <2>1, <2>2, <3>1 DEF CreateIntegration, Inv, TypeOK
    <3>2. CASE i # k
      BY <1>1, <2>1, <2>2, <3>2 DEF CreateIntegration, Inv, TypeOK
    <3> QED BY <3>1, <3>2
  <2>3. ASSUME NEW i \in Integrations, NEW url \in Urls, InstallTemplate(i, url)
        PROVE  IntegrationOK(k)'
    <3>1. CASE i = k
      BY <1>2, <2>1, <2>3, <3>1 DEF InstallTemplate, Inv, TypeOK
    <3>2. CASE i # k
      BY <1>1, <2>1, <2>3, <3>2 DEF InstallTemplate, Inv, TypeOK
    <3> QED BY <3>1, <3>2
  <2>4. CASE integrations' = integrations
    BY <1>1, <2>1, <2>4
  <2> QED BY <1>4, <2>2, <2>3, <2>4, Writers DEF database, ConfigureSync
<1> QED BY <1>3, <1>4

LEMMA JobsStep == Inv /\ JobsOK /\ RunsOK /\ Next => JobsOK'
<1> SUFFICES ASSUME Inv, JobsOK, RunsOK, Next, NEW k \in Jobs
             PROVE  JobOK(k)'
  BY DEF JobsOK
<1>a. JobOK(k) /\ RecordsStay
  BY RecordsStayStep DEF JobsOK
<1>1. ASSUME sync_jobs'[k] = sync_jobs[k] PROVE JobOK(k)'
  <2> DEFINE job == sync_jobs[k]
             i   == job.integration_id
  <2> SUFFICES ASSUME job # NULL, job.status = "completed"
               PROVE  /\ integrations'[i].last_sync_at # NULL
                      /\ job.completed_at =< integrations'[i].last_sync_at
    BY <1>1, <1>a DEF JobOK, Stamped
  <2>1. job \in JobRow /\ i \in Integrations /\ integrations[i] # NULL
    BY DEF Inv, TypeOK, ReferencesOK, JobRow
  <2>2. /\ integrations[i].last_sync_at # NULL /\ job.completed_at =< integrations[i].last_sync_at
        /\ job.completed_at # NULL
    BY <1>a DEF JobOK, Stamped, Terminal
  <2>3. /\ integrations'[i] # NULL /\ integrations'[i].last_sync_at # NULL
        /\ integrations[i].last_sync_at =< integrations'[i].last_sync_at
    BY <1>a, <2>1, <2>2 DEF RecordsStay
  <2>4. /\ integrations[i].last_sync_at \in Nat /\ integrations'[i].last_sync_at \in Nat
    BY <2>1, <2>2, <2>3, TypeStep, StampsAreNat DEF Inv, TypeOK
  <2>5. job.completed_at \in Nat
    BY <2>1, <2>2 DEF JobRow, Stamps
  <2> QED BY <2>2, <2>3, <2>4, <2>5
<1>2. ASSUME NEW j \in Jobs, NEW i \in Integrations, NEW direction \in Directions,
             ConfigureSync(j, i, direction)
      PROVE  JobOK(k)'
  <2>1. CASE k = j
    BY <1>2, <2>1 DEF ConfigureSync, NewJob, JobOK, Terminal, Inv, TypeOK
  <2>2. CASE k # j
    BY <1>1, <1>2, <2>2 DEF ConfigureSync, Inv, TypeOK
  <2> QED BY <2>1, <2>2
<1>3. ASSUME NEW r \in Requests, Commit(r) PROVE JobOK(k)'
  <2> DEFINE i == integration_of[r]
             new == tx_job[r]
  <2>1. /\ sync_jobs'[k] = IF k = job_of[r] THEN new ELSE sync_jobs[k]
        /\ i \in Integrations /\ integrations'[i] = tx_integration[r]
        /\ new.integration_id = i
    BY <1>3, CommitWrites
  <2>2. CASE k = job_of[r]
    <3>1. Stamped(new)
      BY <1>3, CommittedOutcome
    <3>2. new.status = "completed" =>
             /\ tx_integration[r].last_sync_at # NULL
             /\ new.completed_at =< tx_integration[r].last_sync_at
      <4> SUFFICES ASSUME new.status = "completed"
                   PROVE  /\ tx_integration[r].last_sync_at # NULL
                          /\ new.completed_at =< tx_integration[r].last_sync_at
        OBVIOUS
      <4>1. HoldsSuccess(r)
        BY <1>3, CommittedOutcome DEF HoldsFailure
      <4>2. tx_integration[r] \in IntegrationRow
        BY <1>3, CommitWrites
      <4> QED BY <4>1, <4>2, StampsAreNat DEF HoldsSuccess
    <3> HIDE DEF new
    <3> QED BY <2>1, <2>2, <3>1, <3>2 DEF JobOK, Stamped
  <2>3. CASE k # job_of[r]
    BY <1>1, <2>1, <2>3
  <2> QED BY <2>2, <2>3
<1> QED BY <1>1, <1>2, <1>3, Writers DEF database, CreateIntegration, InstallTemplate

-----------------------------------------------------------------------------
(* What a request knows survives the steps of the others.                   *)
LEMMA StillRun ==
    ASSUME Inv, RunsOK, Next, NEW s \in Requests, Still(s)
    PROVE  RunOK(s)'
<1> DEFINE i == integration_of[s]
           table == integrations[i]
<1>a. RunOK(s) /\ SessionOK(s) /\ RecordsStay
  BY RecordsStayStep DEF RunsOK, Inv, SessionsOK
<1>b. /\ now \in Nat /\ now' \in Nat /\ now =< now'
  BY ClockStep
<1>c. /\ pc'[s] = pc[s] /\ job_of'[s] = job_of[s] /\ integration_of'[s] = i
      /\ orm_integration'[s] = orm_integration[s] /\ orm_job'[s] = orm_job[s]
      /\ tx_integration'[s] = tx_integration[s] /\ tx_job'[s] = tx_job[s]
  BY DEF Still
<1>1. ASSUME pc[s] \in Began
      PROVE  /\ orm_integration[s].interval = integrations'[i].interval
             /\ orm_integration[s].error_count =< failures'[i]
             /\ orm_job[s].started_at # NULL /\ orm_job[s].started_at =< now'
  <2>1. /\ i \in Integrations /\ table # NULL
        /\ orm_integration[s].error_count \in Nat /\ orm_job[s].started_at \in Nat
    BY <1>1, <1>a, NullAssumption
    DEF SessionOK, RunOK, Inv, ReferencesOK, IntegrationRow, JobRow, Stamps
  <2> QED BY <1>1, <1>a, <1>b, <2>1 DEF RunOK, RecordsStay
<1>2. ASSUME pc[s] \in {"locked", "running"}
      PROVE  /\ SameSync(tx_integration[s], integrations'[i])
             /\ tx_integration[s].error_count = integrations'[i].error_count
  BY <1>2, <1>a, LockedRowsStay DEF RunOK, Holding
<1>3. pc[s] = "running" => tx_job[s].started_at # NULL /\ tx_job[s].started_at =< now'
  <2> SUFFICES ASSUME pc[s] = "running"
               PROVE  tx_job[s].started_at # NULL /\ tx_job[s].started_at =< now'
    OBVIOUS
  <2>1. tx_job[s].started_at \in Nat
    BY <1>a DEF RunOK, SessionOK, InRun, JobRow, Stamps
  <2> QED BY <1>a, <1>b, <2>1 DEF RunOK
<1>4. ASSUME pc[s] = "returned"
      PROVE  Stamped(tx_job[s]) /\ (HoldsFailure(s)' \/ HoldsSuccess(s)')
  <2>1. integrations'[i] = table /\ failures'[i] = failures[i]
    BY <1>4, LockedRowsStay DEF Holding
  <2>2. CASE HoldsFailure(s)
    BY <1>4, <1>a, <1>c, <2>1, <2>2 DEF HoldsFailure, RunOK
  <2>3. CASE HoldsSuccess(s)
    <3>1. tx_integration[s].last_sync_at \in Nat
      BY <1>4, <1>a, <2>3, StampsAreNat DEF SessionOK, Holding, HoldsSuccess
    <3>2. HoldsSuccess(s)'
      BY <1>b, <1>c, <2>1, <2>3, <3>1 DEF HoldsSuccess, Hours
    <3> QED BY <1>4, <1>a, <3>2 DEF RunOK
  <2> QED BY <1>4, <1>a, <2>2, <2>3 DEF RunOK
<1>5. pc[s] \in {"loaded"} \cup Began /\ HasMessage(orm_job[s]) => HasMessage(sync_jobs'[job_of[s]])
  BY <1>a DEF RunOK, SessionOK, RecordsStay, Began
<1>6. pc[s] \in InRun /\ (HasMessage(orm_job[s]) \/ HasMessage(sync_jobs'[job_of[s]])) =>
          HasMessage(tx_job[s])
  BY <1>a, LockedRowsStay DEF RunOK, Holding, InRun
<1> QED BY <1>c, <1>1, <1>2, <1>3, <1>4, <1>5, <1>6 DEF RunOK, HasMessage, SameSync, Stamped

LEMMA OverRun ==
    ASSUME NEW s \in Requests, pc'[s] \in {"new", "committed", "done", "lost"}
    PROVE  RunOK(s)'
  BY DEF RunOK, Began, InRun

(* run_sync_job's first assignments: fresh copies, stamped now.             *)
LEMMA BeganRun ==
    ASSUME Inv, IntegrationsOK, NEW s \in Requests, NEW i \in Integrations, NEW job \in JobRow,
           integrations[i] # NULL, Begin(s, i, job), integration_of'[s] = i,
           UNCHANGED <<database, failures>>,
           HasMessage(job) => HasMessage(sync_jobs'[job_of'[s]])
    PROVE  RunOK(s)'
<1>1. /\ integrations[i] \in IntegrationRow /\ now + 1 \in Nat /\ now + 1 # NULL
      /\ integrations[i].error_count =< failures[i]
  BY NullAssumption DEF Inv, TypeOK, IntegrationsOK, IntegrationOK
<1>2. /\ pc'[s] = "flushing" /\ now' = now + 1
      /\ orm_job'[s] = [job EXCEPT !.status = "running", !.started_at = now + 1]
      /\ orm_integration'[s] = [integrations[i] EXCEPT !.status = "syncing"]
  BY DEF Begin, Inv, TypeOK
<1>3. /\ orm_job'[s].started_at = now' /\ orm_job'[s].error_message = job.error_message
  BY <1>2 DEF JobRow
<1>4. /\ orm_integration'[s].interval = integrations'[i].interval
      /\ orm_integration'[s].error_count = integrations[i].error_count
  BY <1>1, <1>2 DEF IntegrationRow, database
<1>5. HasMessage(orm_job'[s]) => HasMessage(sync_jobs'[job_of'[s]])
  BY <1>3, NullIsNoRow DEF HasMessage
<1> QED BY <1>1, <1>2, <1>3, <1>4, <1>5 DEF RunOK, Began, InRun, HasMessage

LEMMA FlushedIntegrationRun ==
    ASSUME Inv, RunsOK, NEW s \in Requests, FlushIntegration(s)
    PROVE  RunOK(s)'
<1> DEFINE i == integration_of[s]
<1>1. /\ RunOK(s) /\ pc[s] = "flushing"
      /\ i \in Integrations /\ integrations[i] \in IntegrationRow
  BY NullAssumption
  DEF FlushIntegration, RunsOK, Inv, SessionsOK, SessionOK, ReferencesOK, TypeOK, Began
<1>2. /\ pc'[s] = "locked"
      /\ tx_integration'[s] = [integrations[i] EXCEPT !.status = orm_integration[s].status]
      /\ UNCHANGED <<database, target, orm_integration, orm_job, failures, now>>
  BY DEF FlushIntegration, Syncing, Inv, TypeOK
<1>3. /\ SameSync(tx_integration'[s], integrations[i])
      /\ tx_integration'[s].error_count = integrations[i].error_count
  BY <1>1, <1>2 DEF SameSync, IntegrationRow
<1> QED BY <1>1, <1>2, <1>3 DEF RunOK, Began, InRun, HasMessage, SameSync, database, target

LEMMA FlushedJobRun ==
    ASSUME Inv, RunsOK, NEW s \in Requests, FlushJob(s)
    PROVE  RunOK(s)'
<1> DEFINE j   == job_of[s]
           row == IF sync_jobs[j] = NULL THEN orm_job[s] ELSE sync_jobs[j]
<1>1. /\ RunOK(s) /\ pc[s] = "locked" /\ j \in Jobs /\ row \in JobRow /\ orm_job[s] \in JobRow
      /\ HasMessage(orm_job[s]) => HasMessage(sync_jobs[j])
  BY DEF FlushJob, RunsOK, RunOK, Inv, SessionsOK, SessionOK, TypeOK, Began
<1>2. /\ pc'[s] = "running"
      /\ tx_job'[s] = [row EXCEPT !.status = orm_job[s].status,
                                  !.started_at = orm_job[s].started_at]
      /\ UNCHANGED <<database, target, orm_integration, orm_job, tx_integration, failures, now>>
  BY DEF FlushJob, Inv, TypeOK
<1>3. /\ tx_job'[s].started_at = orm_job[s].started_at
      /\ tx_job'[s].error_message = row.error_message
  <2> HIDE DEF row
  <2> QED BY <1>1, <1>2 DEF JobRow
<1>4. /\ orm_job[s].started_at # NULL /\ orm_job[s].started_at =< now
  BY <1>1 DEF RunOK, Began
<1>5. [row EXCEPT !.status = orm_job[s].status,
                  !.started_at = orm_job[s].started_at] \in JobRow
  <2> HIDE DEF row
  <2> QED BY <1>1 DEF JobRow
<1>6. HasMessage(orm_job[s]) \/ HasMessage(sync_jobs[j]) => HasMessage(tx_job'[s])
  BY <1>1, <1>2, <1>3, <1>5, NullIsNoRow DEF HasMessage
<1> HIDE DEF row, j
<1> QED BY <1>1, <1>2, <1>3, <1>4, <1>6
        DEF RunOK, Began, InRun, HasMessage, SameSync, database, target, j

(* What a request knows as its run returns.                                 *)
LEMMA RunningFacts ==
    ASSUME Inv, IntegrationsOK, RunsOK, NEW s \in Requests, pc[s] = "running"
    PROVE  LET i == integration_of[s]
               table == integrations[i]
           IN  /\ i \in Integrations /\ job_of[s] \in Jobs /\ RunOK(s)
               /\ table \in IntegrationRow /\ table # NULL
               /\ tx_integration[s] \in IntegrationRow /\ orm_integration[s] \in IntegrationRow
               /\ tx_job[s] \in JobRow /\ orm_job[s] \in JobRow
               /\ orm_integration[s].interval = table.interval
               /\ orm_integration[s].error_count \in Nat /\ failures[i] \in Nat
               /\ orm_integration[s].error_count =< failures[i]
               /\ SameSync(tx_integration[s], table)
               /\ tx_integration[s].error_count = table.error_count
               /\ now \in Nat /\ now + 1 \in Nat /\ now + 1 # NULL
               /\ table.last_sync_at # NULL =>
                      table.last_sync_at \in Nat /\ table.last_sync_at =< now
               /\ tx_job[s].started_at # NULL /\ tx_job[s].started_at < now + 1
<1> DEFINE i == integration_of[s]
<1>1. /\ i \in Integrations /\ job_of[s] \in Jobs /\ RunOK(s)
      /\ tx_integration[s] \in IntegrationRow /\ orm_integration[s] \in IntegrationRow
      /\ tx_job[s] \in JobRow /\ orm_job[s] \in JobRow
  BY DEF Inv, SessionsOK, SessionOK, RunsOK, Began, Holding, InRun
<1>2. integrations[i] \in IntegrationRow /\ integrations[i] # NULL
  BY <1>1, NullAssumption DEF Inv, ReferencesOK, TypeOK
<1>3. now \in Nat /\ now + 1 \in Nat /\ now + 1 # NULL /\ failures[i] \in Nat
  BY <1>1, NullAssumption DEF Inv, TypeOK
<1>4. orm_integration[s].error_count \in Nat
  BY <1>1 DEF IntegrationRow
<1>5. tx_job[s].started_at # NULL /\ tx_job[s].started_at \in Nat /\ tx_job[s].started_at =< now
  BY <1>1 DEF RunOK, JobRow, Stamps
<1>6. integrations[i].last_sync_at # NULL =>
          integrations[i].last_sync_at \in Nat /\ integrations[i].last_sync_at =< now
  BY <1>1, <1>2, StampsAreNat DEF IntegrationsOK, IntegrationOK
<1>7. /\ orm_integration[s].interval = integrations[i].interval
      /\ orm_integration[s].error_count =< failures[i]
      /\ SameSync(tx_integration[s], integrations[i])
      /\ tx_integration[s].error_count = integrations[i].error_count
  BY <1>1 DEF RunOK, Began
<1> QED BY <1>1, <1>2, <1>3, <1>4, <1>5, <1>6, <1>7

LEMMA FailedRun ==
    ASSUME Inv, IntegrationsOK, RunsOK, NEW s \in Requests, pc[s] = "running",
           NEW message \in Messages \ {NULL}, Fail(s, message)
    PROVE  RunOK(s)'
<1> DEFINE i   == integration_of[s]
           row == FailedIntegration(tx_integration[s], orm_integration[s], message)
           job == FailedJob(tx_job[s], orm_job[s], message, now + 1)
<1>0. /\ i \in Integrations /\ RunOK(s)
      /\ tx_integration[s] \in IntegrationRow /\ orm_integration[s] \in IntegrationRow
      /\ tx_job[s] \in JobRow /\ orm_job[s] \in JobRow
      /\ orm_integration[s].error_count \in Nat /\ failures[i] \in Nat
      /\ orm_integration[s].error_count =< failures[i]
      /\ SameSync(tx_integration[s], integrations[i])
      /\ now \in Nat /\ now + 1 \in Nat /\ now + 1 # NULL
      /\ tx_job[s].started_at # NULL /\ tx_job[s].started_at < now + 1
      /\ orm_integration[s].interval = integrations[i].interval
  BY RunningFacts
<1>1. /\ pc'[s] = "returned" /\ tx_integration'[s] = row /\ tx_job'[s] = job /\ now' = now + 1
      /\ UNCHANGED <<database, target, orm_integration, orm_job, failures>>
  BY DEF Fail, Return, Inv, TypeOK
<1>2. SameSync(row, integrations[i]) /\ row.error_count = orm_integration[s].error_count + 1
  BY <1>0, FailedIntegrationValues DEF SameSync
<1>3. /\ job \in JobRow /\ job.status = "failed"
      /\ job.started_at = tx_job[s].started_at /\ job.completed_at = now + 1
      /\ job.error_message = Written(tx_job[s].error_message, orm_job[s].error_message, message)
  <2>1. job \in JobRow
    BY <1>0, FailedJobType
  <2>2. /\ job.status = "failed"
        /\ job.started_at = tx_job[s].started_at /\ job.completed_at = now + 1
        /\ job.error_message = Written(tx_job[s].error_message, orm_job[s].error_message, message)
    BY <1>0, FailedJobValues
  <2> QED BY <2>1, <2>2
<1>4. job.error_message # NULL
  <2>1. CASE message = orm_job[s].error_message
    <3>1. HasMessage(orm_job[s])
      BY <1>0, <2>1, NullIsNoRow DEF HasMessage
    <3>2. HasMessage(tx_job[s])
      BY <1>0, <3>1 DEF RunOK, InRun
    <3> QED BY <1>3, <2>1, <3>2 DEF HasMessage, Written
  <2>2. CASE message # orm_job[s].error_message
    BY <1>3, <2>2 DEF Written
  <2> QED BY <2>1, <2>2
<1>5. HasMessage(job) /\ Stamped(job)
  BY <1>0, <1>3, <1>4, NullIsNoRow DEF HasMessage, Stamped
<1>6. row.error_count > 0 /\ row.error_count =< failures[i] + 1
  BY <1>0, <1>2
<1> HIDE DEF row, job
<1>7. HoldsFailure(s)'
  BY <1>1, <1>2, <1>3, <1>6 DEF HoldsFailure, SameSync, database, target
<1>8. /\ orm_job'[s].started_at # NULL /\ orm_job'[s].started_at =< now'
  <2>1. orm_job[s].started_at # NULL /\ orm_job[s].started_at =< now
    BY <1>0 DEF RunOK, Began
  <2>2. orm_job[s].started_at \in Nat
    BY <1>0, <2>1 DEF JobRow, Stamps
  <2> QED BY <1>0, <1>1, <2>1, <2>2
<1>9. HasMessage(orm_job'[s]) => HasMessage(sync_jobs'[job_of'[s]])
  BY <1>0, <1>1 DEF RunOK, Began, database, target
<1> QED BY <1>0, <1>1, <1>5, <1>7, <1>8, <1>9 DEF RunOK, Began, InRun, HasMessage, Stamped, database, target

LEMMA SucceededRun ==
    ASSUME Inv, IntegrationsOK, RunsOK, NEW s \in Requests, pc[s] = "running",
           NEW n \in RecordCounts, Succeed(s, n)
    PROVE  RunOK(s)'
<1> DEFINE i   == integration_of[s]
           row == SyncedIntegration(tx_integration[s], orm_integration[s], now + 1)
           job == SyncedJob(tx_job[s], orm_job[s], n, now + 1)
<1>0. /\ i \in Integrations /\ RunOK(s)
      /\ tx_integration[s] \in IntegrationRow /\ orm_integration[s] \in IntegrationRow
      /\ tx_job[s] \in JobRow /\ orm_job[s] \in JobRow
      /\ orm_integration[s].error_count =< failures[i]
      /\ orm_integration[s].interval = integrations[i].interval
      /\ SameSync(tx_integration[s], integrations[i])
      /\ tx_integration[s].error_count = integrations[i].error_count
      /\ now \in Nat /\ now + 1 \in Nat /\ now + 1 # NULL
      /\ integrations[i].last_sync_at # NULL =>
             integrations[i].last_sync_at \in Nat /\ integrations[i].last_sync_at =< now
      /\ tx_job[s].started_at # NULL /\ tx_job[s].started_at < now + 1
  BY RunningFacts
<1>1. /\ pc'[s] = "returned" /\ tx_integration'[s] = row /\ tx_job'[s] = job /\ now' = now + 1
      /\ UNCHANGED <<database, target, orm_integration, orm_job, failures>>
  BY DEF Succeed, Return, Inv, TypeOK
<1>2. /\ row.interval = tx_integration[s].interval
      /\ row.error_count = tx_integration[s].error_count
      /\ row.last_sync_at = now + 1 /\ row.next_sync_at = now + 1 + Hours(orm_integration[s])
  BY <1>0, SyncedIntegrationValues
<1>3. /\ job \in JobRow /\ job.status = "completed"
      /\ job.started_at = tx_job[s].started_at /\ job.completed_at = now + 1
      /\ job.error_message = tx_job[s].error_message
  <2>1. n \in Nat
    BY RecordAssumption
  <2>2. job \in JobRow
    BY <1>0, <2>1, SyncedJobType
  <2>3. /\ job.status = "completed"
        /\ job.started_at = tx_job[s].started_at /\ job.completed_at = now + 1
        /\ job.error_message = tx_job[s].error_message
    BY <1>0, SyncedJobValues
  <2> QED BY <2>2, <2>3
<1>4. Stamped(job) /\ (HasMessage(tx_job[s]) => HasMessage(job))
  BY <1>0, <1>3, NullIsNoRow DEF HasMessage, Stamped
<1>5. /\ row.interval = integrations[i].interval
      /\ row.error_count = integrations[i].error_count
      /\ Hours(row) = Hours(orm_integration[s])
  BY <1>0, <1>2 DEF SameSync, Hours
<1>6. integrations[i].last_sync_at # NULL => integrations[i].last_sync_at =< row.last_sync_at
  BY <1>0, <1>2
<1> HIDE DEF row, job
<1>7. HoldsSuccess(s)'
  <2>1. /\ row.last_sync_at # NULL /\ row.last_sync_at =< now'
        /\ row.next_sync_at = row.last_sync_at + Hours(row)
    BY <1>0, <1>1, <1>2, <1>5
  <2> QED BY <1>1, <1>2, <1>3, <1>5, <1>6, <2>1 DEF HoldsSuccess, Hours, database, target
<1>8. /\ orm_job'[s].started_at # NULL /\ orm_job'[s].started_at =< now'
  <2>1. orm_job[s].started_at # NULL /\ orm_job[s].started_at =< now
    BY <1>0 DEF RunOK, Began
  <2>2. orm_job[s].started_at \in Nat
    BY <1>0, <2>1 DEF JobRow, Stamps
  <2> QED BY <1>0, <1>1, <2>1, <2>2
<1>9. /\ HasMessage(orm_job'[s]) => HasMessage(sync_jobs'[job_of'[s]])
      /\ HasMessage(orm_job'[s]) \/ HasMessage(sync_jobs'[job_of'[s]]) => HasMessage(tx_job'[s])
  BY <1>0, <1>1, <1>4 DEF RunOK, Began, InRun, database, target
<1> QED BY <1>0, <1>1, <1>4, <1>7, <1>8, <1>9 DEF RunOK, Began, InRun, HasMessage, Stamped, database, target

LEMMA RunsStep == Inv /\ IntegrationsOK /\ RunsOK /\ Next => RunsOK'
<1> SUFFICES ASSUME Inv, IntegrationsOK, RunsOK, Next, NEW s \in Requests PROVE RunOK(s)'
  BY DEF RunsOK
<1>1. ASSUME RejectUnknown(s) \/ (\E j \in Jobs : RejectFinished(s, j)) PROVE RunOK(s)'
  BY <1>1, OverRun DEF RejectUnknown, RejectFinished, Respond, Inv, TypeOK
<1>2. ASSUME NEW j \in Jobs, TriggerJob(s, j) PROVE RunOK(s)'
  <2>1. /\ pc'[s] = "loaded" /\ job_of'[s] = j /\ orm_job'[s] = sync_jobs[j]
        /\ sync_jobs' = sync_jobs
    BY <1>2 DEF TriggerJob, database, Inv, TypeOK
  <2> QED BY <2>1 DEF RunOK, Began, InRun
<1>3. ASSUME NEW j \in Jobs, NEW i \in Integrations, TriggerIntegration(s, i, j)
      PROVE  RunOK(s)'
  <2>1. NewJob(i, "pull") \in JobRow /\ ~HasMessage(NewJob(i, "pull"))
    BY NewJobType DEF HasMessage, NewJob
  <2> QED BY <1>3, <2>1, BeganRun DEF TriggerIntegration, Inv, TypeOK
<1>4. CASE LoadIntegration(s)
  <2>1. /\ integration_of[s] \in Integrations /\ integrations[integration_of[s]] # NULL
        /\ orm_job[s] \in JobRow
        /\ HasMessage(orm_job[s]) => HasMessage(sync_jobs[job_of[s]])
    BY <1>4, NullAssumption
    DEF LoadIntegration, RunsOK, RunOK, Inv, SessionsOK, SessionOK, ReferencesOK
  <2> QED BY <1>4, <2>1, BeganRun DEF LoadIntegration, database, target
<1>5. CASE FlushIntegration(s)
  BY <1>5, FlushedIntegrationRun
<1>6. CASE FlushJob(s)
  BY <1>6, FlushedJobRun
<1>7. CASE Outcomes(s)
  <2>1. pc[s] = "running"
    BY <1>7 DEF Outcomes, FailNoUrl, CallFails, CallSucceeds, Running
  <2>2. "no_sync_url" \in Messages \ {NULL} /\ \A m \in CallErrors : m \in Messages \ {NULL}
    BY NullAssumption, MessageAssumption DEF Messages
  <2> QED BY <1>7, <2>1, <2>2, FailedRun, SucceededRun
          DEF Outcomes, FailNoUrl, CallFails, CallSucceeds
<1>8. ASSUME NEW code, RollBack(s, code) PROVE RunOK(s)'
  BY <1>8, OverRun DEF RollBack, Respond, Inv, TypeOK
<1>9. CASE Commit(s) \/ Answer(s)
  BY <1>9, OverRun DEF Commit, Answer, Respond, Inv, TypeOK
<1>10. CASE Crash
  <2>1. CASE s \in InFlight
    BY <1>10, <2>1, OverRun DEF Crash
  <2>2. CASE s \notin InFlight
    BY <1>10, <2>2, StillRun DEF Crash, CloseSessions, Forget, target, Still
  <2> QED BY <2>1, <2>2
<1>11. ASSUME NEW r \in Requests, Moves(r), r # s PROVE RunOK(s)'
  BY <1>11, OthersAreStill, StillRun DEF Inv
<1>12. CASE Configure \/ Idle
  BY <1>12, StillRun
  DEF Configure, CreateIntegration, InstallTemplate, ConfigureSync, Idle, vars, session, target, Still
<1>13. CASE Moves(s)
  BY <1>13, <1>1, <1>2, <1>3, <1>4, <1>5, <1>6, <1>7, <1>8, <1>9
  DEF Moves, Arrive, Proceed, Outcomes, Raise, DatabaseError
<1> QED BY <1>10, <1>11, <1>12, <1>13 DEF Next, Moves

LEMMA AnswersStep == Inv /\ AnswersOK /\ Next => AnswersOK'
<1> SUFFICES ASSUME Inv, AnswersOK, Next, NEW s \in Requests PROVE AnswerOK(s)'
  BY DEF AnswersOK
<1>a. RowsStay /\ AnswerOK(s)
  BY RowsStayStep DEF AnswersOK
<1>b. ASSUME pc'[s] = pc[s], answer'[s] = answer[s], job_of'[s] = job_of[s] PROVE AnswerOK(s)'
  BY <1>a, <1>b DEF AnswerOK, RowsStay
<1>c. ASSUME pc'[s] # "done" PROVE AnswerOK(s)'
  BY <1>c DEF AnswerOK
<1>d. ASSUME NEW r \in Requests, NEW code \in Errors, Respond(r, code), UNCHANGED target
      PROVE  AnswerOK(s)'
  BY <1>b, <1>d DEF Respond, target, AnswerOK, Inv, TypeOK
<1>1. ASSUME NEW r \in Requests, Answer(r) PROVE AnswerOK(s)'
  <2>1. CASE r = s
    BY <1>1, <2>1 DEF Answer, Respond, AnswerOK, database, target, Inv, TypeOK, SessionsOK, SessionOK
  <2>2. CASE r # s
    BY <1>1, <1>b, <2>2 DEF Answer, Respond, target, Inv, TypeOK
  <2> QED BY <2>1, <2>2
<1>2. ASSUME NEW r \in Requests, NEW code \in Errors, RollBack(r, code) PROVE AnswerOK(s)'
  BY <1>2, <1>d DEF RollBack
<1>3. ASSUME NEW r \in Requests, Outcomes(r) PROVE AnswerOK(s)'
  <2>1. \E integration \in IntegrationRow, job \in JobRow : Return(r, integration, job)
    BY <1>3, RunReturns DEF Inv
  <2>2. UNCHANGED <<answer, target>> /\ pc' = [pc EXCEPT ![r] = "returned"]
    BY <2>1 DEF Return
  <2> QED BY <2>2, <1>b, <1>c DEF target, Inv, TypeOK
<1>4. ASSUME NEW r \in Requests,
             \/ \E j \in Jobs : TriggerJob(r, j)
             \/ \E i \in Integrations, j \in Jobs : TriggerIntegration(r, i, j)
      PROVE  AnswerOK(s)'
  <2>1. CASE r = s
    BY <1>4, <1>c, <2>1 DEF TriggerJob, TriggerIntegration, Begin, Inv, TypeOK
  <2>2. CASE r # s
    BY <1>4, <1>b, <2>2 DEF TriggerJob, TriggerIntegration, Begin, Inv, TypeOK
  <2> QED BY <2>1, <2>2
<1>5. ASSUME NEW r \in Requests,
             LoadIntegration(r) \/ FlushIntegration(r) \/ FlushJob(r) \/ Commit(r)
      PROVE  AnswerOK(s)'
  <2>1. CASE r = s
    BY <1>5, <1>c, <2>1
    DEF LoadIntegration, Begin, FlushIntegration, FlushJob, Commit, Inv, TypeOK
  <2>2. CASE r # s
    BY <1>5, <1>b, <2>2
    DEF LoadIntegration, Begin, FlushIntegration, FlushJob, Commit, Inv, TypeOK, target
  <2> QED BY <2>1, <2>2
<1>6. CASE Crash
  BY <1>6, <1>b, <1>c DEF Crash, target
<1>7. CASE Configure \/ Idle
  BY <1>7, <1>b
  DEF Configure, CreateIntegration, InstallTemplate, ConfigureSync, Idle, vars, target
<1>8. ASSUME NEW r \in Requests, Moves(r) PROVE AnswerOK(s)'
  <2>1. CASE Arrive(r)
    BY <2>1, <1>d, <1>4 DEF Arrive, RejectUnknown, RejectFinished, Errors, session, target
  <2>2. CASE DatabaseError(r) \/ Raise(r)
    BY <2>2, <1>2 DEF DatabaseError, Raise, Errors
  <2>3. CASE Proceed(r) /\ ~Raise(r)
    <3>1. CASE LoadIntegration(r) \/ FlushIntegration(r) \/ FlushJob(r) \/ Commit(r)
      BY <3>1, <1>5
    <3>2. CASE Outcomes(r)
      BY <3>2, <1>3
    <3>3. CASE Answer(r)
      BY <3>3, <1>1
    <3> QED BY <2>3, <3>1, <3>2, <3>3 DEF Proceed, Outcomes
  <2> QED BY <1>8, <2>1, <2>2, <2>3 DEF Moves
<1> QED BY <1>6, <1>7, <1>8 DEF Next, Moves

-----------------------------------------------------------------------------
LEMMA BookInit == Init => BookInv
  BY DEF Init, NoRequests, NoOne, BookInv, IntegrationsOK, IntegrationOK, JobsOK, JobOK, RunsOK, RunOK,
         AnswersOK, AnswerOK, Began, InRun

LEMMA BookStutter == BookInv /\ UNCHANGED vars => BookInv'
<1> SUFFICES ASSUME BookInv, UNCHANGED vars PROVE BookInv'
  OBVIOUS
<1> USE DEF vars, database, locks, target, session, BookInv
<1>1. IntegrationsOK'
  BY DEF IntegrationsOK, IntegrationOK, Hours
<1>2. JobsOK'
  BY DEF JobsOK, JobOK, Stamped
<1>3. RunsOK'
  BY DEF RunsOK, RunOK, SameSync, HoldsFailure, HoldsSuccess, Stamped, HasMessage, Hours,
         Began, InRun
<1>4. AnswersOK'
  BY DEF AnswersOK, AnswerOK
<1> QED BY <1>1, <1>2, <1>3, <1>4

LEMMA BookStep == Inv /\ BookInv /\ [Next]_vars => BookInv'
  BY IntegrationsStep, JobsStep, RunsStep, AnswersStep, BookStutter DEF BookInv

(* Whatever overlaps, crashes or fails, the stamps, dates and counters of   *)
(* the tables, and what each run carries towards them, stay consistent.     *)
THEOREM Bookkeeping == Spec => []BookInv
  BY BookInit, BookStep, Invariance, PTL DEF Spec

(* However many requests ran a job, and in whatever order their writes      *)
(* reached its row, once it is published as completed or failed both stamps *)
(* are there, in order, and a failure has its message.                      *)
THEOREM FinishedJobsAreStamped == Spec => []TerminalJobsAreStamped
<1>1. BookInv => TerminalJobsAreStamped
  BY DEF BookInv, JobsOK, JobOK, Stamped, TerminalJobsAreStamped
<1> QED BY <1>1, Bookkeeping, PTL

(* The two tables agree on every completed job: its integration was synced  *)
(* then or later.                                                           *)
THEOREM LastSyncCoversJobs == Spec => []CompletedJobsAreCovered
<1>1. BookInv => CompletedJobsAreCovered
  BY DEF BookInv, JobsOK, JobOK, CompletedJobsAreCovered
<1> QED BY <1>1, Bookkeeping, PTL

(* next_sync_at is last_sync_at plus the interval the row has, although the *)
(* run computed it from the interval its copy had.                          *)
THEOREM NextSyncIsDue == Spec => []NextSyncFollowsLastSync
<1>1. BookInv => NextSyncFollowsLastSync
  BY DEF BookInv, IntegrationsOK, IntegrationOK, Hours, NextSyncFollowsLastSync
<1> QED BY <1>1, Bookkeeping, PTL

(* error_count may lose increments to racing runs, but never counts a run   *)
(* that did not fail and is 0 only before the first failure.                *)
THEOREM NoFailureIsInvented == Spec => []ErrorCountBounded
<1>1. BookInv => ErrorCountBounded
  BY DEF BookInv, IntegrationsOK, IntegrationOK, ErrorCountBounded
<1> QED BY <1>1, Bookkeeping, PTL

(* An answer that is not an error is the outcome of a finished run, and the *)
(* row keeps one.                                                           *)
THEOREM AnswersStayTrue == Spec => []AnswersAreDurable
<1>1. Inv /\ BookInv => AnswersAreDurable
  BY DEF BookInv, AnswersOK, AnswerOK, Errors, AnswersAreDurable
<1> QED BY <1>1, Bookkeeping, Invariance, PTL

(* Whichever run commits last, last_sync_at only moves forward.             *)
THEOREM SyncsOnlyAdvance == Spec => LastSyncNeverGoesBack
<1> DEFINE Advances ==
      \A i \in Integrations :
          integrations[i] # NULL /\ integrations[i].last_sync_at # NULL =>
              /\ integrations'[i].last_sync_at # NULL
              /\ integrations'[i].last_sync_at >= integrations[i].last_sync_at
<1>1. Inv /\ BookInv /\ [Next]_vars => [Advances]_vars
  <2>1. ASSUME Inv, BookInv, Next PROVE Advances
    BY <2>1, RecordsStayStep DEF BookInv, RecordsStay
  <2> QED BY <2>1
<1> QED BY <1>1, Bookkeeping, Invariance, PTL DEF Spec, LastSyncNeverGoesBack
-----------------------------------------------------------------------------
(* Requests that do not overlap.                                            *)

OneInFlight == \A r, s \in InFlight : r = s

(* The record counts of a job that has not completed, and of one that has.  *)
Untouched(job) ==
    job.processed_records = 0 /\ job.total_records = NULL /\ job.records_created = 0
Counted(job) ==
    /\ job.total_records = job.processed_records
    /\ job.records_created = IF job.direction = "push" THEN 0 ELSE job.processed_records

InError(row) == row.status = "error" <=> row.last_error # NULL

IntegrationExact(i) ==
    integrations[i] # NULL =>
        integrations[i].error_count = failures[i] /\ InError(integrations[i])

JobExact(j) ==
    sync_jobs[j] # NULL =>
        IF sync_jobs[j].status = "completed" THEN Counted(sync_jobs[j]) ELSE Untouched(sync_jobs[j])

(* With nobody else in flight a request's objects are as good as the rows,  *)
(* and the job it runs is not completed meanwhile.                          *)
CopyExact(r) ==
    LET table == integrations[integration_of[r]]
        job   == sync_jobs[job_of[r]]
    IN  /\ pc[r] \in Began =>
              /\ orm_integration[r].error_count = table.error_count
              /\ orm_integration[r].last_error = table.last_error
        /\ pc[r] \in {"locked", "running"} => tx_integration[r].last_error = table.last_error
        /\ pc[r] \in {"loaded"} \cup Began =>
              /\ Untouched(orm_job[r])
              /\ job # NULL => job.status # "completed" /\ job.direction = orm_job[r].direction
        /\ pc[r] = "running" =>
              Untouched(tx_job[r]) /\ tx_job[r].direction = orm_job[r].direction
        /\ pc[r] = "returned" =>
              /\ InError(tx_integration[r])
              /\ tx_job[r].status = "completed" => Counted(tx_job[r])
              /\ tx_job[r].status = "failed" =>
                    Untouched(tx_job[r]) /\ tx_integration[r].error_count = table.error_count + 1

TablesExact ==
    (\A i \in Integrations : IntegrationExact(i)) /\ (\A j \in Jobs : JobExact(j))
CopiesExact == \A r \in Requests : CopyExact(r)

SequentialInv == OneInFlight /\ TablesExact /\ CopiesExact

LEMMA NobodyElse ==
    ASSUME MaxInFlight = 1, OneInFlight, NEW r \in Requests, MayArrive(r)
    PROVE  InFlight = {}
<1> SUFFICES ASSUME NEW s \in InFlight PROVE FALSE
  OBVIOUS
<1>1. InFlight = {s}
  BY DEF OneInFlight
<1>2. Cardinality(InFlight) = 1
  BY <1>1, FS_Singleton
<1>3. Cardinality(InFlight) < 1
  BY DEF MayArrive
<1> QED BY <1>2, <1>3

LEMMA OneInFlightStep ==
    ASSUME MaxInFlight = 1, Inv, OneInFlight, Next
    PROVE  OneInFlight'
<1>a. TypeOK
  BY DEF Inv
<1>1. ASSUME NEW r \in Requests, Moves(r) PROVE OneInFlight'
  <2>1. \A s \in Requests \ {r} : pc'[s] = pc[s]
    BY <1>1, <1>a, OthersAreStill DEF Still
  <2>2. CASE InFlight \subseteq {r}
    BY <2>1, <2>2 DEF OneInFlight, InFlight
  <2>3. CASE r \in InFlight
    BY <2>1, <2>3 DEF OneInFlight, InFlight
  <2>4. CASE MayArrive(r)
    BY <2>2, <2>4, NobodyElse
  <2>5. CASE r \notin InFlight /\ ~MayArrive(r)
    <3>1. DatabaseError(r)
      BY <1>1, <2>5
      DEF Moves, Arrive, RejectUnknown, RejectFinished, TriggerJob, TriggerIntegration, Proceed,
          LoadIntegration, FlushIntegration, FlushJob, FailNoUrl, CallFails, CallSucceeds, Raise,
          Running, Commit, Answer, InFlight
    <3>2. pc'[r] = "done"
      BY <3>1, <1>a DEF DatabaseError, RollBack, Respond, TypeOK
    <3> QED BY <2>1, <3>2 DEF OneInFlight, InFlight
  <2> QED BY <2>3, <2>4, <2>5
<1>2. CASE Crash
  BY <1>2 DEF Crash, OneInFlight, InFlight
<1>3. CASE Configure \/ Idle
  BY <1>3 DEF Configure, CreateIntegration, InstallTemplate, ConfigureSync, Idle, vars, InFlight, OneInFlight
<1> QED BY <1>1, <1>2, <1>3 DEF Next, Moves

(* Nobody publishes a row of the request in flight but the request.         *)
LEMMA OwnRowsStay ==
    ASSUME Inv, OneInFlight, Next, NEW s \in InFlight, Still(s)
    PROVE  /\ integration_of[s] \in Integrations =>
                  \/ integrations[integration_of[s]] = NULL
                  \/ integrations'[integration_of[s]] = integrations[integration_of[s]]
           /\ job_of[s] \in Jobs => sync_jobs'[job_of[s]] = sync_jobs[job_of[s]]
<1>1. ~ \E r \in Requests : Commit(r)
  <2> SUFFICES ASSUME NEW r \in Requests, Commit(r) PROVE FALSE
    OBVIOUS
  <2>1. r \in InFlight /\ pc'[r] # pc[r]
    BY DEF Commit, InFlight, Inv, TypeOK
  <2> QED BY <2>1 DEF OneInFlight, Still
<1>2. s \in Requests
  BY DEF InFlight
<1> QED
  BY <1>1, <1>2, Writers
  DEF database, CreateIntegration, InstallTemplate, ConfigureSync, Fresh, Inv, TypeOK

LEMMA StillExact ==
    ASSUME Inv, OneInFlight, CopiesExact, Next, NEW s \in Requests, Still(s)
    PROVE  CopyExact(s)'
<1> DEFINE i == integration_of[s]
<1>a. CopyExact(s) /\ SessionOK(s)
  BY DEF CopiesExact, Inv, SessionsOK
<1>b. /\ pc'[s] = pc[s] /\ job_of'[s] = job_of[s] /\ integration_of'[s] = i
      /\ orm_integration'[s] = orm_integration[s] /\ orm_job'[s] = orm_job[s]
      /\ tx_integration'[s] = tx_integration[s] /\ tx_job'[s] = tx_job[s]
  BY DEF Still
<1>1. CASE pc[s] \in {"loaded"} \cup Began
  <2>1. i \in Integrations /\ integrations[i] # NULL /\ job_of[s] \in Jobs /\ s \in InFlight
    BY <1>1, <1>a, NullAssumption DEF SessionOK, Inv, ReferencesOK, Began, InFlight
  <2>2. integrations'[i] = integrations[i] /\ sync_jobs'[job_of[s]] = sync_jobs[job_of[s]]
    BY <2>1, OwnRowsStay
  <2> QED BY <1>a, <1>b, <2>2 DEF CopyExact, Untouched, Counted, InError
<1>2. CASE pc[s] \notin {"loaded"} \cup Began
  BY <1>2, <1>b DEF CopyExact, Began
<1> QED BY <1>1, <1>2

LEMMA OverExact ==
    ASSUME NEW s \in Requests, pc'[s] \in {"new", "committed", "done", "lost"}
    PROVE  CopyExact(s)'
  BY DEF CopyExact, Began

LEMMA BeganExact ==
    ASSUME Inv, NEW s \in Requests, NEW i \in Integrations, NEW job \in JobRow,
           integrations[i] # NULL, Begin(s, i, job), integration_of'[s] = i,
           UNCHANGED database, Untouched(job),
           sync_jobs[job_of'[s]] # NULL =>
               /\ sync_jobs[job_of'[s]].status # "completed"
               /\ sync_jobs[job_of'[s]].direction = job.direction
    PROVE  CopyExact(s)'
<1>1. integrations[i] \in IntegrationRow
  BY DEF Inv, TypeOK
<1>2. /\ pc'[s] = "flushing"
      /\ orm_job'[s] = [job EXCEPT !.status = "running", !.started_at = now + 1]
      /\ orm_integration'[s] = [integrations[i] EXCEPT !.status = "syncing"]
  BY DEF Begin, Inv, TypeOK
<1>3. /\ orm_job'[s].direction = job.direction /\ Untouched(orm_job'[s])
  BY <1>2 DEF JobRow, Untouched
<1>4. /\ orm_integration'[s].error_count = integrations[i].error_count
      /\ orm_integration'[s].last_error = integrations[i].last_error
  BY <1>1, <1>2 DEF IntegrationRow
<1> QED BY <1>2, <1>3, <1>4 DEF CopyExact, Began, database, Untouched

LEMMA FlushedIntegrationExact ==
    ASSUME Inv, CopiesExact, NEW s \in Requests, FlushIntegration(s)
    PROVE  CopyExact(s)'
<1> DEFINE i == integration_of[s]
<1>1. /\ CopyExact(s) /\ pc[s] = "flushing"
      /\ i \in Integrations /\ integrations[i] \in IntegrationRow
  BY NullAssumption
  DEF FlushIntegration, CopiesExact, Inv, SessionsOK, SessionOK, ReferencesOK, TypeOK, Began
<1>2. /\ pc'[s] = "locked"
      /\ tx_integration'[s] = [integrations[i] EXCEPT !.status = orm_integration[s].status]
      /\ UNCHANGED <<database, target, orm_integration, orm_job, failures, now>>
  BY DEF FlushIntegration, Syncing, Inv, TypeOK
<1>3. tx_integration'[s].last_error = integrations[i].last_error
  BY <1>1, <1>2 DEF IntegrationRow
<1> QED BY <1>1, <1>2, <1>3 DEF CopyExact, Began, Untouched, database, target

LEMMA FlushedJobExact ==
    ASSUME Inv, TablesExact, CopiesExact, NEW s \in Requests, FlushJob(s)
    PROVE  CopyExact(s)'
<1> DEFINE j   == job_of[s]
           row == IF sync_jobs[j] = NULL THEN orm_job[s] ELSE sync_jobs[j]
<1>1. /\ CopyExact(s) /\ pc[s] = "locked" /\ j \in Jobs /\ row \in JobRow
  BY DEF FlushJob, CopiesExact, Inv, SessionsOK, SessionOK, TypeOK, Began
<1>2. /\ pc'[s] = "running"
      /\ tx_job'[s] = [row EXCEPT !.status = orm_job[s].status,
                                  !.started_at = orm_job[s].started_at]
      /\ UNCHANGED <<database, target, orm_integration, orm_job, tx_integration, failures, now>>
  BY DEF FlushJob, Inv, TypeOK
<1>3. Untouched(row) /\ row.direction = orm_job[s].direction
  BY <1>1 DEF CopyExact, Began, TablesExact, JobExact
<1> HIDE DEF row
<1>4. Untouched(tx_job'[s]) /\ tx_job'[s].direction = orm_job[s].direction
  BY <1>1, <1>2, <1>3 DEF JobRow, Untouched
<1> QED BY <1>1, <1>2, <1>4 DEF CopyExact, Began, Untouched, database, target

LEMMA FailedExact ==
    ASSUME Inv, BookInv, CopiesExact, NEW s \in Requests, pc[s] = "running",
           NEW message \in Messages \ {NULL}, Fail(s, message)
    PROVE  CopyExact(s)'
<1> DEFINE i   == integration_of[s]
           row == FailedIntegration(tx_integration[s], orm_integration[s], message)
           job == FailedJob(tx_job[s], orm_job[s], message, now + 1)
<1>0. /\ CopyExact(s)
      /\ tx_integration[s] \in IntegrationRow /\ orm_integration[s] \in IntegrationRow
      /\ tx_job[s] \in JobRow
  BY RunningFacts DEF BookInv, CopiesExact
<1>1. /\ pc'[s] = "returned" /\ tx_integration'[s] = row /\ tx_job'[s] = job
      /\ UNCHANGED <<database, target, orm_integration, orm_job, failures>>
  BY DEF Fail, Return, Inv, TypeOK
<1>2. /\ row.status = "error" /\ row.error_count = integrations[i].error_count + 1
      /\ row.last_error = Written(tx_integration[s].last_error, orm_integration[s].last_error, message)
      /\ tx_integration[s].last_error = orm_integration[s].last_error
  BY <1>0, FailedIntegrationValues DEF CopyExact, Began
<1>3. InError(row)
  BY <1>2 DEF InError, Written
<1>4. job.status = "failed" /\ Untouched(job)
  BY <1>0, FailedJobValues DEF CopyExact, Untouched
<1> HIDE DEF row, job
<1> QED BY <1>0, <1>1, <1>2, <1>3, <1>4
        DEF CopyExact, Began, Untouched, Counted, InError, database, target

LEMMA SucceededExact ==
    ASSUME Inv, BookInv, CopiesExact, NEW s \in Requests, pc[s] = "running",
           NEW n \in RecordCounts, Succeed(s, n)
    PROVE  CopyExact(s)'
<1> DEFINE row == SyncedIntegration(tx_integration[s], orm_integration[s], now + 1)
           job == SyncedJob(tx_job[s], orm_job[s], n, now + 1)
<1>0. /\ CopyExact(s) /\ tx_integration[s] \in IntegrationRow /\ tx_job[s] \in JobRow
  BY RunningFacts DEF BookInv, CopiesExact
<1>1. /\ pc'[s] = "returned" /\ tx_integration'[s] = row /\ tx_job'[s] = job
      /\ UNCHANGED <<database, target, orm_integration, orm_job, failures>>
  BY DEF Succeed, Return, Inv, TypeOK
<1>2. /\ row.status = "active"
      /\ row.last_error = Written(tx_integration[s].last_error, orm_integration[s].last_error, NULL)
      /\ tx_integration[s].last_error = orm_integration[s].last_error
  BY <1>0, SyncedIntegrationValues DEF CopyExact, Began
<1>3. InError(row)
  BY <1>2 DEF InError, Written
<1>4. /\ job.status = "completed" /\ job.direction = orm_job[s].direction
      /\ job.processed_records = n /\ job.total_records = n
      /\ job.records_created = IF orm_job[s].direction = "push" THEN 0 ELSE n
  <2>1. /\ Untouched(tx_job[s]) /\ Untouched(orm_job[s])
        /\ tx_job[s].direction = orm_job[s].direction
    BY <1>0 DEF CopyExact, Began
  <2>2. /\ job.status = "completed" /\ job.direction = tx_job[s].direction
        /\ job.processed_records
              = Written(tx_job[s].processed_records, orm_job[s].processed_records, n)
        /\ job.total_records = Written(tx_job[s].total_records, orm_job[s].total_records, n)
        /\ job.records_created =
              IF orm_job[s].direction = "push" THEN tx_job[s].records_created
              ELSE Written(tx_job[s].records_created, orm_job[s].records_created, n)
    BY <1>0, SyncedJobValues
  <2> HIDE DEF job
  <2> QED BY <2>1, <2>2 DEF Untouched, Written
<1> HIDE DEF row, job
<1>5. Counted(job)
  BY <1>4 DEF Counted
<1> QED BY <1>0, <1>1, <1>3, <1>4, <1>5
        DEF CopyExact, Began, Untouched, Counted, InError, database, target

LEMMA CopiesExactStep ==
    ASSUME MaxInFlight = 1, Inv, BookInv, SequentialInv, Next
    PROVE  CopiesExact'
<1> SUFFICES ASSUME NEW s \in Requests PROVE CopyExact(s)'
  BY DEF CopiesExact
<1> USE DEF SequentialInv
<1>1. ASSUME RejectUnknown(s) \/ (\E j \in Jobs : RejectFinished(s, j)) PROVE CopyExact(s)'
  BY <1>1, OverExact DEF RejectUnknown, RejectFinished, Respond, Inv, TypeOK
<1>2. ASSUME NEW j \in Jobs, TriggerJob(s, j) PROVE CopyExact(s)'
  <2>1. /\ pc'[s] = "loaded" /\ job_of'[s] = j /\ orm_job'[s] = sync_jobs[j]
        /\ sync_jobs' = sync_jobs /\ sync_jobs[j] # NULL /\ sync_jobs[j].status # "completed"
    BY <1>2 DEF TriggerJob, MayRun, database, Inv, TypeOK
  <2>2. Untouched(sync_jobs[j])
    BY <2>1 DEF TablesExact, JobExact
  <2> QED BY <2>1, <2>2 DEF CopyExact, Began, Untouched
<1>3. ASSUME NEW j \in Jobs, NEW i \in Integrations, TriggerIntegration(s, i, j)
      PROVE  CopyExact(s)'
  <2>1. NewJob(i, "pull") \in JobRow /\ Untouched(NewJob(i, "pull"))
    BY NewJobType DEF Untouched, NewJob
  <2>2. integration_of'[s] = i /\ job_of'[s] = j /\ sync_jobs[j] = NULL
    BY <1>3 DEF TriggerIntegration, Fresh, Inv, TypeOK
  <2> QED BY <1>3, <2>1, <2>2, BeganExact DEF TriggerIntegration
<1>4. CASE LoadIntegration(s)
  <2>1. /\ integration_of[s] \in Integrations /\ integrations[integration_of[s]] # NULL
        /\ orm_job[s] \in JobRow /\ Untouched(orm_job[s])
        /\ sync_jobs[job_of[s]] # NULL =>
               /\ sync_jobs[job_of[s]].status # "completed"
               /\ sync_jobs[job_of[s]].direction = orm_job[s].direction
    BY <1>4, NullAssumption
    DEF LoadIntegration, CopiesExact, CopyExact, Inv, SessionsOK, SessionOK, ReferencesOK
  <2> QED BY <1>4, <2>1, BeganExact DEF LoadIntegration, target
<1>5. CASE FlushIntegration(s)
  BY <1>5, FlushedIntegrationExact
<1>6. CASE FlushJob(s)
  BY <1>6, FlushedJobExact
<1>7. CASE Outcomes(s)
  <2>1. pc[s] = "running"
    BY <1>7 DEF Outcomes, FailNoUrl, CallFails, CallSucceeds, Running
  <2>2. "no_sync_url" \in Messages \ {NULL} /\ \A m \in CallErrors : m \in Messages \ {NULL}
    BY NullAssumption, MessageAssumption DEF Messages
  <2> QED BY <1>7, <2>1, <2>2, FailedExact, SucceededExact
          DEF Outcomes, FailNoUrl, CallFails, CallSucceeds
<1>8. ASSUME NEW code, RollBack(s, code) PROVE CopyExact(s)'
  BY <1>8, OverExact DEF RollBack, Respond, Inv, TypeOK
<1>9. CASE Commit(s) \/ Answer(s)
  BY <1>9, OverExact DEF Commit, Answer, Respond, Inv, TypeOK
<1>10. CASE Crash
  <2>1. CASE s \in InFlight
    BY <1>10, <2>1, OverExact DEF Crash
  <2>2. CASE s \notin InFlight
    BY <1>10, <2>2, StillExact DEF Crash, CloseSessions, Forget, target, Still
  <2> QED BY <2>1, <2>2
<1>11. ASSUME NEW r \in Requests, Moves(r), r # s PROVE CopyExact(s)'
  BY <1>11, OthersAreStill, StillExact DEF Inv
<1>12. CASE Configure \/ Idle
  BY <1>12, StillExact
  DEF Configure, CreateIntegration, InstallTemplate, ConfigureSync, Idle, vars, session, target, Still
<1>13. CASE Moves(s)
  BY <1>13, <1>1, <1>2, <1>3, <1>4, <1>5, <1>6, <1>7, <1>8, <1>9
  DEF Moves, Arrive, Proceed, Outcomes, Raise, DatabaseError
<1> QED BY <1>10, <1>11, <1>12, <1>13 DEF Next, Moves

LEMMA TablesExactStep ==
    ASSUME Inv, BookInv, TablesExact, CopiesExact, Next
    PROVE  TablesExact'
<1>1. ASSUME NEW r \in Requests, Commit(r) PROVE TablesExact'
  <2> DEFINE i == integration_of[r]
             row == tx_integration[r]
  <2>1. /\ i \in Integrations
        /\ \A k \in Integrations : integrations'[k] = IF k = i THEN row ELSE integrations[k]
        /\ \A k \in Jobs : sync_jobs'[k] = IF k = job_of[r] THEN tx_job[r] ELSE sync_jobs[k]
        /\ \A k \in Integrations : failures'[k] =
               IF k = i /\ tx_job[r].status = "failed" THEN failures[k] + 1 ELSE failures[k]
        /\ tx_job[r].status \in Terminal
        /\ integrations[i] # NULL /\ row # NULL /\ tx_job[r] # NULL
    BY <1>1, CommitWrites, NullIsNoRow
  <2>2. CopyExact(r) /\ pc[r] = "returned" /\ (HoldsFailure(r) \/ HoldsSuccess(r))
    BY <1>1, CommittedOutcome DEF Commit, CopiesExact, BookInv
  <2>3. /\ InError(row)
        /\ tx_job[r].status = "completed" => Counted(tx_job[r])
        /\ tx_job[r].status # "completed" =>
              Untouched(tx_job[r]) /\ row.error_count = integrations[i].error_count + 1
        /\ tx_job[r].status = "completed" => row.error_count = integrations[i].error_count
    BY <2>1, <2>2 DEF CopyExact, HoldsFailure, HoldsSuccess, Terminal
  <2>4. IntegrationExact(i)
    BY <2>1 DEF TablesExact
  <2>5. ASSUME NEW k \in Integrations PROVE IntegrationExact(k)'
    <3>1. CASE k = i
      BY <2>1, <2>3, <2>4, <3>1 DEF IntegrationExact, InError, Terminal
    <3>2. CASE k # i
      BY <2>1, <3>2 DEF TablesExact, IntegrationExact, InError
    <3> QED BY <3>1, <3>2
  <2>6. ASSUME NEW k \in Jobs PROVE JobExact(k)'
    <3>1. CASE k = job_of[r]
      BY <2>1, <2>3, <3>1 DEF JobExact, Counted, Untouched
    <3>2. CASE k # job_of[r]
      BY <2>1, <3>2 DEF TablesExact, JobExact, Counted, Untouched
    <3> QED BY <3>1, <3>2
  <2> QED BY <2>5, <2>6 DEF TablesExact
<1>2. ASSUME ~ \E r \in Requests : Commit(r) PROVE TablesExact'
  <2>0. failures' = failures
    BY <1>2, OnlyCommitsFail
  <2>1. ASSUME NEW k \in Integrations, integrations'[k] = integrations[k]
        PROVE  IntegrationExact(k)'
    BY <2>0, <2>1 DEF TablesExact, IntegrationExact, InError
  <2>2. ASSUME NEW k \in Integrations, integrations[k] = NULL, NEW url, NEW interval,
               NEW status \in {"active", "inactive"}, NEW next,
               integrations'[k] = NewIntegration(url, interval, status, next)
        PROVE  IntegrationExact(k)'
    <3>1. failures[k] = 0
      BY <2>2 DEF BookInv, IntegrationsOK, IntegrationOK
    <3> QED BY <2>0, <2>2, <3>1 DEF IntegrationExact, InError, NewIntegration
  <2>3. ASSUME NEW k \in Jobs, sync_jobs'[k] = sync_jobs[k] PROVE JobExact(k)'
    BY <2>3 DEF TablesExact, JobExact, Counted, Untouched
  <2>4. ASSUME NEW i \in Integrations, NEW url \in Urls, NEW interval \in Intervals,
               NEW auto \in BOOLEAN, CreateIntegration(i, url, interval, auto)
        PROVE  TablesExact'
    <3>1. /\ integrations[i] = NULL /\ sync_jobs' = sync_jobs
          /\ \A k \in Integrations \ {i} : integrations'[k] = integrations[k]
          /\ integrations'[i] = NewIntegration(url, interval, "active",
                                               IF auto THEN now + interval ELSE NULL)
      BY <2>4 DEF CreateIntegration, Inv, TypeOK
    <3>2. IntegrationExact(i)'
      BY <2>2, <3>1
    <3> QED BY <2>1, <2>3, <3>1, <3>2 DEF TablesExact
  <2>5. ASSUME NEW i \in Integrations, NEW url \in Urls, InstallTemplate(i, url)
        PROVE  TablesExact'
    <3>1. /\ integrations[i] = NULL /\ sync_jobs' = sync_jobs
          /\ \A k \in Integrations \ {i} : integrations'[k] = integrations[k]
          /\ integrations'[i] = NewIntegration(url, 24, "inactive", NULL)
      BY <2>5 DEF InstallTemplate, Inv, TypeOK
    <3>2. IntegrationExact(i)'
      BY <2>2, <3>1
    <3> QED BY <2>1, <2>3, <3>1, <3>2 DEF TablesExact
  <2>6. ASSUME NEW j \in Jobs, NEW i \in Integrations, NEW direction \in Directions,
               ConfigureSync(j, i, direction)
        PROVE  TablesExact'
    <3>1. /\ integrations' = integrations
          /\ \A k \in Jobs \ {j} : sync_jobs'[k] = sync_jobs[k]
          /\ sync_jobs'[j] = NewJob(i, direction)
      BY <2>6 DEF ConfigureSync, Inv, TypeOK
    <3>2. JobExact(j)'
      BY <3>1 DEF JobExact, Untouched, NewJob
    <3> QED BY <2>1, <2>3, <3>1, <3>2 DEF TablesExact
  <2>7. CASE UNCHANGED database
    BY <2>1, <2>3, <2>7 DEF TablesExact, database
  <2> QED BY <1>2, <2>4, <2>5, <2>6, <2>7, Writers
<1> QED BY <1>1, <1>2

LEMMA SequentialInit == Init => SequentialInv
  BY DEF Init, NoRequests, NoOne, SequentialInv, OneInFlight, InFlight, TablesExact, IntegrationExact,
         JobExact, CopiesExact, CopyExact, Began

LEMMA SequentialStutter == SequentialInv /\ UNCHANGED vars => SequentialInv'
<1> SUFFICES ASSUME SequentialInv, UNCHANGED vars PROVE SequentialInv'
  OBVIOUS
<1> USE DEF vars, database, target, session, SequentialInv
<1>1. OneInFlight' /\ TablesExact'
  BY DEF OneInFlight, InFlight, TablesExact, IntegrationExact, JobExact, InError, Counted, Untouched
<1>2. CopiesExact'
  BY DEF CopiesExact, CopyExact, InError, Counted, Untouched, Began
<1> QED BY <1>1, <1>2

LEMMA SequentialStep ==
    ASSUME MaxInFlight = 1
    PROVE  Inv /\ BookInv /\ SequentialInv /\ [Next]_vars => SequentialInv'
  BY OneInFlightStep, CopiesExactStep, TablesExactStep, SequentialStutter DEF SequentialInv

(* When requests do not overlap, the tables tell exactly what the runs did, *)
(* and the copies that a run loaded are still the rows when it commits.     *)
THEOREM SequentialBookkeeping == MaxInFlight = 1 => (Spec => []SequentialInv)
<1> SUFFICES ASSUME MaxInFlight = 1 PROVE Spec => []SequentialInv
  OBVIOUS
<1> QED BY SequentialInit, SequentialStep, Invariance, Bookkeeping, PTL DEF Spec

(* When requests do not overlap no failure is lost: error_count is exact.   *)
THEOREM EveryFailureIsCounted == MaxInFlight = 1 => (Spec => []ErrorCountExact)
<1> SUFFICES ASSUME MaxInFlight = 1 PROVE Spec => []ErrorCountExact
  OBVIOUS
<1>1. SequentialInv => ErrorCountExact
  BY DEF SequentialInv, TablesExact, IntegrationExact, ErrorCountExact
<1> QED BY <1>1, SequentialBookkeeping, PTL

(* When requests do not overlap an integration shows a message exactly when *)
(* it is in error, though an UPDATE leaves out what its copy shows already. *)
THEOREM StatusTellsTheError == MaxInFlight = 1 => (Spec => []StatusMatchesLastError)
<1> SUFFICES ASSUME MaxInFlight = 1 PROVE Spec => []StatusMatchesLastError
  OBVIOUS
<1>1. SequentialInv => StatusMatchesLastError
  BY DEF SequentialInv, TablesExact, IntegrationExact, InError, StatusMatchesLastError
<1> QED BY <1>1, SequentialBookkeeping, PTL

(* When requests do not overlap the record counts of a completed job agree, *)
(* also of one that failed before.                                          *)
THEOREM CountsOfAJobAgree == MaxInFlight = 1 => (Spec => []RecordsAgree)
<1> SUFFICES ASSUME MaxInFlight = 1 PROVE Spec => []RecordsAgree
  OBVIOUS
<1>1. SequentialInv => RecordsAgree
  BY DEF SequentialInv, TablesExact, JobExact, Counted, RecordsAgree
<1> QED BY <1>1, SequentialBookkeeping, PTL

(* When requests do not overlap the check of the job's status at the head   *)
(* of the handler is enough: a completed job is never written again.        *)
THEOREM CompletedJobsStay == MaxInFlight = 1 => (Spec => CompletedIsFinal)
<1> SUFFICES ASSUME MaxInFlight = 1 PROVE Spec => CompletedIsFinal
  OBVIOUS
<1> DEFINE Kept ==
      \A j \in Jobs : sync_jobs[j] # NULL /\ sync_jobs[j].status = "completed" =>
          sync_jobs'[j] = sync_jobs[j]
<1>1. ASSUME Inv, SequentialInv, Next PROVE Kept
  <2>1. ASSUME NEW r \in Requests, Commit(r) PROVE Kept
    <3>1. sync_jobs[job_of[r]] # NULL => sync_jobs[job_of[r]].status # "completed"
      BY <1>1, <2>1 DEF Commit, SequentialInv, CopiesExact, CopyExact, Began
    <3> QED BY <1>1, <2>1, <3>1, CommitWrites
  <2>2. ASSUME NEW j \in Jobs, NEW i \in Integrations, NEW direction \in Directions,
               ConfigureSync(j, i, direction)
        PROVE  Kept
    BY <1>1, <2>2 DEF ConfigureSync, Fresh, Inv, TypeOK
  <2> QED
    BY <1>1, <2>1, <2>2, Writers DEF database, CreateIntegration, InstallTemplate
<1>2. Inv /\ SequentialInv /\ [Next]_vars => [Kept]_vars
  BY <1>1
<1> QED BY <1>2, SequentialBookkeeping, Invariance, PTL DEF Spec, CompletedIsFinal
=============================================================================
