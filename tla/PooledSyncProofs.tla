-------------------------- MODULE PooledSyncProofs --------------------------
(* Proofs about PooledSync: it implements SyncEngine, so that all that is   *)
(* proved of SyncEngine holds of it, and the pool's timeout strikes no run. *)
EXTENDS PooledSync, SyncEngineProofs

(* The steps at which a transaction is open.                                *)
InTransaction == {"loaded"} \cup Began

(* Who has a connection, who may wait for one, and what a request that gave *)
(* up leaves behind.                                                        *)
PoolOK ==
    /\ holders \subseteq Requests /\ waiting \subseteq Requests
    /\ holders \cap waiting = {}
    /\ \A r \in Requests :
          /\ pc[r] \in InTransaction => r \in holders
          /\ pc[r] \in {"done", "lost"} => r \notin waiting
          /\ pc[r] = "new" => job_of[r] = NULL
    /\ timed_out \subseteq {r \in Requests : pc[r] = "done"}

PoolInv == Inv /\ PoolOK /\ TimeoutsAreWholeOrNothing

-----------------------------------------------------------------------------
(* Refinement: every step is one of SyncEngine, or leaves its state alone.  *)

LEMMA TimeOutIsAnError ==
    ASSUME PoolOK, NEW r \in Requests, TimeOut(r)
    PROVE  DatabaseError(r)
  BY PoolAssumption DEF PoolOK, TimeOut, DatabaseError

(* What a step of the pool is to SyncEngine.                                *)
LEMMA PoolSteps ==
    ASSUME PoolOK, PooledNext
    PROVE  \/ UNCHANGED vars
           \/ Configure /\ UNCHANGED <<pool, timed_out>>
           \/ \E r \in Requests : TimeOut(r) /\ Moves(r)
           \/ \E r \in Requests : r \in holders /\ Moves(r) /\ GiveBack(r)
                                  /\ UNCHANGED <<waiting, timed_out>>
           \/ \E r \in Requests : RejectUnparsed(r) /\ Moves(r)
           \/ Crash /\ holders' = {} /\ waiting' = {} /\ UNCHANGED timed_out
<1>1. ASSUME NEW r \in Requests, TimeOut(r) PROVE Moves(r)
  BY <1>1, TimeOutIsAnError DEF Moves
<1>2. ASSUME NEW r \in Requests, Work(r)
      PROVE  r \in holders /\ Moves(r) /\ GiveBack(r) /\ UNCHANGED <<waiting, timed_out>>
  BY <1>2 DEF Work, Moves
<1>3. ASSUME NEW r \in Requests, StatementFails(r)
      PROVE  r \in holders /\ Moves(r) /\ GiveBack(r) /\ UNCHANGED <<waiting, timed_out>>
  BY <1>3 DEF StatementFails, Moves
<1>4. ASSUME NEW r \in Requests, RejectUnparsed(r) PROVE Moves(r)
  BY <1>4 DEF RejectUnparsed, Moves, Arrive
<1>5. ASSUME NEW r \in Requests, Ask(r) \/ CheckOut(r) \/ Close(r) PROVE UNCHANGED vars
  BY <1>5 DEF Ask, CheckOut, Close
<1>6. PooledIdle => UNCHANGED vars
  BY DEF PooledIdle, Idle
<1>7. PooledConfigure => Configure /\ UNCHANGED <<pool, timed_out>>
  BY DEF PooledConfigure
<1>8. PooledCrash =>
          \/ UNCHANGED vars
          \/ Crash /\ holders' = {} /\ waiting' = {} /\ UNCHANGED timed_out
  BY DEF PooledCrash
<1> HIDE DEF vars
<1> QED BY <1>1, <1>2, <1>3, <1>4, <1>5, <1>6, <1>7, <1>8 DEF PooledNext

LEMMA ImplementsNext == PoolOK /\ [PooledNext]_pooledVars => [Next]_vars
<1>1. ASSUME NEW r \in Requests, Moves(r) PROVE Next
  BY <1>1 DEF Moves, Next
<1>2. Configure => Next
  BY DEF Next
<1>3. Crash => Next
  BY DEF Next
<1>4. UNCHANGED pooledVars => UNCHANGED vars
  BY DEF pooledVars
<1> QED BY <1>1, <1>2, <1>3, <1>4, PoolSteps

-----------------------------------------------------------------------------
(* The invariant.                                                           *)

LEMMA PoolInit == PooledInit => PoolInv
<1>1. PooledInit => Inv
  BY InitOK DEF PooledInit
<1>2. PooledInit => PoolOK /\ TimeoutsAreWholeOrNothing
  BY DEF PooledInit, NewPool, Init, NoRequests, NoOne, PoolOK, TimeoutsAreWholeOrNothing, InTransaction, Began
<1> QED BY <1>1, <1>2 DEF PoolInv

(* A request that moves was neither over nor moves back to its beginning.   *)
LEMMA MoveShape ==
    ASSUME TypeOK, NEW r \in Requests, Moves(r)
    PROVE  pc[r] \notin {"done", "lost"} /\ pc'[r] \notin {"new", "lost"}
<1> USE DEF TypeOK
<1>1. CASE Arrive(r)
  BY <1>1 DEF Arrive, RejectUnknown, RejectFinished, TriggerJob, TriggerIntegration, Begin,
     Respond, MayArrive
<1>2. CASE DatabaseError(r)
  BY <1>2 DEF DatabaseError, RollBack, Respond
<1>3. CASE LoadIntegration(r) \/ FlushIntegration(r) \/ FlushJob(r)
  BY <1>3 DEF LoadIntegration, Begin, FlushIntegration, FlushJob
<1>4. ASSUME FailNoUrl(r) \/ \E m \in CallErrors : CallFails(r, m)
      PROVE  pc[r] = "running" /\ pc'[r] = "returned"
  BY <1>4 DEF FailNoUrl, CallFails, Fail, Return, Running
<1>5. ASSUME NEW n \in RecordCounts, CallSucceeds(r, n)
      PROVE  pc[r] = "running" /\ pc'[r] = "returned"
  BY <1>5 DEF CallSucceeds, Succeed, Return, Running
<1>6. CASE Raise(r) \/ Commit(r) \/ Answer(r)
  BY <1>6 DEF Raise, RollBack, Running, Commit, Answer, Respond
<1> QED BY <1>1, <1>2, <1>3, <1>4, <1>5, <1>6 DEF Moves, Proceed

LEMMA PoolOKStep == Inv /\ PoolOK /\ [PooledNext]_pooledVars => PoolOK'
<1> SUFFICES ASSUME Inv, PoolOK, [PooledNext]_pooledVars PROVE PoolOK'
  OBVIOUS
<1>t. TypeOK
  BY DEF Inv
<1> USE DEF PoolOK, InTransaction, Began
<1>1. ASSUME NEW r \in Requests, Ask(r) \/ CheckOut(r) \/ Close(r) PROVE PoolOK'
  BY <1>1 DEF Ask, CheckOut, Close, vars, target
<1>2. ASSUME NEW r \in Requests, Moves(r), UNCHANGED <<waiting, timed_out>>,
             (r \in holders /\ GiveBack(r)) \/ RejectUnparsed(r)
      PROVE  PoolOK'
  <2>1. pc[r] \notin {"done", "lost"} /\ pc'[r] \notin {"new", "lost"}
    BY <1>t, <1>2, MoveShape
  <2>2. \A s \in Requests \ {r} : pc'[s] = pc[s] /\ job_of'[s] = job_of[s]
    BY <1>t, <1>2, OthersAreStill DEF Still
  <2>3. CASE r \in holders /\ GiveBack(r)
    BY <1>2, <2>1, <2>2, <2>3 DEF GiveBack, Ends
  <2>4. CASE RejectUnparsed(r)
    BY <1>t, <1>2, <2>1, <2>2, <2>4 DEF RejectUnparsed, RejectUnknown, Respond, pool, TypeOK
  <2> QED BY <1>2, <2>3, <2>4
<1>3. ASSUME NEW r \in Requests, TimeOut(r) PROVE PoolOK'
  BY <1>t, <1>3 DEF TimeOut, RollBack, Respond, target, TypeOK
<1>4. CASE Crash /\ holders' = {} /\ waiting' = {} /\ UNCHANGED timed_out
  BY <1>t, <1>4 DEF Crash, InFlight, target, TypeOK
<1>5. CASE Configure /\ UNCHANGED <<pool, timed_out>>
  BY <1>5 DEF Configure, CreateIntegration, InstallTemplate, ConfigureSync, pool, target
<1>6. CASE UNCHANGED pooledVars
  BY <1>6 DEF pooledVars, pool, vars, target
<1>7. ASSUME InFlight = {}, UNCHANGED vars, holders' = {}, waiting' = {}, UNCHANGED timed_out
      PROVE  PoolOK'
  <2>1. \A r \in Requests : pc[r] \in {"new", "done", "lost"}
    BY <1>7 DEF InFlight
  <2> QED BY <1>7, <2>1 DEF vars, target
<1>8. CASE PooledIdle
  BY <1>8 DEF PooledIdle, Idle, pool, vars, target
<1> QED
  BY <1>1, <1>2, <1>3, <1>4, <1>5, <1>6, <1>7, <1>8
  DEF PooledNext, PooledConfigure, PooledCrash, Work, StatementFails, RejectUnparsed, Moves,
      Arrive, pool

LEMMA TimeoutsStep == PoolInv /\ [PooledNext]_pooledVars => TimeoutsAreWholeOrNothing'
<1> SUFFICES ASSUME PoolInv, [PooledNext]_pooledVars,
                    NEW s \in timed_out', job_of'[s] # NULL
             PROVE  sync_jobs'[job_of'[s]] # NULL
                    /\ sync_jobs'[job_of'[s]].status \in Terminal
  BY DEF TimeoutsAreWholeOrNothing
<1> USE DEF PoolInv
<1>t. TypeOK
  BY DEF Inv
<1>1. CASE s \in timed_out
  <2>1. s \in Requests /\ pc[s] = "done"
    BY <1>1 DEF PoolOK
  <2>2. job_of'[s] = job_of[s]
    <3>1. ASSUME NEW r \in Requests, Moves(r) PROVE job_of'[s] = job_of[s]
      BY <1>t, <2>1, <3>1, MoveShape, OthersAreStill DEF Still
    <3>2. CASE Crash \/ Configure \/ UNCHANGED vars
      BY <3>2 DEF Crash, Configure, CreateIntegration, InstallTemplate, ConfigureSync, vars,
         target
    <3> QED BY <3>1, <3>2, PoolSteps DEF pooledVars
  <2>3. sync_jobs[job_of[s]] # NULL /\ sync_jobs[job_of[s]].status \in Terminal
    BY <1>1, <2>2 DEF TimeoutsAreWholeOrNothing
  <2>4. job_of[s] \in Jobs
    BY <1>t, <2>1, <2>2 DEF TypeOK
  <2>5. RowsStay \/ UNCHANGED vars
    BY ImplementsNext, RowsStayStep
  <2> QED BY <2>2, <2>3, <2>4, <2>5 DEF RowsStay, vars, database
<1>2. CASE s \notin timed_out
  <2>1. PICK r \in Requests : TimeOut(r) /\ r = s
    BY <1>2 DEF PooledNext, pooledVars, PooledConfigure, Ask, CheckOut, Close, TimeOut, Work,
       StatementFails, RejectUnparsed, PooledCrash, PooledIdle
  <2>2. pc[s] \in {"new", "committed"}
    BY <1>t, <2>1 DEF TimeOut, PoolOK, InTransaction, Began, TypeOK, Steps
  <2>3. job_of'[s] = job_of[s] /\ sync_jobs' = sync_jobs
    BY <2>1 DEF TimeOut, RollBack, target, database
  <2>4. pc[s] = "committed"
    BY <2>1, <2>2, <2>3 DEF PoolOK
  <2> QED BY <2>1, <2>3, <2>4 DEF Inv, SessionsOK, SessionOK
<1> QED BY <1>1, <1>2

(* The inductive invariant: that of SyncEngine, who has a connection at each*)
(* step, and what a request that gave up leaves behind.                     *)
THEOREM PooledInvariance == PooledSpec => []PoolInv
<1>1. PoolInv /\ [PooledNext]_pooledVars => PoolInv'
  BY ImplementsNext, InvStep, PoolOKStep, TimeoutsStep DEF PoolInv
<1> QED BY <1>1, PoolInit, PTL DEF PooledSpec

(* With the pool the handlers do nothing they could not do without it: what *)
(* is proved of SyncEngine holds under any limit.                           *)
THEOREM PoolRefinesSync == PooledSpec => Spec
<1>1. PooledInit => Init
  BY DEF PooledInit
<1>2. PoolInv => PoolOK
  BY DEF PoolInv
<1> QED BY <1>1, <1>2, ImplementsNext, PooledInvariance, PTL DEF PooledSpec, Spec

(* A request keeps the connection it has for as long as it holds a row.     *)
THEOREM NoWaitUnderLock == PooledSpec => []LockHoldersNeverWait
<1>1. PoolInv => LockHoldersNeverWait
  BY NullAssumption DEF PoolInv, PoolOK, Inv, LocksOK, LockHoldersNeverWait, InTransaction,
     Began, Holding, InRun
<1> QED BY <1>1, PooledInvariance, PTL

(* The pool's timeout strikes before a run or after its commit.             *)
THEOREM TimeoutsStrikeNoRun == PooledSpec => []TimeoutsAreWholeOrNothing
<1>1. PoolInv => TimeoutsAreWholeOrNothing
  BY DEF PoolInv
<1> QED BY <1>1, PooledInvariance, PTL
=============================================================================
