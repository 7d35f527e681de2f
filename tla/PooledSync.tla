----------------------------- MODULE PooledSync -----------------------------
(* SyncEngine's handlers over the connection pool of the process.  A session*)
(* takes a connection at its first statement and keeps it until it commits, *)
(* rolls back or closes: a run holds one while it waits for its row and     *)
(* while it calls the endpoint, gives it back when it commits, and needs one*)
(* again for the refresh behind it, until its session is closed behind the  *)
(* answer.  A request that finds the pool empty waits, and gives up after   *)
(* the pool's timeout.                                                      *)
(*                                                                          *)
(* Nothing here assumes that a call of an endpoint ends: the timeout of 30  *)
(* seconds is one of each operation of httpx, not of the call.              *)
EXTENDS SyncEngine

CONSTANT PoolLimit    \* connections: pool_size and max_overflow together

ASSUME PoolAssumption == PoolLimit \in Nat \ {0} /\ "db_error" \in Faults

VARIABLES
    holders,    \* requests that have a connection
    waiting,    \* requests that wait for one
    timed_out   \* history: requests that gave up

pool       == <<holders, waiting>>
pooledVars == <<vars, pool, timed_out>>

NewPool    == holders = {} /\ waiting = {} /\ timed_out = {}
PooledInit == Init /\ NewPool

Full == Cardinality(holders) >= PoolLimit

-----------------------------------------------------------------------------
(* The first statement of a request, or the refresh after its commit.  A    *)
(* request has one session, so one connection at a time.                    *)
Ask_SecondSession(r) ==
    /\ r \notin waiting
    /\ r \in holders => pc[r] = "running"
    /\ pc[r] \notin {"done", "lost"}
    /\ waiting' = waiting \cup {r}
    /\ UNCHANGED <<vars, holders, timed_out>>
Ask(r) ==
    /\ r \notin holders \cup waiting
    /\ pc[r] \notin {"done", "lost"}
    /\ waiting' = waiting \cup {r}
    /\ UNCHANGED <<vars, holders, timed_out>>

(* A latecomer may overtake those that wait.                                *)
CheckOut(r) ==
    /\ r \in waiting
    /\ ~Full
    /\ holders' = holders \cup {r}
    /\ waiting' = waiting \ {r}
    /\ UNCHANGED <<vars, timed_out>>

(* The timeout surfaces in the handler as any exception does: a 500.        *)
TimeOut_Never(r) == FALSE /\ UNCHANGED pooledVars
TimeOut(r) ==
    /\ r \in waiting
    /\ Full
    /\ RollBack(r, "db_error")
    /\ waiting' = waiting \ {r}
    /\ timed_out' = timed_out \cup {r}
    /\ UNCHANGED holders

(* The end of a transaction gives the connection back: the commit, or the   *)
(* close that answers an exception.                                         *)
Ends(r) == pc'[r] = "committed" \/ (pc'[r] = "done" /\ answer'[r] \notin Terminal)

GiveBack_BeforeTheCall(r) ==
    holders' = IF Ends(r) \/ pc'[r] = "running" THEN holders \ {r} ELSE holders
GiveBack(r) ==
    holders' = IF Ends(r) THEN holders \ {r} ELSE holders

(* A request that succeeded has its answer when its session is closed.      *)
Close_Never(r) == FALSE /\ UNCHANGED pooledVars
Close(r) ==
    /\ r \in holders
    /\ pc[r] = "done"
    /\ holders' = holders \ {r}
    /\ UNCHANGED <<vars, waiting, timed_out>>

(* The steps of SyncEngine are those of requests that have a connection.    *)
Work(r) ==
    /\ r \in holders
    /\ Arrive(r) \/ Proceed(r)
    /\ GiveBack(r)
    /\ UNCHANGED <<waiting, timed_out>>

(* An identity that cannot be parsed is refused before any statement.       *)
RejectUnparsed(r) ==
    /\ r \notin holders \cup waiting
    /\ RejectUnknown(r)
    /\ UNCHANGED <<pool, timed_out>>

StatementFails(r) ==
    /\ r \in holders
    /\ DatabaseError(r)
    /\ GiveBack(r)
    /\ UNCHANGED <<waiting, timed_out>>

(* The configuration handlers need a connection for as long as their step.  *)
PooledConfigure ==
    /\ ~Full
    /\ Configure
    /\ UNCHANGED <<pool, timed_out>>

(* The pool dies with the process; who had not begun may come again.        *)
PooledCrash ==
    /\ \/ Crash
       \/ /\ "crash" \in Faults /\ InFlight = {}
          /\ holders \cup waiting # {}
          /\ UNCHANGED vars
    /\ holders' = {} /\ waiting' = {}
    /\ UNCHANGED timed_out

PooledIdle == Idle /\ holders \cup waiting = {} /\ UNCHANGED <<pool, timed_out>>

PooledNext ==
    \/ PooledConfigure
    \/ \E r \in Requests :
          \/ Ask(r) \/ CheckOut(r) \/ TimeOut(r)
          \/ Work(r) \/ StatementFails(r) \/ RejectUnparsed(r) \/ Close(r)
    \/ PooledCrash
    \/ PooledIdle

PooledSpec == PooledInit /\ [][PooledNext]_pooledVars

(* The request has called its endpoint and waits for the answer.            *)
OnTheWire(r) == pc[r] = "running" /\ orm_integration[r].url = "valid"

(* The event loop resumes every coroutine whose await is over; PostgreSQL   *)
(* grants a row lock once its holder's transaction ends; the pool serves or *)
(* dismisses whoever waits; FastAPI closes the sessions.  Of calls nothing  *)
(* is assumed.                                                              *)
PooledFairness ==
    \A r \in Requests :
        /\ WF_pooledVars(pc[r] = "committed" /\ Ask(r))
        /\ WF_pooledVars(CheckOut(r) \/ TimeOut(r))
        /\ WF_pooledVars(~OnTheWire(r) /\ Work(r))
        /\ WF_pooledVars(Close(r))

FairPooledSpec == PooledSpec /\ PooledFairness

-----------------------------------------------------------------------------
(* Properties.                                                              *)

(* A request that holds a row never waits for a connection: otherwise the   *)
(* requests behind its row, which keep theirs, could have all of them, and  *)
(* only the pool's timeout would end the circle.                            *)
LockHoldersNeverWait ==
    \A r \in waiting :
        /\ \A i \in Integrations : integration_lock[i] # r
        /\ \A j \in Jobs : job_lock[j] # r

(* A request that gives up waiting for a connection has done nothing, or    *)
(* has committed all it had to do: its 500 never stands for half a run.     *)
TimeoutsAreWholeOrNothing ==
    \A r \in timed_out : job_of[r] # NULL =>
        /\ sync_jobs[job_of[r]] # NULL
        /\ sync_jobs[job_of[r]].status \in Terminal

(* The client of r waits for an answer, or r still has its connection.      *)
Busy(r) == r \in InFlight \cup holders \cup waiting

(* Even when calls hang for ever, the only requests that hang with them are *)
(* runs of the same integration: every other one is served, or dismissed by *)
(* the pool.                                                                *)
SlowEndpointsHoldTheirOwn ==
    \A r \in Requests : []<>
        (Busy(r) => \E s \in Requests :
                        OnTheWire(s) /\ integration_of[s] = integration_of[r])

CallsEnd == \A r \in Requests : []<>~OnTheWire(r)

(* If calls end, so does every request: nothing waits for ever for a row or *)
(* for a connection, every connection comes back, and the rest of the       *)
(* contract is kept: an integration that is being run is given back.        *)
EveryRequestEnds ==
    CallsEnd => /\ \A r \in Requests : []<>~Busy(r)
                /\ Contract!Released
=============================================================================
