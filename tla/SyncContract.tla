---------------------------- MODULE SyncContract ----------------------------
(* What the sync subsystem promises its clients, with no database in sight: *)
(* a job belongs to one integration for good; an integration is being run   *)
(* by at most one request at a time; only the request running a job's       *)
(* integration may publish an outcome for the job, the outcome is terminal, *)
(* and a run that is given up publishes nothing.                            *)
CONSTANTS Integrations, Jobs, Requests, NULL

VARIABLES
    outcome,   \* [Jobs -> "absent" | "pending" | "completed" | "failed"]
    owner,     \* [Jobs -> Integrations \cup {NULL}], NULL while absent
    runner     \* [Integrations -> Requests \cup {NULL}]

contractVars == <<outcome, owner, runner>>

Terminal == {"completed", "failed"}

Init ==
    /\ outcome = [j \in Jobs |-> "absent"]
    /\ owner   = [j \in Jobs |-> NULL]
    /\ runner  = [i \in Integrations |-> NULL]

(* A job is recorded for later.                                             *)
Configure(j, i) ==
    /\ outcome[j] = "absent"
    /\ outcome' = [outcome EXCEPT ![j] = "pending"]
    /\ owner'   = [owner EXCEPT ![j] = i]
    /\ UNCHANGED runner

(* A request gets the integration to itself.                                *)
Begin(r, i) ==
    /\ runner[i] = NULL
    /\ runner' = [runner EXCEPT ![i] = r]
    /\ UNCHANGED <<outcome, owner>>

(* The runner publishes what came of job j, configured earlier or created   *)
(* by the run itself, and gives the integration back in the same step.      *)
Finish(r, i, j) ==
    /\ runner[i] = r
    /\ owner[j] = i \/ outcome[j] = "absent"
    /\ outcome' \in {[outcome EXCEPT ![j] = s] : s \in Terminal}
    /\ owner'   = [owner EXCEPT ![j] = i]
    /\ runner'  = [runner EXCEPT ![i] = NULL]

(* The run is given up: nothing is published.                               *)
Abandon(r, i) ==
    /\ runner[i] = r
    /\ runner' = [runner EXCEPT ![i] = NULL]
    /\ UNCHANGED <<outcome, owner>>

(* The process dies: every run is given up.                                 *)
Crash ==
    /\ runner' = [i \in Integrations |-> NULL]
    /\ UNCHANGED <<outcome, owner>>

Next ==
    \/ \E j \in Jobs, i \in Integrations : Configure(j, i)
    \/ \E r \in Requests, i \in Integrations : Begin(r, i)
    \/ \E r \in Requests, i \in Integrations, j \in Jobs : Finish(r, i, j)
    \/ \E r \in Requests, i \in Integrations : Abandon(r, i)
    \/ Crash

Spec == Init /\ [][Next]_contractVars

(* An integration that is taken is eventually given back.                   *)
Released == \A i \in Integrations, r \in Requests : runner[i] = r ~> runner[i] # r
=============================================================================
