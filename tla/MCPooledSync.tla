---------------------------- MODULE MCPooledSync ----------------------------
(* A small instance of PooledSync for TLC.  No symmetry: the run checks     *)
(* liveness.                                                                *)
EXTENDS PooledSync

CONSTANTS i1, j1    \* an integration and a job that are there already

ASSUME ConfiguredAssumption == i1 \in Integrations /\ j1 \in Jobs

SomeDates == 0..40

(* The process has just started; i1 was installed from a template and j1    *)
(* configured for it before, so that requests may meet on one job.          *)
Restarted ==
    /\ integrations = [NoOne(Integrations) EXCEPT ![i1] =
           NewIntegration("valid", 24, "inactive", NULL)]
    /\ sync_jobs = [NoOne(Jobs) EXCEPT ![j1] = NewJob(i1, "pull")]
    /\ NoRequests /\ NewPool

FairRestartedSpec == Restarted /\ [][PooledNext]_pooledVars /\ PooledFairness
=============================================================================
