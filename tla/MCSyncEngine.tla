---------------------------- MODULE MCSyncEngine ----------------------------
(* Small instances of SyncEngine for TLC.                                   *)
EXTENDS SyncEngine, TLC

(* Requests are interchangeable, and so are jobs.  No run that checks a     *)
(* liveness property uses symmetry.                                         *)
Symmetry == Permutations(Requests) \cup Permutations(Jobs)

(* An interval that leads back, "0 or 24", and one that leads out of Dates. *)
SomeIntervals == {-1, 0, 50}
SomeDates == -40..40
=============================================================================
