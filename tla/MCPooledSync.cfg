\* Three overlapping requests of two integrations over a pool of two connections.  One
\* integration has a job from the start, which all of them may trigger; the other is
\* installed from a template, and its job created by a run.
CONSTANTS
    i1 = i1
    j1 = j1
    Integrations = {i1, i2}
    Jobs = {j1, j2}
    Requests = {r1, r2, r3}
    Urls = {"valid"}
    Intervals = {}
    Directions = {}
    CallErrors = {}
    RecordCounts = {1}
    Dates <- SomeDates
    MaxInFlight = 3
    PoolLimit = 2
    Faults = {"crash", "db_error"}
    NULL = NULL
SPECIFICATION FairRestartedSpec
INVARIANTS
    LockHoldersNeverWait
    TimeoutsAreWholeOrNothing
PROPERTIES
    SlowEndpointsHoldTheirOwn
    EveryRequestEnds
