\* Three overlapping requests on one integration and two jobs: lost updates,
\* stale copies, waiting for locks, crashes and failing statements.
CONSTANTS
    Integrations = {i1}
    Jobs = {j1, j2}
    Requests = {r1, r2, r3}
    Urls = {"valid"}
    Intervals = {0}
    Directions = {"push"}
    CallErrors = {"unreachable", "status_500"}
    RecordCounts = {0, 2}
    Dates <- SomeDates
    MaxInFlight = 3
    Faults = {"crash", "db_error"}
    NULL = NULL
SPECIFICATION Spec
SYMMETRY Symmetry
INVARIANTS
    TypeOK
    OneCallPerIntegration
    NothingRunningIsPublished
    JobLockUnderIntegrationLock
    TerminalJobsAreStamped
    CompletedJobsAreCovered
    NextSyncFollowsLastSync
    ErrorCountBounded
    AnswersAreDurable
PROPERTIES
    LastSyncNeverGoesBack
    TerminalStays
    ImplementsContract
