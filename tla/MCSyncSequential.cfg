\* Four requests one after the other on an integration: every kind of
\* configuration, endpoint and interval (0, negative, past the last date).
CONSTANTS
    Integrations = {i1}
    Jobs = {j1, j2}
    Requests = {r1, r2, r3, r4}
    Urls = {"none", "valid", "malformed"}
    Intervals <- SomeIntervals
    Directions = {"push"}
    CallErrors = {"unreachable"}
    RecordCounts = {0, 2}
    Dates <- SomeDates
    MaxInFlight = 1
    Faults = {"crash", "db_error"}
    NULL = NULL
SPECIFICATION Spec
SYMMETRY Symmetry
INVARIANTS
    ErrorCountExact
    StatusMatchesLastError
    RecordsAgree
PROPERTIES
    CompletedIsFinal
