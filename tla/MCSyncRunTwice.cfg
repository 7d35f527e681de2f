\* Two overlapping triggers of one pending job: a completed job runs again.
CONSTANTS
    Integrations = {i1}
    Jobs = {j1}
    Requests = {r1, r2}
    Urls = {"valid"}
    Intervals = {0}
    Directions = {"push"}
    CallErrors = {"unreachable", "status_500"}
    RecordCounts = {0, 2}
    Dates <- SomeDates
    MaxInFlight = 2
    Faults = {}
    NULL = NULL
SPECIFICATION Spec
PROPERTIES
    CompletedIsFinal
