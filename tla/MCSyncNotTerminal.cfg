\* One trigger of a job whose integration has a sync_url that httpx cannot parse.
CONSTANTS
    Integrations = {i1}
    Jobs = {j1}
    Requests = {r1}
    Urls = {"malformed"}
    Intervals = {0}
    Directions = {"push"}
    CallErrors = {"unreachable", "status_500"}
    RecordCounts = {0, 2}
    Dates <- SomeDates
    MaxInFlight = 1
    Faults = {}
    NULL = NULL
SPECIFICATION Spec
INVARIANTS
    RunLeavesTerminalState
