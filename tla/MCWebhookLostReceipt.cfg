\* Two overlapping deliveries to one webhook: a receipt that is not counted.
CONSTANTS
    Integrations = {i1}
    Webhooks = {w1}
    Deliveries = {d1, d2}
    Events = {e1}
    Secrets = {s1}
    MaxInFlight = 2
    Faults = {}
    NULL = NULL
SPECIFICATION Spec
INVARIANTS
    ReceiptsAreCounted
