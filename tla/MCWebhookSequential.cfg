\* Three deliveries one after the other to two integrations with two webhooks.
CONSTANTS
    Integrations = {i1, i2}
    Webhooks = {w1, w2}
    Deliveries = {d1, d2, d3}
    Events = {e1}
    Secrets = {s1, s2}
    MaxInFlight = 1
    Faults = {"crash", "db_error"}
    NULL = NULL
SPECIFICATION Spec
SYMMETRY Symmetry
INVARIANTS
    ReceiptsAreCounted
    LastErrorIsLastVerdict
