\* Three overlapping deliveries to an integration with up to two webhooks.
CONSTANTS
    Integrations = {i1}
    Webhooks = {w1, w2}
    Deliveries = {d1, d2, d3}
    Events = {e1, e2}
    Secrets = {s1}
    MaxInFlight = 3
    Faults = {"crash", "db_error"}
    NULL = NULL
SPECIFICATION Spec
SYMMETRY Symmetry
INVARIANTS
    TypeOK
    CountersAreBounded
    AnswersAreReceipts
