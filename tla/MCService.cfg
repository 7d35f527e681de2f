\* Two replicas that boot, serve, die and restart with or without a key, two integrations
\* and a client that pages through the active ones, one a page.
CONSTANTS
    Replicas = {p1, p2}
    Orphan = orphan
    NULL = NULL
    Catalog <- SomeNames
    MaxFaults = 2
    Keys = {k1, k2}
    Unusable = {unset}
    Integrations <- SomeStamps
    Limit = 1
    MaxDrift = 2
SPECIFICATION FairServiceSpec
INVARIANTS
    ServiceTypeOK
    CatalogIsWhole
    CredentialsStayReadable
    PagesDriftWithTheList
PROPERTIES
    EveryReplicaComesUp
