\* Two tenants, two runs of create_default_tenant, a migration, and a chain of requests.
CONSTANTS
    Rows = {x1, x2, x3}
    Tenants = {a, b, d1, d2}
    Strangers = {}
    Chains = {c1}
    Defaults = {d1, d2}
    NULL = NULL
SPECIFICATION MigrationSpec
SYMMETRY Symmetry
INVARIANTS
    MigrationTypeOK
    OneDefaultTenant
    UnownedRowsAreMoved
    OnlyTheDefaultTenantMixes
