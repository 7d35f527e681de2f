\* A row that has a tenant, and the migration.
CONSTANTS
    Rows = {x1}
    Tenants = {a, d1}
    Strangers = {}
    Chains = {c1}
    Defaults = {d1}
    NULL = NULL
SPECIFICATION MigrationSpec
PROPERTIES
    OwnedRowsKeepTheirTenant
