--------------------------- MODULE TenantMigration ---------------------------
(* The two scripts that move existing data to a default tenant, beside the  *)
(* handlers of a live service: create_default_tenant, which may be run more *)
(* than once, and migrate_existing_data, which moves one table after the    *)
(* other in one transaction.  Action_Change is Action with one bug.         *)
EXTENDS TenantScope, Sequences

CONSTANT
    Defaults   \* tenants with the slug "default", one for each run of the script

ASSUME DefaultsAssumption == Defaults \subseteq Tenants

VARIABLES
    creator,   \* [Defaults -> ...], where each run of create_default_tenant is
    migrator,  \* where migrate_existing_data is
    at,        \* the table it is at, as an index of Order
    target,    \* the default tenant it has found
    moved,     \* the rows it has updated and not committed, which it keeps locked
    unowned    \* history: the rows without a tenant when it began

scripts == <<creator, migrator, at, target, moved, unowned>>
allVars == <<vars, scripts>>

Order_NoWebhooks == <<"credentials", "integrations", "sync_jobs">>
Order == <<"credentials", "integrations", "sync_jobs", "webhooks">>

DefaultTenants == tenants \cap Defaults
Of(table) == {x \in Rows : rows[x] # NULL /\ rows[x].table = table}

AllInit ==
    /\ Init /\ DefaultTenants = {}
    /\ creator = [d \in Defaults |-> "start"]
    /\ migrator = "start" /\ at = 1 /\ target = NULL
    /\ moved = {} /\ unowned = {}

-----------------------------------------------------------------------------
(* create_default_tenant: look for the slug, and insert it if it is not     *)
(* there; the slug is unique.                                               *)
LookForDefault(d) ==
    /\ creator[d] = "start"
    /\ creator' = [creator EXCEPT ![d] = IF DefaultTenants = {} THEN "absent" ELSE "done"]
    /\ UNCHANGED <<vars, migrator, at, target, moved, unowned>>

Unique_NotDeclared == TRUE
Unique == DefaultTenants = {}

InsertDefault(d) ==
    /\ creator[d] = "absent"
    /\ \/ /\ Unique
          /\ tenants' = tenants \cup {d}
          /\ creator' = [creator EXCEPT ![d] = "done"]
       \/ /\ ~Unique
          /\ creator' = [creator EXCEPT ![d] = "failed"]
          /\ UNCHANGED tenants
    /\ UNCHANGED <<rows, pc, header, context, session, object, migrator, at, target, moved, unowned>>

-----------------------------------------------------------------------------
(* migrate_to_default_tenant.                                               *)

FindDefault(d) ==
    /\ migrator = "start"
    /\ d \in DefaultTenants
    /\ migrator' = "select" /\ at' = 1 /\ target' = d
    /\ unowned' = {x \in Rows : rows[x] # NULL /\ rows[x].tenant = NULL}
    /\ UNCHANGED <<vars, creator, moved>>

SelectTable ==
    /\ migrator = "select" /\ at \in DOMAIN Order
    /\ \/ Of(Order[at]) # {} /\ migrator' = "update" /\ UNCHANGED at
       \/ Of(Order[at]) = {} /\ at' = at + 1 /\ UNCHANGED migrator
    /\ UNCHANGED <<vars, creator, target, moved, unowned>>

(* An UPDATE without a WHERE: every row, whatever tenant it has, and also   *)
(* those that were committed after the SELECT.                              *)
UpdateTable_SkipsOne ==
    /\ migrator = "update"
    /\ moved' = moved \cup Of(Order[at])
    /\ migrator' = "select" /\ at' = at + 2
    /\ UNCHANGED <<vars, creator, target, unowned>>
UpdateTable ==
    /\ migrator = "update"
    /\ moved' = moved \cup Of(Order[at])
    /\ migrator' = "select" /\ at' = at + 1
    /\ UNCHANGED <<vars, creator, target, unowned>>

CommitMigration ==
    /\ migrator = "select" /\ at \notin DOMAIN Order
    /\ rows' = [x \in Rows |-> IF x \in moved THEN [rows[x] EXCEPT !.tenant = target]
                               ELSE rows[x]]
    /\ migrator' = "done" /\ moved' = {}
    /\ UNCHANGED <<tenants, pc, header, context, session, object, creator, at, target, unowned>>

(* An error, or the script is killed: it is rolled back, and may be run     *)
(* again.                                                                   *)
AbortMigration ==
    /\ migrator \in {"select", "update"}
    /\ migrator' = "start" /\ moved' = {} /\ at' = 1 /\ target' = NULL /\ unowned' = {}
    /\ UNCHANGED <<vars, creator>>

(* The UPDATE of a handler waits for a row that the migration has updated.  *)
Serve ==
    /\ Next
    /\ \A x \in moved : rows'[x] = rows[x]
    /\ UNCHANGED scripts

AllNext ==
    \/ Serve
    \/ \E d \in Defaults : LookForDefault(d) \/ InsertDefault(d) \/ FindDefault(d)
    \/ SelectTable
    \/ UpdateTable
    \/ CommitMigration
    \/ AbortMigration

MigrationSpec == AllInit /\ [][AllNext]_allVars

-----------------------------------------------------------------------------
(* Properties.                                                              *)

MigrationTypeOK ==
    /\ TypeOK
    /\ creator \in [Defaults -> {"start", "absent", "done", "failed"}]
    /\ migrator \in {"start", "select", "update", "done"}
    /\ at \in 1..(Len(Order) + 1)
    /\ target \in Defaults \cup {NULL}
    /\ moved \subseteq Rows /\ unowned \subseteq Rows

(* However many runs of create_default_tenant overlap, there is one default *)
(* tenant, and a run that ends well has found or made it: were there two,   *)
(* the migration's scalar_one_or_none would raise.                          *)
OneDefaultTenant ==
    /\ Cardinality(DefaultTenants) =< 1
    /\ \A d \in Defaults : creator[d] = "done" => DefaultTenants # {}

(* When the migration is over, every row that had no tenant when it began   *)
(* is the default tenant's, in all the tables: nothing that a handler       *)
(* commits meanwhile takes one back or makes the migration miss it.         *)
UnownedRowsAreMoved ==
    migrator = "done" => \A x \in unowned : rows[x].tenant = target

(* A row and its integration may come apart, when a handler commits the one *)
(* before the migration updates its table and the other after.  But one of  *)
(* the two is then the default tenant's: other tenants are never mixed.     *)
OnlyTheDefaultTenantMixes ==
    \A x \in Rows : rows[x] # NULL /\ rows[x].parent # NULL /\ rows[x].tenant # NULL =>
        LET integration == rows[rows[x].parent] IN
        \/ rows[x].tenant = integration.tenant
        \/ {rows[x].tenant, integration.tenant} \cap Defaults # {}

(* The migration gives a tenant to the records that have none.              *)
OwnedRowsKeepTheirTenant ==
    [][\A x \in Rows : rows[x] # NULL /\ rows[x].tenant # NULL =>
          rows'[x].tenant = rows[x].tenant]_allVars
=============================================================================
