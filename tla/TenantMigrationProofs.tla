----------------------- MODULE TenantMigrationProofs -----------------------
(* Proofs about TenantMigration, for every set of rows, tenants, chains and *)
(* runs of create_default_tenant.  The invariant of the service is the one  *)
(* of TenantScopeProofs with Defaults as the tenants rows are moved to.     *)
EXTENDS TenantMigration, TenantScopeProofs, FiniteSetTheorems

(* The slug is unique, and a run that ends well has found it.               *)
OneSlug ==
    /\ \A d, e \in DefaultTenants : d = e
    /\ \A d \in Defaults : creator[d] = "done" => DefaultTenants # {}

(* The migration has found the default tenant, and it updates a table only  *)
(* of those it has; what it has updated is there.                           *)
MigratorOK ==
    /\ migrator # "start" => target \in DefaultTenants
    /\ migrator \in {"start", "done"} => moved = {}
    /\ migrator = "update" => at \in DOMAIN Order
    /\ \A x \in moved : rows[x] # NULL

(* While it runs, it has updated the rows that had no tenant, in the tables *)
(* that it has passed; when it is over, they are the target's.              *)
Passed(x) == \E k \in DOMAIN Order : k < at /\ Order[k] = rows[x].table
UnownedOK ==
    \A x \in unowned :
        /\ rows[x] # NULL
        /\ migrator \in {"select", "update"} /\ Passed(x) => x \in moved
        /\ migrator = "done" => rows[x].tenant = target

MigrationInv ==
    /\ Inv(Defaults)
    /\ MigrationTypeOK
    /\ OneSlug
    /\ MigratorOK
    /\ UnownedOK

LEMMA DefaultsAreTenants == Defaults \in SUBSET Tenants /\ NULL \notin Defaults
BY DefaultsAssumption, NullAssumption

LEMMA OrderOfTables ==
    /\ Len(Order) = 4 /\ DOMAIN Order = 1..4
    /\ \A table \in Tables : \E k \in 1..4 : Order[k] = table
BY DEF Order, Tables

LEMMA MigrationInitOK == AllInit => MigrationInv
<1> SUFFICES ASSUME AllInit PROVE MigrationInv
  OBVIOUS
<1>1. Inv(Defaults)
  BY InitOK, DefaultsAreTenants DEF AllInit
<1>2. MigrationTypeOK
  BY <1>1, OrderOfTables DEF AllInit, MigrationTypeOK, Inv
<1>3. OneSlug /\ MigratorOK /\ UnownedOK
  BY DEF AllInit, OneSlug, MigratorOK, UnownedOK
<1> QED BY <1>1, <1>2, <1>3 DEF MigrationInv

-----------------------------------------------------------------------------
(* A handler's step, also while the migration runs.                         *)
LEMMA ServeOK ==
    ASSUME MigrationInv, Serve
    PROVE  MigrationInv'
<1>1. Inv(Defaults)' /\ RowsStand
  BY NextOK, DefaultsAreTenants DEF MigrationInv, Serve
<1>2. UNCHANGED <<creator, migrator, at, target, moved, unowned>>
  BY DEF Serve, scripts
<1>3. UNCHANGED tenants
  <2>1. ASSUME NEW c \in Chains, Handle(c) PROVE UNCHANGED tenants
    <3>1. \/ \E h \in Callers : Enter(c, h)
          \/ \E x \in Rows : Load(c, x)
          \/ \E table \in Tables : List(c, table)
          \/ End(c) \/ LoadIntegrationOfJob(c) \/ Answer(c)
          => UNCHANGED tenants
      BY DEF Enter, End, Load, List, LoadIntegrationOfJob, Answer
    <3>2. \/ \E x \in Rows, credentials \in SUBSET Rows : CreateIntegration(c, x, credentials)
          \/ \E x \in Rows, table \in Tables : Attach(c, x, table)
          \/ \E x \in Rows : TriggerIntegration(c, x)
          \/ TriggerJob(c) \/ ReceiveWebhook(c)
          => UNCHANGED tenants
      BY DEF CreateIntegration, Attach, TriggerIntegration, TriggerJob, ReceiveWebhook, Commit
    <3> QED BY <2>1, <3>1, <3>2 DEF Handle, Tables
  <2> QED BY <2>1 DEF Serve, Next, Crash
<1>4. MigrationTypeOK'
  BY <1>1, <1>2 DEF MigrationInv, MigrationTypeOK, Inv
<1>5. OneSlug'
  BY <1>2, <1>3 DEF MigrationInv, OneSlug, DefaultTenants
<1>6. moved \subseteq Rows /\ unowned \subseteq Rows
  BY DEF MigrationInv, MigrationTypeOK
<1>7. MigratorOK'
  BY <1>1, <1>2, <1>3, <1>6 DEF MigrationInv, MigratorOK, RowsStand, DefaultTenants
<1>8. UnownedOK'
  BY <1>1, <1>2, <1>6 DEF MigrationInv, UnownedOK, Passed, RowsStand
<1> QED BY <1>1, <1>4, <1>5, <1>7, <1>8 DEF MigrationInv

(* The service does not notice a new tenant.                                *)
LEMMA ServiceStands ==
    ASSUME Inv(Defaults), UNCHANGED <<rows, pc, header, context, session, object>>,
           tenants \subseteq tenants', tenants' \subseteq Tenants
    PROVE  Inv(Defaults)'
<1>1. TypeOK' /\ HandlersRunAsTheirCaller' /\ ObjectsOK' /\ SessionsOwn(Defaults)'
  BY DEF Inv, TypeOK, HandlersRunAsTheirCaller, ObjectsOK, SessionsOwn
<1>2. ParentsOK' /\ TenantsExist' /\ WritesOwn(Defaults)' /\ ChildrenFit(Defaults)'
  BY DEF Inv, ParentsOK, TenantsExist, WritesOwn, ChildrenFit
<1> QED BY <1>1, <1>2 DEF Inv

-----------------------------------------------------------------------------
(* create_default_tenant.                                                   *)

LEMMA LookForDefaultOK ==
    ASSUME MigrationInv, NEW d \in Defaults, LookForDefault(d)
    PROVE  MigrationInv'
<1>1. UNCHANGED <<tenants, rows, pc, header, context, session, object,
                  migrator, at, target, moved, unowned>>
  BY DEF LookForDefault, vars
<1>2. Inv(Defaults)'
  BY <1>1, ServiceStands DEF MigrationInv, MigrationTypeOK, TypeOK
<1>3. creator' \in [Defaults -> {"start", "absent", "done", "failed"}]
  BY DEF LookForDefault, MigrationInv, MigrationTypeOK
<1>4. MigrationTypeOK'
  BY <1>1, <1>2, <1>3 DEF MigrationInv, MigrationTypeOK, Inv
<1>5. OneSlug'
  BY <1>1 DEF LookForDefault, MigrationInv, MigrationTypeOK, OneSlug, DefaultTenants
<1>6. MigratorOK' /\ UnownedOK'
  BY <1>1 DEF MigrationInv, MigratorOK, UnownedOK, Passed, DefaultTenants
<1> QED BY <1>2, <1>4, <1>5, <1>6 DEF MigrationInv

LEMMA InsertDefaultOK ==
    ASSUME MigrationInv, NEW d \in Defaults, InsertDefault(d)
    PROVE  MigrationInv'
<1>1. UNCHANGED <<rows, pc, header, context, session, object,
                  migrator, at, target, moved, unowned>>
  BY DEF InsertDefault
<1>2. /\ tenants \subseteq tenants' /\ tenants' \subseteq Tenants
      /\ DefaultTenants \subseteq DefaultTenants'
  BY DefaultsAreTenants DEF InsertDefault, MigrationInv, MigrationTypeOK, TypeOK, DefaultTenants
<1>3. Inv(Defaults)'
  BY <1>1, <1>2, ServiceStands DEF MigrationInv
<1>4. creator' \in [Defaults -> {"start", "absent", "done", "failed"}]
  BY DEF InsertDefault, MigrationInv, MigrationTypeOK
<1>5. MigrationTypeOK'
  BY <1>1, <1>3, <1>4 DEF MigrationInv, MigrationTypeOK, Inv
<1>6. OneSlug'
  <2>1. CASE Unique /\ tenants' = tenants \cup {d} /\ creator' = [creator EXCEPT ![d] = "done"]
    <3>1. DefaultTenants' = {d}
      BY <2>1 DEF Unique, DefaultTenants
    <3> QED BY <3>1 DEF OneSlug
  <2>2. CASE ~Unique /\ creator' = [creator EXCEPT ![d] = "failed"] /\ UNCHANGED tenants
    BY <2>2 DEF MigrationInv, MigrationTypeOK, OneSlug, DefaultTenants
  <2> QED BY <2>1, <2>2 DEF InsertDefault
<1>7. MigratorOK' /\ UnownedOK'
  BY <1>1, <1>2 DEF MigrationInv, MigratorOK, UnownedOK, Passed
<1> QED BY <1>3, <1>5, <1>6, <1>7 DEF MigrationInv

-----------------------------------------------------------------------------
(* migrate_to_default_tenant.  Its steps before the commit only change its  *)
(* own state.                                                               *)

LEMMA ScriptStepOK ==
    ASSUME MigrationInv, UNCHANGED <<vars, creator>>,
           migrator' \in {"start", "select", "update"}, at' \in 1..5,
           target' \in Defaults \cup {NULL}, moved' \subseteq Rows, unowned' \subseteq Rows
    PROVE  Inv(Defaults)' /\ MigrationTypeOK' /\ OneSlug'
<1>1. UNCHANGED <<tenants, rows, pc, header, context, session, object>>
  BY DEF vars
<1>2. Inv(Defaults)'
  BY <1>1, ServiceStands DEF MigrationInv, MigrationTypeOK, TypeOK
<1>3. MigrationTypeOK'
  BY <1>2, OrderOfTables DEF MigrationInv, MigrationTypeOK, Inv
<1>4. OneSlug'
  BY <1>1 DEF MigrationInv, OneSlug, DefaultTenants
<1> QED BY <1>2, <1>3, <1>4

LEMMA FindDefaultOK ==
    ASSUME MigrationInv, NEW d \in Defaults, FindDefault(d)
    PROVE  MigrationInv'
<1>1. UNCHANGED <<tenants, rows, moved>> /\ moved = {}
  BY DEF FindDefault, vars, MigrationInv, MigratorOK
<1>2. Inv(Defaults)' /\ MigrationTypeOK' /\ OneSlug'
  BY <1>1, ScriptStepOK DEF FindDefault
<1>3. MigratorOK'
  BY <1>1 DEF FindDefault, MigratorOK, DefaultTenants
<1>4. UnownedOK'
  BY <1>1, OrderOfTables DEF FindDefault, UnownedOK, Passed
<1> QED BY <1>2, <1>3, <1>4 DEF MigrationInv

LEMMA SelectTableOK ==
    ASSUME MigrationInv, SelectTable
    PROVE  MigrationInv'
<1>1. /\ UNCHANGED <<tenants, rows, target, moved, unowned>>
      /\ at \in 1..4 /\ migrator = "select" /\ migrator' \in {"select", "update"}
      /\ \/ at' = at /\ migrator' = "update"
         \/ at' = at + 1 /\ migrator' = "select" /\ Of(Order[at]) = {}
  BY OrderOfTables DEF SelectTable, vars
<1>2. at' \in 1..5
  BY <1>1
<1>3. Inv(Defaults)' /\ MigrationTypeOK' /\ OneSlug'
  BY <1>1, <1>2, ScriptStepOK DEF SelectTable, MigrationInv, MigrationTypeOK
<1>4. MigratorOK'
  BY <1>1, OrderOfTables DEF MigrationInv, MigratorOK, DefaultTenants
<1>5. ASSUME NEW x \in unowned, Passed(x)' PROVE x \in moved
  <2>1. x \in Rows /\ rows[x] # NULL
    BY DEF MigrationInv, MigrationTypeOK, UnownedOK
  <2>2. PICK k \in 1..4 : k < at' /\ Order[k] = rows[x].table
    BY <1>1, <1>5, OrderOfTables DEF Passed
  <2>3. k < at
    BY <1>1, <2>1, <2>2 DEF Of
  <2> QED BY <1>1, <2>2, <2>3, OrderOfTables DEF MigrationInv, UnownedOK, Passed
<1>6. UnownedOK'
  BY <1>1, <1>5 DEF MigrationInv, UnownedOK
<1> QED BY <1>3, <1>4, <1>6 DEF MigrationInv

LEMMA UpdateTableOK ==
    ASSUME MigrationInv, UpdateTable
    PROVE  MigrationInv'
<1>1. /\ UNCHANGED <<tenants, rows, target, unowned>>
      /\ at \in 1..4 /\ migrator = "update" /\ migrator' = "select" /\ at' = at + 1
      /\ moved' = moved \cup Of(Order[at])
  BY OrderOfTables DEF UpdateTable, vars, MigrationInv, MigratorOK
<1>2. at' \in 1..5
  BY <1>1
<1>3. moved' \subseteq Rows
  BY <1>1 DEF MigrationInv, MigrationTypeOK, Of
<1>4. Inv(Defaults)' /\ MigrationTypeOK' /\ OneSlug'
  BY <1>1, <1>2, <1>3, ScriptStepOK DEF UpdateTable, MigrationInv, MigrationTypeOK
<1>5. MigratorOK'
  BY <1>1 DEF MigrationInv, MigratorOK, DefaultTenants, Of
<1>6. ASSUME NEW x \in unowned, Passed(x)' PROVE x \in moved'
  <2>1. x \in Rows /\ rows[x] # NULL
    BY DEF MigrationInv, MigrationTypeOK, UnownedOK
  <2>2. PICK k \in 1..4 : k < at' /\ Order[k] = rows[x].table
    BY <1>1, <1>6, OrderOfTables DEF Passed
  <2>3. CASE k = at
    BY <1>1, <2>1, <2>2, <2>3 DEF Of
  <2>4. CASE k < at
    BY <1>1, <2>2, <2>4, OrderOfTables DEF MigrationInv, UnownedOK, Passed
  <2> QED BY <1>1, <2>2, <2>3, <2>4
<1>7. UnownedOK'
  BY <1>1, <1>6 DEF MigrationInv, UnownedOK
<1> QED BY <1>4, <1>5, <1>7 DEF MigrationInv

LEMMA AbortMigrationOK ==
    ASSUME MigrationInv, AbortMigration
    PROVE  MigrationInv'
<1>1. Inv(Defaults)' /\ MigrationTypeOK' /\ OneSlug'
  BY ScriptStepOK DEF AbortMigration
<1>2. MigratorOK' /\ UnownedOK'
  BY DEF AbortMigration, MigratorOK, UnownedOK
<1> QED BY <1>1, <1>2 DEF MigrationInv

(* A row as the migration leaves it.                                        *)
LEMMA MovedRow ==
    ASSUME NEW row \in Row, NEW t \in Tenants
    PROVE  LET given == [row EXCEPT !.tenant = t] IN
           /\ given \in Row /\ given # NULL
           /\ given.table = row.table /\ given.parent = row.parent
           /\ given.writer = row.writer /\ given.tenant = t
<1>1. [row EXCEPT !.tenant = t] \in Row
  BY DEF Row
<1>2. [row EXCEPT !.tenant = t].tenant = t
  BY DEF Row
<1>3. /\ [row EXCEPT !.tenant = t].table = row.table
      /\ [row EXCEPT !.tenant = t].parent = row.parent
      /\ [row EXCEPT !.tenant = t].writer = row.writer
  BY DEF Row
<1> QED BY <1>1, <1>2, <1>3, NullIsNoRow

(* The commit: the sessions of the handlers may hold rows that it moves.    *)
LEMMA CommitMigrationOK ==
    ASSUME MigrationInv, CommitMigration
    PROVE  MigrationInv'
<1>1. /\ UNCHANGED <<tenants, pc, header, context, session, object, creator, at, target, unowned>>
      /\ at = 5 /\ migrator = "select" /\ migrator' = "done" /\ moved' = {}
  <2>1. at \in 1..5 /\ at \notin 1..4
    BY OrderOfTables DEF CommitMigration, MigrationInv, MigrationTypeOK
  <2> QED BY <2>1 DEF CommitMigration
<1>2. target \in DefaultTenants /\ target \in Defaults /\ target \in Tenants /\ target \in tenants
  BY <1>1, DefaultsAreTenants DEF MigrationInv, MigratorOK, DefaultTenants
<1>3. \A x \in Rows :
          /\ rows'[x] = NULL <=> rows[x] = NULL
          /\ rows[x] # NULL => /\ rows'[x] \in Row
                               /\ rows'[x].table = rows[x].table
                               /\ rows'[x].parent = rows[x].parent
                               /\ rows'[x].writer = rows[x].writer
                               /\ rows'[x].tenant = IF x \in moved THEN target ELSE rows[x].tenant
  <2> SUFFICES ASSUME NEW x \in Rows
               PROVE  /\ rows'[x] = NULL <=> rows[x] = NULL
                      /\ rows[x] # NULL =>
                             /\ rows'[x] \in Row
                             /\ rows'[x].table = rows[x].table
                             /\ rows'[x].parent = rows[x].parent
                             /\ rows'[x].writer = rows[x].writer
                             /\ rows'[x].tenant = IF x \in moved THEN target ELSE rows[x].tenant
    OBVIOUS
  <2>1. rows[x] \in Row \cup {NULL}
    BY DEF MigrationInv, Inv, TypeOK
  <2>2. CASE x \in moved
    <3>1. rows[x] \in Row /\ rows[x] # NULL
      BY <2>1, <2>2 DEF MigrationInv, MigratorOK
    <3>2. rows'[x] = [rows[x] EXCEPT !.tenant = target]
      BY <2>2 DEF CommitMigration
    <3> QED BY <2>2, <3>1, <3>2, <1>2, MovedRow
  <2>3. CASE x \notin moved
    <3>1. rows'[x] = rows[x]
      BY <2>3 DEF CommitMigration
    <3> QED BY <2>1, <2>3, <3>1
  <2> QED BY <2>2, <2>3
<1>4. TypeOK'
  <2>1. rows' \in [Rows -> Row \cup {NULL}]
    BY <1>3 DEF CommitMigration
  <2> QED BY <1>1, <2>1 DEF MigrationInv, Inv, TypeOK
<1>5. \A c \in Chains : session[c] \subseteq Rows
  BY DEF MigrationInv, Inv, TypeOK
<1>6. HandlersRunAsTheirCaller' /\ ObjectsOK'
  BY <1>1, <1>3, <1>5 DEF MigrationInv, Inv, HandlersRunAsTheirCaller, ObjectsOK
<1>7. ParentsOK' /\ TenantsExist'
  BY <1>1, <1>2, <1>3 DEF MigrationInv, Inv, ParentsOK, TenantsExist
<1>8. SessionsOwn(Defaults)'
  <2>1. \A c \in Chains : \A x \in session[c] : x \in Rows /\ rows[x] # NULL
    BY <1>5 DEF MigrationInv, Inv, ObjectsOK
  <2> QED BY <1>1, <1>2, <1>3, <2>1 DEF MigrationInv, Inv, SessionsOwn
<1>9. WritesOwn(Defaults)'
  BY <1>2, <1>3 DEF MigrationInv, Inv, WritesOwn
<1>10. ChildrenFit(Defaults)'
  <2> SUFFICES ASSUME NEW x \in Rows, rows'[x] # NULL, rows'[x].parent # NULL
               PROVE  /\ rows'[rows'[x].parent] # NULL
                      /\ rows'[rows'[x].parent].table = "integrations"
                      /\ rows'[x].tenant # NULL =>
                             Fits(Defaults, rows'[x].tenant, rows'[rows'[x].parent].tenant)
    BY DEF ChildrenFit
  <2> DEFINE p == rows[x].parent
  <2>1. rows[x] # NULL /\ rows'[x].parent = p /\ p \in Rows
    BY <1>3 DEF MigrationInv, Inv, TypeOK, Row
  <2>2. /\ rows[p] # NULL /\ rows[p].table = "integrations"
        /\ rows[x].tenant # NULL => Fits(Defaults, rows[x].tenant, rows[p].tenant)
    BY <2>1 DEF MigrationInv, Inv, ChildrenFit
  <2> HIDE DEF p
  <2> QED BY <2>1, <2>2, <1>2, <1>3 DEF Fits
<1>11. Inv(Defaults)'
  BY <1>4, <1>6, <1>7, <1>8, <1>9, <1>10 DEF Inv
<1>12. MigrationTypeOK'
  BY <1>1, <1>4 DEF MigrationInv, MigrationTypeOK
<1>13. OneSlug' /\ MigratorOK'
  BY <1>1, <1>2 DEF MigrationInv, OneSlug, MigratorOK, DefaultTenants
<1>14. ASSUME NEW x \in unowned PROVE x \in Rows /\ rows[x] # NULL /\ x \in moved
  <2>1. x \in Rows /\ rows[x] # NULL
    BY DEF MigrationInv, MigrationTypeOK, UnownedOK
  <2>2. rows[x].table \in Tables
    BY <2>1 DEF MigrationInv, Inv, TypeOK, Row
  <2>3. Passed(x)
    BY <1>1, <2>2, OrderOfTables DEF Passed
  <2> QED BY <1>1, <2>1, <2>3 DEF MigrationInv, UnownedOK
<1>15. UnownedOK'
  BY <1>1, <1>3, <1>14 DEF UnownedOK
<1> QED BY <1>11, <1>12, <1>13, <1>15 DEF MigrationInv

-----------------------------------------------------------------------------
LEMMA MigrationStutterOK == MigrationInv /\ UNCHANGED allVars => MigrationInv'
<1> SUFFICES ASSUME MigrationInv, UNCHANGED allVars PROVE MigrationInv'
  OBVIOUS
<1>1. UNCHANGED vars /\ UNCHANGED <<creator, migrator, at, target, moved, unowned>>
  BY DEF allVars, scripts
<1>2. UNCHANGED <<tenants, rows>>
  BY <1>1 DEF vars
<1>3. Inv(Defaults)'
  BY <1>1, StutterOK, DefaultsAreTenants DEF MigrationInv
<1>4. MigrationTypeOK'
  BY <1>1, <1>3 DEF MigrationInv, MigrationTypeOK, Inv
<1>5. OneSlug' /\ MigratorOK' /\ UnownedOK'
  BY <1>1, <1>2 DEF MigrationInv, OneSlug, MigratorOK, UnownedOK, Passed, DefaultTenants
<1> QED BY <1>3, <1>4, <1>5 DEF MigrationInv

(* What the scripts and the handlers do to each other, in any interleaving  *)
(* and with any number of rollbacks, keeps the invariant.                   *)
THEOREM MigrationInvariance == MigrationSpec => []MigrationInv
<1>1. MigrationInv /\ [AllNext]_allVars => MigrationInv'
  BY ServeOK, LookForDefaultOK, InsertDefaultOK, FindDefaultOK, SelectTableOK, UpdateTableOK,
     CommitMigrationOK, AbortMigrationOK, MigrationStutterOK DEF AllNext
<1> QED BY <1>1, MigrationInitOK, PTL DEF MigrationSpec

(* The variables keep their types, the ones of the service too.             *)
THEOREM MigrationTypeCorrect == MigrationSpec => []MigrationTypeOK
<1>1. MigrationInv => MigrationTypeOK
  BY DEF MigrationInv
<1> QED BY <1>1, MigrationInvariance, PTL

(* However many runs of create_default_tenant overlap, they make one default*)
(* tenant, and the migration's scalar_one_or_none never finds two.          *)
THEOREM DefaultIsUnique == MigrationSpec => []OneDefaultTenant
<1>1. MigrationInv => OneDefaultTenant
  <2> SUFFICES ASSUME MigrationInv PROVE Cardinality(DefaultTenants) =< 1
    BY DEF MigrationInv, OneSlug, OneDefaultTenant
  <2>1. CASE DefaultTenants = {}
    BY <2>1, FS_EmptySet
  <2>2. ASSUME NEW d \in DefaultTenants
        PROVE  Cardinality(DefaultTenants) =< 1
    <3>1. DefaultTenants = {d}
      BY <2>2 DEF MigrationInv, OneSlug
    <3> QED BY <3>1, FS_Singleton
  <2> QED BY <2>1, <2>2
<1> QED BY <1>1, MigrationInvariance, PTL

(* When the migration is over, the rows that had no tenant when it began    *)
(* are the default tenant's and stay so: no handler makes it miss one, and  *)
(* none takes one back afterwards.                                          *)
THEOREM NoRowIsMissed == MigrationSpec => []UnownedRowsAreMoved
<1>1. MigrationInv => UnownedRowsAreMoved
  BY DEF MigrationInv, UnownedOK, UnownedRowsAreMoved
<1> QED BY <1>1, MigrationInvariance, PTL

(* A row and its integration never have two tenants of which neither is the *)
(* default one, also for the rows that handlers insert meanwhile.           *)
THEOREM OtherTenantsStayApart == MigrationSpec => []OnlyTheDefaultTenantMixes
<1>1. MigrationInv => OnlyTheDefaultTenantMixes
  BY DEF MigrationInv, Inv, ChildrenFit, Fits, OnlyTheDefaultTenantMixes
<1> QED BY <1>1, MigrationInvariance, PTL

(* A request that names a tenant works, beside the scripts too, on rows of  *)
(* this tenant or on rows that the migration has taken from it meanwhile.   *)
THEOREM ForeignRowsAreMovedRows == MigrationSpec => []SessionsOwn(Defaults)
<1>1. MigrationInv => SessionsOwn(Defaults)
  BY DEF MigrationInv, Inv
<1> QED BY <1>1, MigrationInvariance, PTL
=============================================================================
