-------------------------------- MODULE Boot --------------------------------
(* What a process does before it serves: create the tables that are not     *)
(* there, in one transaction, then fill the catalog of templates if it is   *)
(* empty, in another.  Several replicas boot at once, and a process that    *)
(* fails or dies is started again.                                          *)
(*                                                                          *)
(* PostgreSQL keeps the transaction of a process that died for a moment, and*)
(* may find in it a COMMIT that was on its way.  Orphan stands for such     *)
(* sessions.  One is enough: a table or a name that one transaction has     *)
(* inserted makes every other that inserts it wait.                         *)
EXTENDS Naturals, Sequences

CONSTANTS
    Replicas,   \* processes
    Orphan,     \* the session of a process that is dead
    NULL,       \* no session
    Catalog,    \* the names of the templates, in the order of the list
    MaxFaults   \* bound on the crashes, and on the other exceptions of a boot

ASSUME BootAssumption == Orphan \notin Replicas /\ NULL \notin Replicas \cup {Orphan}
ASSUME CatalogAssumption ==
    /\ Catalog \in Seq(STRING)
    /\ \A j, k \in DOMAIN Catalog : Catalog[j] = Catalog[k] => j = k
ASSUME FaultAssumption == MaxFaults \in Nat

VARIABLES
    tables,     \* the tables are committed
    templates,  \* [Names -> Nat], the committed rows of each name
    ddl,        \* the session whose tables are not committed, or NULL
    phase,      \* of each replica
    inserted,   \* templates of each session that are not committed
    faults      \* crashes and other exceptions so far

schema   == <<tables, ddl>>
bootVars == <<schema, templates, phase, inserted, faults>>

Names    == {Catalog[k] : k \in DOMAIN Catalog}
Sessions == Replicas \cup {Orphan}
Booting  == {"looking", "creating", "created", "selecting", "seeding"}

BootInit ==
    /\ tables = FALSE /\ ddl = NULL
    /\ templates = [n \in Names |-> 0]
    /\ phase = [p \in Replicas |-> "off"]
    /\ inserted = [s \in Sessions |-> 0]
    /\ faults = 0

Enter(p, next) == phase' = [phase EXCEPT ![p] = next]

-----------------------------------------------------------------------------
(* The lifespan of the application: init_db, then serve.                    *)
Start(p) ==
    /\ phase[p] = "off"
    /\ Enter(p, "looking")
    /\ UNCHANGED <<schema, templates, inserted, faults>>

(* An exception of init_db ends the process; its transaction is rolled back.*)
FailBoot(p) ==
    /\ Enter(p, "off")
    /\ ddl' = IF ddl = p THEN NULL ELSE ddl
    /\ inserted' = [inserted EXCEPT ![p] = 0]
    /\ UNCHANGED <<tables, templates>>

(* create_all looks first, and creates what is missing.                     *)
LookForTables(p) ==
    /\ phase[p] = "looking"
    /\ Enter(p, IF tables THEN "selecting" ELSE "creating")
    /\ UNCHANGED <<schema, templates, inserted, faults>>

(* A CREATE waits for one that is not committed, and fails if it is by then.*)
CreateTables(p) ==
    /\ phase[p] = "creating"
    /\ ddl = NULL
    /\ \/ tables /\ FailBoot(p) /\ UNCHANGED faults
       \/ /\ ~tables
          /\ ddl' = p
          /\ Enter(p, "created")
          /\ UNCHANGED <<tables, templates, inserted, faults>>

CommitTables(p) ==
    /\ phase[p] = "created"
    /\ tables' = TRUE /\ ddl' = NULL
    /\ Enter(p, "selecting")
    /\ UNCHANGED <<templates, inserted, faults>>

(* seed_default_templates looks for any row.                                *)
Seeded_Never == FALSE
Seeded == \E n \in Names : templates[n] > 0

LookForTemplates(p) ==
    /\ phase[p] = "selecting"
    /\ Enter(p, IF Seeded THEN "up" ELSE "seeding")
    /\ UNCHANGED <<schema, templates, inserted, faults>>

(* Sessions that have inserted the k-th name and not committed it.          *)
Inserting(k) == {s \in Sessions : inserted[s] >= k}

Publish(s) ==
    templates' = [n \in Names |-> templates[n] +
                      (IF \E k \in 1..inserted[s] : Catalog[k] = n THEN 1 ELSE 0)]

(* The rows go in one after the other.  Names are unique: one that is not   *)
(* committed makes this session wait, one that is makes it fail.            *)
InsertTemplate_NotUnique(p) ==
    /\ phase[p] = "seeding"
    /\ inserted[p] < Len(Catalog)
    /\ inserted' = [inserted EXCEPT ![p] = @ + 1]
    /\ UNCHANGED <<schema, templates, phase, faults>>
InsertTemplate(p) ==
    LET k == inserted[p] + 1 IN
    /\ phase[p] = "seeding"
    /\ k \in DOMAIN Catalog
    /\ Inserting(k) = {}
    /\ \/ templates[Catalog[k]] > 0 /\ FailBoot(p) /\ UNCHANGED faults
       \/ /\ templates[Catalog[k]] = 0
          /\ inserted' = [inserted EXCEPT ![p] = k]
          /\ UNCHANGED <<schema, templates, phase, faults>>

CommitTemplates(p) ==
    /\ phase[p] = "seeding"
    /\ inserted[p] = Len(Catalog)
    /\ Publish(p)
    /\ inserted' = [inserted EXCEPT ![p] = 0]
    /\ Enter(p, "up")
    /\ UNCHANGED <<schema, faults>>

BootStep(p) ==
    \/ LookForTables(p) \/ CreateTables(p) \/ CommitTables(p)
    \/ LookForTemplates(p) \/ InsertTemplate(p) \/ CommitTemplates(p)

-----------------------------------------------------------------------------
(* Any other exception of init_db: a database that cannot be reached, a     *)
(* statement that fails.  Where it does not know whether its COMMIT got     *)
(* through, the session it leaves is that of a crash.                       *)
RaiseInBoot(p) ==
    /\ phase[p] \in Booting
    /\ faults < MaxFaults
    /\ faults' = faults + 1
    /\ FailBoot(p)

(* The process dies, booting or serving.                                    *)
Crash(p) ==
    /\ phase[p] # "off"
    /\ faults < MaxFaults
    /\ faults' = faults + 1
    /\ Enter(p, "off")
    /\ ddl' = IF ddl = p THEN Orphan ELSE ddl
    /\ inserted' = [inserted EXCEPT ![p] = 0,
                                    ![Orphan] = IF inserted[p] > 0 THEN inserted[p] ELSE @]
    /\ UNCHANGED <<tables, templates>>

(* The database finishes with what the dead have left: it rolls back, unless*)
(* the COMMIT had been sent.                                                *)
OrphanedTables ==
    /\ ddl = Orphan
    /\ ddl' = NULL
    /\ tables' \in BOOLEAN
    /\ UNCHANGED <<templates, phase, inserted, faults>>

OrphanedTemplates ==
    /\ inserted[Orphan] > 0
    /\ \/ inserted[Orphan] = Len(Catalog) /\ Publish(Orphan)
       \/ UNCHANGED templates
    /\ inserted' = [inserted EXCEPT ![Orphan] = 0]
    /\ UNCHANGED <<schema, phase, faults>>

-----------------------------------------------------------------------------
(* Properties.                                                              *)

BootTypeOK ==
    /\ tables \in BOOLEAN
    /\ templates \in [Names -> Nat]
    /\ ddl \in Sessions \cup {NULL}
    /\ phase \in [Replicas -> Booting \cup {"off", "up"}]
    /\ inserted \in [Sessions -> 0..Len(Catalog)]
    /\ faults \in 0..MaxFaults

(* However many replicas boot at once, and wherever they die, the catalog is*)
(* empty or has every name exactly once, and no replica serves before the   *)
(* tables are there and the catalog is whole.                               *)
CatalogIsWhole ==
    /\ \E count \in {0, 1} : \A n \in Names : templates[n] = count
    /\ \A p \in Replicas : phase[p] = "up" => tables /\ \A n \in Names : templates[n] = 1

(* Losing the race for the catalog fails a boot and not the deployment: once*)
(* crashes stop, every replica ends up serving, and goes on.                *)
EveryReplicaComesUp == \A p \in Replicas : <>[](phase[p] = "up")
=============================================================================
