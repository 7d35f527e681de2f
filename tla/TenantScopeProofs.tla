-------------------------- MODULE TenantScopeProofs --------------------------
(* Proofs about TenantScope, for every set of rows, tenants, strangers and  *)
(* chains.                                                                  *)
EXTENDS TenantScope, TLAPS

(* What a handler has at each of its steps: the row it is about is one of   *)
(* its session, and once it has loaded the integration too, both are.       *)
ObjectsOK ==
    \A c \in Chains :
        /\ pc[c] \in {"loaded", "ready", "committed"} =>
               object[c] \in Rows /\ object[c] \in session[c] /\ rows[object[c]] # NULL
        /\ pc[c] \in {"idle", "handler"} => session[c] = {}
        /\ \A x \in session[c] : rows[x] # NULL

(* Every row but an integration is of one.                                  *)
ParentsOK ==
    \A x \in Rows : rows[x] # NULL /\ rows[x].table # "integrations" => rows[x].parent \in Rows

(* What a tenant's row refers to is in the table of tenants.                *)
TenantsExist == \A x \in Rows : rows[x] # NULL => rows[x].tenant \in tenants \cup {NULL}

(* The three facts about tenants, for a service in which some rows have been*)
(* moved to the tenants of D by other means than its handlers: for every row*)
(* the one that is expected, or one of D.  In a service alone, D is empty.  *)
SessionsOwn(D) ==
    \A c \in Chains : header[c] # NULL =>
        \A x \in session[c] :
            header[c] \in Tenants /\ rows[x].tenant \in {header[c]} \cup D
WritesOwn(D) ==
    \A x \in Rows : rows[x] # NULL /\ rows[x].writer # NULL =>
        rows[x].tenant \in {rows[x].writer} \cup D
Fits(D, t, u) == t = u \/ t \in D \/ u \in D
ChildrenFit(D) ==
    \A x \in Rows : rows[x] # NULL /\ rows[x].parent # NULL =>
        /\ rows[rows[x].parent] # NULL
        /\ rows[rows[x].parent].table = "integrations"
        /\ rows[x].tenant # NULL => Fits(D, rows[x].tenant, rows[rows[x].parent].tenant)

Inv(D) ==
    /\ TypeOK
    /\ HandlersRunAsTheirCaller
    /\ ObjectsOK
    /\ ParentsOK
    /\ TenantsExist
    /\ SessionsOwn(D)
    /\ WritesOwn(D)
    /\ ChildrenFit(D)

(* What no handler changes of a row that is there: what it is, whose child  *)
(* and whose property.                                                      *)
RowsStand ==
    \A x \in Rows : rows[x] # NULL =>
        /\ rows'[x] # NULL
        /\ rows'[x].table = rows[x].table
        /\ rows'[x].parent = rows[x].parent
        /\ rows'[x].tenant = rows[x].tenant

LEMMA InitOK ==
    ASSUME NEW D \in SUBSET Tenants, Init
    PROVE  Inv(D)
BY DEF Init, Inv, TypeOK, Callers, HandlersRunAsTheirCaller, ObjectsOK, ParentsOK, TenantsExist,
       SessionsOwn, WritesOwn, ChildrenFit

(* Steps that leave the rows alone, and whose session is made of rows that  *)
(* the filter lets through.                                                 *)
LEMMA ReadersOK ==
    ASSUME NEW D \in SUBSET Tenants, Inv(D), NEW c \in Chains, UNCHANGED <<tenants, rows>>,
           \A d \in Chains \ {c} : /\ pc'[d] = pc[d] /\ header'[d] = header[d]
                                   /\ context'[d] = context[d]
                                   /\ session'[d] = session[d] /\ object'[d] = object[d],
           TypeOK',
           pc'[c] # "idle" => context'[c] = header'[c],
           pc'[c] \in {"loaded", "ready", "committed"} =>
               object'[c] \in Rows /\ object'[c] \in session'[c],
           pc'[c] \in {"idle", "handler"} => session'[c] = {},
           header'[c] = header[c] \/ session'[c] = {},
           \A x \in session'[c] \ session[c] :
               rows[x] # NULL /\ (header'[c] # NULL => rows[x].tenant = header'[c])
    PROVE  Inv(D)' /\ RowsStand
<1>1. HandlersRunAsTheirCaller'
  BY DEF Inv, HandlersRunAsTheirCaller
<1>2. ObjectsOK'
  BY DEF Inv, ObjectsOK
<1>3. SessionsOwn(D)'
  <2>1. \A x \in Rows : rows[x] # NULL => rows[x].tenant \in Tenants \cup {NULL}
    BY DEF Inv, TypeOK, Row
  <2>2. session[c] \subseteq Rows /\ session'[c] \subseteq Rows
    BY DEF Inv, TypeOK
  <2>3. header'[c] # NULL =>
            \A x \in session'[c] \ session[c] :
                header'[c] \in Tenants /\ rows[x].tenant = header'[c]
    BY <2>1, <2>2
  <2>4. header'[c] # NULL =>
            \A x \in session'[c] \cap session[c] :
                header'[c] \in Tenants /\ rows[x].tenant \in {header'[c]} \cup D
    BY DEF Inv, SessionsOwn
  <2>5. header'[c] # NULL =>
            \A x \in session'[c] :
                header'[c] \in Tenants /\ rows'[x].tenant \in {header'[c]} \cup D
    BY <2>3, <2>4
  <2>6. \A d \in Chains \ {c} : header'[d] # NULL =>
            \A x \in session'[d] :
                header'[d] \in Tenants /\ rows'[x].tenant \in {header'[d]} \cup D
    BY DEF Inv, SessionsOwn
  <2> QED BY <2>5, <2>6 DEF SessionsOwn
<1>4. ParentsOK' /\ TenantsExist' /\ WritesOwn(D)' /\ ChildrenFit(D)'
  BY DEF Inv, ParentsOK, TenantsExist, WritesOwn, ChildrenFit
<1> QED BY <1>1, <1>2, <1>3, <1>4 DEF Inv, RowsStand

(* A handler that ends, and one that is answered, closes its session.       *)
LEMMA CloseOK ==
    ASSUME NEW D \in SUBSET Tenants, Inv(D), NEW c \in Chains, Close(c),
           UNCHANGED <<tenants, rows, header, context>>
    PROVE  Inv(D)' /\ RowsStand
<1>1. TypeOK'
  BY DEF Inv, TypeOK, Close
<1>2. /\ pc'[c] = "idle" /\ session'[c] = {}
      /\ \A d \in Chains \ {c} : /\ pc'[d] = pc[d] /\ header'[d] = header[d]
                                /\ context'[d] = context[d]
                                /\ session'[d] = session[d] /\ object'[d] = object[d]
  BY DEF Inv, TypeOK, Close
<1> QED BY <1>1, <1>2, ReadersOK

(* What the filter lets through to a request that names a tenant is the     *)
(* tenant's.                                                                *)
LEMMA VisibleIsOwn ==
    ASSUME HandlersRunAsTheirCaller, NEW c \in Chains, pc[c] # "idle",
           NEW x \in Rows, Visible(c, x)
    PROVE  rows[x] # NULL /\ (header[c] # NULL => rows[x].tenant = header[c])
BY DEF HandlersRunAsTheirCaller, Visible

(* A row as it may be inserted: stamped with the caller's tenant, and the   *)
(* child of an integration that its session holds or that is inserted with  *)
(* it.                                                                      *)
Insertable(c, new, y) ==
    /\ new[y] \in Row
    /\ new[y].tenant = context[c] /\ new[y].writer = header[c]
    /\ \/ new[y].table = "integrations" /\ new[y].parent = NULL
       \/ new[y].parent \in DOMAIN new /\ new[new[y].parent].table = "integrations"
       \/ new[y].parent \in session[c] \ DOMAIN new /\ rows[new[y].parent].table = "integrations"

LEMMA WrittenRow ==
    ASSUME NEW row \in Row, NEW h \in Tenants \cup {NULL}
    PROVE  LET written == [row EXCEPT !.writer = h] IN
           /\ written \in Row /\ written # NULL
           /\ written.table = row.table /\ written.parent = row.parent
           /\ written.tenant = row.tenant /\ written.writer = h
<1>1. [row EXCEPT !.writer = h] \in Row
  BY DEF Row
<1>2. [row EXCEPT !.writer = h].writer = h
  BY DEF Row
<1>3. /\ [row EXCEPT !.writer = h].table = row.table
      /\ [row EXCEPT !.writer = h].parent = row.parent
      /\ [row EXCEPT !.writer = h].tenant = row.tenant
  BY DEF Row
<1> QED BY <1>1, <1>2, <1>3, NullIsNoRow

(* Every commit of a handler: it inserts rows where none were, and updates  *)
(* rows of its session.                                                     *)
LEMMA CommitOK ==
    ASSUME NEW D \in SUBSET Tenants, Inv(D), NEW c \in Chains, pc[c] # "idle",
           NEW x \in Rows, NEW new, NEW updated \in SUBSET session[c],
           Commit(c, x, new, updated), UNCHANGED tenants,
           DOMAIN new \subseteq Rows,
           \A y \in DOMAIN new : rows[y] = NULL /\ Insertable(c, new, y),
           DOMAIN new # {} => MayInsert(c),
           x \in DOMAIN new \/ x \in session[c]
    PROVE  Inv(D)' /\ RowsStand
<1>1. /\ context[c] = header[c] /\ header' = header /\ context' = context
      /\ \A y \in session[c] : rows[y] # NULL /\ y \in Rows
  BY DEF Inv, TypeOK, HandlersRunAsTheirCaller, ObjectsOK, Commit
<1>2. \A y \in updated : /\ rows[y] # NULL /\ rows[y] \in Row
                         /\ header[c] \in Tenants \cup {NULL}
                         /\ header[c] # NULL => rows[y].tenant \in {header[c]} \cup D
  <2>1. \A y \in session[c] : header[c] # NULL =>
            header[c] \in Tenants /\ rows[y].tenant \in {header[c]} \cup D
    BY DEF Inv, SessionsOwn
  <2>2. \A y \in updated : rows[y] # NULL /\ rows[y] \in Row
    BY <1>1 DEF Inv, TypeOK
  <2>3. \A y \in updated : header[c] \in Tenants \cup {NULL}
    BY <2>1
  <2> QED BY <2>1, <2>2, <2>3
<1>3. \A y \in Rows :
          rows'[y] = IF y \in DOMAIN new THEN new[y]
                     ELSE IF y \in updated THEN [rows[y] EXCEPT !.writer = header[c]]
                     ELSE rows[y]
  BY DEF Commit
<1>4. \A y \in Rows \ DOMAIN new :
          /\ rows[y] = NULL <=> rows'[y] = NULL
          /\ rows[y] # NULL => /\ rows'[y] \in Row
                               /\ rows'[y].table = rows[y].table
                               /\ rows'[y].parent = rows[y].parent
                               /\ rows'[y].tenant = rows[y].tenant
                               /\ \/ rows'[y].writer = rows[y].writer
                                  \/ rows'[y].writer = header[c] /\ y \in updated
  <2> SUFFICES ASSUME NEW y \in Rows \ DOMAIN new
               PROVE  /\ rows[y] = NULL <=> rows'[y] = NULL
                      /\ rows[y] # NULL => /\ rows'[y] \in Row
                                           /\ rows'[y].table = rows[y].table
                                           /\ rows'[y].parent = rows[y].parent
                                           /\ rows'[y].tenant = rows[y].tenant
                                           /\ \/ rows'[y].writer = rows[y].writer
                                              \/ rows'[y].writer = header[c] /\ y \in updated
    OBVIOUS
  <2>1. CASE y \in updated
    <3>1. rows'[y] = [rows[y] EXCEPT !.writer = header[c]]
      BY <2>1, <1>3
    <3> QED BY <2>1, <3>1, <1>2, WrittenRow
  <2>2. CASE y \notin updated
    <3>1. rows'[y] = rows[y]
      BY <2>2, <1>3
    <3>2. rows[y] \in Row \cup {NULL}
      BY DEF Inv, TypeOK
    <3> QED BY <3>1, <3>2
  <2> QED BY <2>1, <2>2
<1>5. \A y \in DOMAIN new : rows'[y] = new[y] /\ rows'[y] # NULL /\ rows'[y] \in Row
  BY <1>3, NullIsNoRow DEF Insertable
<1>6. TypeOK'
  <2>1. rows' \in [Rows -> Row \cup {NULL}]
    BY <1>4, <1>5 DEF Commit
  <2> QED BY <2>1 DEF Inv, TypeOK, Commit
<1>7. /\ pc'[c] = "committed" /\ object'[c] = x /\ session'[c] = session[c] \cup DOMAIN new
      /\ \A d \in Chains \ {c} : /\ pc'[d] = pc[d] /\ session'[d] = session[d]
                                /\ object'[d] = object[d]
  BY DEF Inv, TypeOK, Commit
<1>8. HandlersRunAsTheirCaller'
  BY <1>1, <1>7 DEF Inv, HandlersRunAsTheirCaller
<1>9. \A d \in Chains : \A y \in session[d] : y \in Rows \ DOMAIN new
  BY DEF Inv, TypeOK, ObjectsOK
<1>10. ObjectsOK'
  BY <1>4, <1>5, <1>7, <1>9 DEF Inv, ObjectsOK
<1>11. ParentsOK'
  BY <1>4, <1>5, <1>9 DEF Inv, TypeOK, ParentsOK, Insertable
<1>12. TenantsExist'
  BY <1>4, <1>5 DEF Inv, TenantsExist, MayInsert, Insertable
<1>13. SessionsOwn(D)'
  <2>1. header[c] # NULL => \A y \in DOMAIN new :
            header[c] \in Tenants /\ rows'[y].tenant = header[c]
    BY <1>1, <1>5 DEF Inv, TypeOK, MayInsert, Insertable
  <2>2. \A d \in Chains : header[d] # NULL => \A y \in session[d] :
            header[d] \in Tenants /\ rows'[y].tenant \in {header[d]} \cup D
    BY <1>4, <1>9 DEF Inv, ObjectsOK, SessionsOwn
  <2> QED BY <2>1, <2>2, <1>1, <1>7 DEF SessionsOwn
<1>14. WritesOwn(D)'
  BY <1>1, <1>2, <1>4, <1>5 DEF Inv, WritesOwn, Insertable
<1>15. ChildrenFit(D)'
  <2> SUFFICES ASSUME NEW y \in Rows, rows'[y] # NULL, rows'[y].parent # NULL
               PROVE  /\ rows'[rows'[y].parent] # NULL
                      /\ rows'[rows'[y].parent].table = "integrations"
                      /\ rows'[y].tenant # NULL =>
                             Fits(D, rows'[y].tenant, rows'[rows'[y].parent].tenant)
    BY DEF ChildrenFit
  <2>1. CASE y \in DOMAIN new
    <3>1. CASE new[y].parent \in DOMAIN new
      <4>1. /\ Insertable(c, new, y) /\ Insertable(c, new, new[y].parent)
            /\ rows'[y] = new[y]
            /\ rows'[new[y].parent] = new[new[y].parent] /\ rows'[new[y].parent] # NULL
        BY <2>1, <3>1, <1>5
      <4>2. new[new[y].parent].table = "integrations"
        BY <3>1, <4>1 DEF Insertable
      <4> QED BY <4>1, <4>2 DEF Insertable, Fits
    <3>2. CASE new[y].parent \in session[c]
      <4> DEFINE p == new[y].parent
      <4>1. /\ rows'[y] = new[y] /\ Insertable(c, new, y)
            /\ p \in Rows \ DOMAIN new /\ rows[p] # NULL
        BY <2>1, <3>2, <1>1, <1>5, <1>9
      <4>2. rows'[p] # NULL /\ rows'[p].table = rows[p].table /\ rows'[p].tenant = rows[p].tenant
        BY <4>1, <1>4
      <4>3. rows[p].table = "integrations"
        BY <3>2, <4>1 DEF Insertable
      <4>4. header[c] # NULL => Fits(D, header[c], rows[p].tenant)
        BY <3>2 DEF Inv, SessionsOwn, Fits
      <4>5. rows'[y].tenant = header[c] /\ rows'[y].parent = p
        BY <4>1, <1>1 DEF Insertable
      <4> HIDE DEF p
      <4> QED BY <4>2, <4>3, <4>4, <4>5
    <3> QED BY <2>1, <3>1, <3>2, <1>5 DEF Insertable
  <2>2. CASE y \notin DOMAIN new
    <3>1. /\ rows[y] # NULL /\ rows'[y].parent = rows[y].parent /\ rows'[y].tenant = rows[y].tenant
          /\ rows[y].parent \in Rows
      BY <2>2, <1>4 DEF Inv, TypeOK, Row
    <3>2. rows[rows[y].parent] # NULL /\ rows[y].parent \notin DOMAIN new
      BY <3>1 DEF Inv, ChildrenFit, Fits
    <3> QED BY <3>1, <3>2, <1>4 DEF Inv, ChildrenFit, Fits
  <2> QED BY <2>1, <2>2
<1>16. RowsStand
  <2>1. \A y \in Rows : rows[y] # NULL => y \notin DOMAIN new
    OBVIOUS
  <2> QED BY <2>1, <1>4 DEF RowsStand
<1> QED BY <1>6, <1>8, <1>10, <1>11, <1>12, <1>13, <1>14, <1>15, <1>16 DEF Inv

-----------------------------------------------------------------------------
(* The actions that commit, each an instance of CommitOK.                   *)

LEMMA CreateOK ==
    ASSUME NEW D \in SUBSET Tenants, Inv(D), NEW c \in Chains,
           NEW x \in Rows, NEW credentials \in SUBSET Rows,
           CreateIntegration(c, x, credentials)
    PROVE  Inv(D)' /\ RowsStand
<1> DEFINE new == [y \in {x} \cup credentials |->
                       IF y = x THEN NewRow(c, "integrations", NULL)
                                ELSE NewRow(c, "credentials", x)]
<1>1. context[c] = header[c] /\ context[c] \in Tenants \cup {NULL} /\ pc[c] # "idle"
  BY DEF CreateIntegration, MayInsert, Inv, TypeOK, HandlersRunAsTheirCaller
<1>2. NewRow(c, "integrations", NULL) \in Row /\ NewRow(c, "credentials", x) \in Row
  BY <1>1 DEF NewRow, Row, Tables
<1>3. \A y \in DOMAIN new : rows[y] = NULL /\ Insertable(c, new, y)
  BY <1>2 DEF CreateIntegration, Free, Insertable, NewRow
<1>4. Commit(c, x, new, {}) /\ UNCHANGED tenants /\ DOMAIN new \subseteq Rows
      /\ MayInsert(c) /\ x \in DOMAIN new
  BY DEF CreateIntegration, Commit
<1> QED
  <2> HIDE DEF new
  <2> QED BY <1>1, <1>3, <1>4, CommitOK

(* A child of the integration that the handler has loaded.                  *)
LEMMA ChildOK ==
    ASSUME NEW D \in SUBSET Tenants, Inv(D), NEW c \in Chains,
           NEW x \in Rows, NEW table \in Tables,
           NEW updated \in SUBSET session[c],
           pc[c] = "loaded", rows[object[c]].table = "integrations", Free(x), MayInsert(c),
           Commit(c, x, [y \in {x} |-> NewRow(c, table, object[c])], updated)
    PROVE  Inv(D)' /\ RowsStand
<1> DEFINE new == [y \in {x} |-> NewRow(c, table, object[c])]
<1>1. /\ context[c] = header[c] /\ context[c] \in Tenants \cup {NULL}
      /\ object[c] \in Rows /\ object[c] \in session[c] /\ rows[object[c]] # NULL
  BY DEF MayInsert, Inv, TypeOK, HandlersRunAsTheirCaller, ObjectsOK
<1>2. NewRow(c, table, object[c]) \in Row
  BY <1>1 DEF NewRow, Row
<1>3. \A y \in DOMAIN new : rows[y] = NULL /\ Insertable(c, new, y)
  BY <1>1, <1>2 DEF Free, Insertable, NewRow
<1>4. Commit(c, x, new, updated) /\ UNCHANGED tenants /\ DOMAIN new \subseteq Rows
      /\ x \in DOMAIN new
  BY DEF Commit
<1> QED
  <2> HIDE DEF new
  <2> QED BY <1>3, <1>4, CommitOK

(* Updates of what the handler has loaded.                                  *)
LEMMA UpdateOK ==
    ASSUME NEW D \in SUBSET Tenants, Inv(D), NEW c \in Chains, NEW updated \in SUBSET session[c],
           pc[c] \in {"loaded", "ready"},
           Commit(c, object[c], [y \in {} |-> NULL], updated)
    PROVE  Inv(D)' /\ RowsStand
<1> DEFINE new == [y \in {} |-> NULL]
<1>1. object[c] \in Rows /\ object[c] \in session[c]
  BY DEF Inv, ObjectsOK
<1>2. Commit(c, object[c], new, updated) /\ UNCHANGED tenants /\ DOMAIN new = {}
  BY DEF Commit
<1> QED
  <2> HIDE DEF new
  <2> QED BY <1>1, <1>2, CommitOK

-----------------------------------------------------------------------------
LEMMA HandleOK ==
    ASSUME NEW D \in SUBSET Tenants, Inv(D), NEW c \in Chains, Handle(c)
    PROVE  Inv(D)' /\ RowsStand
<1> DEFINE OthersSame == \A d \in Chains \ {c} :
               /\ pc'[d] = pc[d] /\ header'[d] = header[d] /\ context'[d] = context[d]
               /\ session'[d] = session[d] /\ object'[d] = object[d]
<1>1. ASSUME NEW h \in Callers, Enter(c, h)
      PROVE  Inv(D)' /\ RowsStand
  <2>1. header' \in [Chains -> Callers] /\ context' \in [Chains -> Callers]
    BY <1>1 DEF Inv, TypeOK, Enter, SetContext
  <2>2. pc' \in [Chains -> {"idle", "handler", "loaded", "listed", "ready", "committed"}]
    BY <1>1 DEF Inv, TypeOK, Enter
  <2>3. TypeOK'
    BY <1>1, <2>1, <2>2 DEF Inv, TypeOK, Enter
  <2>4. pc[c] = "idle" /\ pc'[c] = "handler" /\ context'[c] = header'[c] /\ session' = session
    BY <1>1 DEF Inv, TypeOK, Enter, SetContext
  <2>5. OthersSame
    BY <1>1 DEF Inv, TypeOK, Enter
  <2>6. session[c] = {}
    BY <2>4 DEF Inv, ObjectsOK
  <2> QED BY <1>1, <2>3, <2>4, <2>5, <2>6, ReadersOK DEF Enter
<1>2. CASE End(c)
  BY <1>2, CloseOK DEF End
<1>3. ASSUME NEW x \in Rows, Load(c, x)
      PROVE  Inv(D)' /\ RowsStand
  <2>1. TypeOK'
    BY <1>3 DEF Inv, TypeOK, Load
  <2>2. /\ pc[c] # "idle" /\ Visible(c, x) /\ pc'[c] = "loaded" /\ session'[c] = {x}
        /\ object'[c] = x
        /\ UNCHANGED <<tenants, rows, header, context>>
    BY <1>3 DEF Inv, TypeOK, Load
  <2>3. OthersSame
    BY <1>3 DEF Inv, TypeOK, Load
  <2>4. /\ context[c] = header[c] /\ rows[x] # NULL
        /\ header[c] # NULL => rows[x].tenant = header[c]
    BY <2>2, <1>3, VisibleIsOwn DEF Inv, HandlersRunAsTheirCaller
  <2> QED BY <2>1, <2>2, <2>3, <2>4, <1>3, ReadersOK
<1>4. ASSUME NEW table \in Tables, List(c, table)
      PROVE  Inv(D)' /\ RowsStand
  <2>1. TypeOK'
    BY <1>4 DEF Inv, TypeOK, List
  <2>2. /\ pc[c] # "idle" /\ pc'[c] = "listed"
        /\ session'[c] = {x \in Rows : Visible(c, x) /\ rows[x].table = table}
        /\ UNCHANGED <<tenants, rows, header, context, object>>
    BY <1>4 DEF Inv, TypeOK, List
  <2>3. OthersSame
    BY <1>4 DEF Inv, TypeOK, List
  <2>4. /\ context[c] = header[c]
        /\ \A x \in session'[c] :
               rows[x] # NULL /\ (header[c] # NULL => rows[x].tenant = header[c])
    BY <2>2, VisibleIsOwn DEF Inv, HandlersRunAsTheirCaller
  <2> QED BY <2>1, <2>2, <2>3, <2>4, ReadersOK
<1>5. CASE LoadIntegrationOfJob(c)
  <2> DEFINE p == rows[object[c]].parent
  <2>1. /\ object[c] \in Rows /\ object[c] \in session[c] /\ rows[object[c]] # NULL
        /\ rows[object[c]].table = "sync_jobs" /\ Visible(c, p) /\ pc[c] # "idle"
    BY <1>5 DEF LoadIntegrationOfJob, Inv, ObjectsOK
  <2>2. p \in Rows
    BY <2>1 DEF Inv, ParentsOK
  <2>3. rows[p] # NULL /\ (header[c] # NULL => rows[p].tenant = header[c])
    BY <2>1, <2>2, VisibleIsOwn DEF Inv
  <2>4. TypeOK'
    <3>1. session' \in [Chains -> SUBSET Rows]
      BY <1>5, <2>2 DEF Inv, TypeOK, LoadIntegrationOfJob
    <3> QED BY <1>5, <3>1 DEF Inv, TypeOK, LoadIntegrationOfJob
  <2>5. /\ pc'[c] = "ready" /\ session'[c] = session[c] \cup {p}
        /\ context[c] = header[c]
        /\ UNCHANGED <<tenants, rows, header, context, object>>
    BY <1>5, <2>1 DEF Inv, TypeOK, LoadIntegrationOfJob, HandlersRunAsTheirCaller
  <2>6. OthersSame
    BY <1>5 DEF Inv, TypeOK, LoadIntegrationOfJob
  <2> HIDE DEF p
  <2> QED BY <2>1, <2>3, <2>4, <2>5, <2>6, ReadersOK
<1>6. ASSUME NEW x \in Rows, NEW credentials \in SUBSET Rows, CreateIntegration(c, x, credentials)
      PROVE  Inv(D)' /\ RowsStand
  BY <1>6, CreateOK
<1>7. ASSUME NEW x \in Rows, NEW table \in {"sync_jobs", "webhooks"}, Attach(c, x, table)
      PROVE  Inv(D)' /\ RowsStand
  <2>1. {} \in SUBSET session[c] /\ table \in Tables
    BY <1>7 DEF Tables
  <2> QED BY <1>7, <2>1, ChildOK DEF Attach
<1>8. ASSUME NEW x \in Rows, TriggerIntegration(c, x)
      PROVE  Inv(D)' /\ RowsStand
  <2>1. {object[c]} \in SUBSET session[c]
    BY <1>8 DEF TriggerIntegration, Inv, ObjectsOK
  <2> QED BY <1>8, <2>1, ChildOK DEF TriggerIntegration, Tables
<1>9. CASE TriggerJob(c)
  BY <1>9, UpdateOK DEF TriggerJob
<1>10. CASE ReceiveWebhook(c)
  <2>1. {object[c]} \in SUBSET session[c]
    BY <1>10 DEF ReceiveWebhook, Inv, ObjectsOK
  <2> QED BY <1>10, <2>1, UpdateOK DEF ReceiveWebhook
<1>11. CASE Answer(c)
  BY <1>11, CloseOK DEF Answer
<1> QED
  BY <1>1, <1>2, <1>3, <1>4, <1>5, <1>6, <1>7, <1>8, <1>9, <1>10, <1>11 DEF Handle

LEMMA CrashOK ==
    ASSUME NEW D \in SUBSET Tenants, Inv(D), Crash
    PROVE  Inv(D)' /\ RowsStand
<1>1. TypeOK'
  BY DEF Inv, TypeOK, Crash, Callers
<1>2. HandlersRunAsTheirCaller' /\ ObjectsOK' /\ SessionsOwn(D)'
  BY DEF Crash, HandlersRunAsTheirCaller, ObjectsOK, SessionsOwn
<1>3. ParentsOK' /\ TenantsExist' /\ WritesOwn(D)' /\ ChildrenFit(D)'
  BY DEF Inv, Crash, ParentsOK, TenantsExist, WritesOwn, ChildrenFit
<1>4. RowsStand
  BY DEF Crash, RowsStand
<1> QED BY <1>1, <1>2, <1>3, <1>4 DEF Inv

LEMMA StutterOK ==
    ASSUME NEW D \in SUBSET Tenants, Inv(D), UNCHANGED vars
    PROVE  Inv(D)' /\ RowsStand
<1>1. TypeOK' /\ HandlersRunAsTheirCaller' /\ ObjectsOK' /\ SessionsOwn(D)'
  BY DEF Inv, vars, TypeOK, HandlersRunAsTheirCaller, ObjectsOK, SessionsOwn
<1>2. ParentsOK' /\ TenantsExist' /\ WritesOwn(D)' /\ ChildrenFit(D)'
  BY DEF Inv, vars, ParentsOK, TenantsExist, WritesOwn, ChildrenFit
<1>3. RowsStand
  BY DEF vars, RowsStand
<1> QED BY <1>1, <1>2, <1>3 DEF Inv

(* Any step of the service, whatever rows were moved before it.             *)
LEMMA NextOK ==
    ASSUME NEW D \in SUBSET Tenants, Inv(D), Next
    PROVE  Inv(D)' /\ RowsStand
BY HandleOK, CrashOK DEF Next

-----------------------------------------------------------------------------
(* The invariant holds at every moment of every behaviour, for any number   *)
(* of chains, rows and tenants: what the handlers of one tenant do, in any  *)
(* interleaving and with any reuse of contexts, stays inside the tenant.    *)
THEOREM TenantInvariance == Spec => []Inv({})
<1>1. Init => Inv({})
  BY InitOK
<1>2. Inv({}) /\ [Next]_vars => Inv({})'
  BY NextOK, StutterOK
<1> QED BY <1>1, <1>2, PTL DEF Spec

(* The variables keep their types.                                          *)
THEOREM TypeCorrect == Spec => []TypeOK
<1>1. Inv({}) => TypeOK
  BY DEF Inv
<1> QED BY <1>1, TenantInvariance, PTL

(* Between the middleware and the end of a request, the context holds the   *)
(* tenant that this request names, whatever the one before it has left.     *)
THEOREM ContextIsTheCallers == Spec => []HandlersRunAsTheirCaller
<1>1. Inv({}) => HandlersRunAsTheirCaller
  BY DEF Inv
<1> QED BY <1>1, TenantInvariance, PTL

(* No handler deletes a row, gives it to another tenant or hangs it under   *)
(* another integration.                                                     *)
THEOREM RowsStayInPlace == Spec => [][RowsStand]_vars
<1>1. Inv({}) /\ [Next]_vars => [RowsStand]_vars
  BY NextOK
<1> QED BY <1>1, TenantInvariance, PTL DEF Spec

(* A request that names a tenant only ever holds the tenant's rows.         *)
THEOREM OnlyOwnRowsAreHeld == Spec => []SessionsHoldOwnRows
<1>1. Inv({}) => SessionsHoldOwnRows
  BY DEF Inv, ObjectsOK, SessionsOwn, SessionsHoldOwnRows
<1> QED BY <1>1, TenantInvariance, PTL

(* What a request that names a tenant writes is the tenant's.               *)
THEOREM OnlyOwnRowsAreWritten == Spec => []WritesStayHome
<1>1. Inv({}) => WritesStayHome
  BY DEF Inv, WritesOwn, WritesStayHome
<1> QED BY <1>1, TenantInvariance, PTL

(* A child that has a tenant is of an integration of the same tenant.       *)
THEOREM ChildrenAreOfTheirTenant == Spec => []ChildrenFollowParents
<1>1. Inv({}) => ChildrenFollowParents
  BY DEF Inv, ChildrenFit, Fits, ChildrenFollowParents
<1> QED BY <1>1, TenantInvariance, PTL

(* The refresh after a commit finds its row, so that no request whose       *)
(* effects are committed is answered with an error by the filter.           *)
THEOREM CommittedRowsAreFound == Spec => []RefreshFindsTheRow
<1>1. Inv({}) => RefreshFindsTheRow
  <2> SUFFICES ASSUME Inv({}), NEW c \in Chains, pc[c] = "committed"
               PROVE  Visible(c, object[c])
    BY DEF RefreshFindsTheRow
  <2>1. context[c] = header[c] /\ object[c] \in session[c] /\ rows[object[c]] # NULL
    BY DEF Inv, HandlersRunAsTheirCaller, ObjectsOK
  <2> QED BY <2>1 DEF Inv, SessionsOwn, Visible
<1> QED BY <1>1, TenantInvariance, PTL
=============================================================================
