----------------------------- MODULE TenantScope -----------------------------
(* Tenant scoping: the middleware that gives each request the tenant it     *)
(* names, the filter that scopes every SELECT to it, and the stamp that new *)
(* rows get from it, under all the handlers that read or write rows.        *)
(*                                                                          *)
(* A chain is a sequence of requests that are served one after the other in *)
(* one context: what a request leaves in the context variable, the next one *)
(* finds there.  A request whose X-Tenant-ID is not a UUID is answered 400  *)
(* before anything is set and changes nothing here.                         *)
(*                                                                          *)
(* An operator named Action_Change is Action with one plausible bug; no     *)
(* specification uses it.  PROJECT.json says which property each one breaks.*)
EXTENDS Integers, FiniteSets

CONSTANTS
    Rows,      \* identities the database may hand out, for all the tables
    Tenants,   \* tenants that may exist
    Strangers, \* tenants that a header may name and that do not exist
    Chains,    \* context chains, each serving one request at a time
    NULL       \* no tenant, no header, no such row

ASSUME NullAssumption == NULL \notin Rows \cup Tenants \cup Strangers
ASSUME StrangersAssumption == Strangers \cap Tenants = {}

VARIABLES
    tenants,   \* the table of tenants, as the set of those in it
    rows,      \* the committed rows of the tables that have a tenant column
    pc, header,
    context,   \* tenant_context in each chain
    session,   \* the rows that each request has loaded or inserted
    object     \* of these, the one its handler is about

vars == <<tenants, rows, pc, header, context, session, object>>

Tables == {"credentials", "integrations", "sync_jobs", "webhooks"}
Callers == Tenants \cup Strangers \cup {NULL}

(* writer is history: what the request that last wrote the row named.       *)
Row == [table : Tables, parent : Rows \cup {NULL},
        tenant : Tenants \cup {NULL}, writer : Tenants \cup {NULL}]

ASSUME NullIsNoRow == NULL \notin Row

Init ==
    /\ tenants \in SUBSET Tenants
    /\ rows = [x \in Rows |-> NULL]
    /\ pc = [c \in Chains |-> "idle"]
    /\ header = [c \in Chains |-> NULL]
    /\ context = [c \in Chains |-> NULL]
    /\ session = [c \in Chains |-> {}]
    /\ object = [c \in Chains |-> NULL]

-----------------------------------------------------------------------------
(* The middleware, the filter, and the stamp.                               *)

SetContext_NeverClears(old, h) == IF h = NULL THEN old ELSE h
SetContext(old, h) == h

Enter(c, h) ==
    /\ pc[c] = "idle"
    /\ pc'      = [pc EXCEPT ![c] = "handler"]
    /\ header'  = [header EXCEPT ![c] = h]
    /\ context' = [context EXCEPT ![c] = SetContext(@, h)]
    /\ UNCHANGED <<tenants, rows, session, object>>

(* _apply_tenant_filtering: no context, no filter.                          *)
Visible_OrUnowned(c, x) ==
    rows[x] # NULL /\ (context[c] = NULL \/ rows[x].tenant \in {context[c], NULL})
Visible(c, x) ==
    rows[x] # NULL /\ (context[c] = NULL \/ rows[x].tenant = context[c])

(* A row as a handler creates it, with apply_tenant_context.                *)
NewRow_Unstamped(c, table, parent) ==
    [table |-> table, parent |-> parent, tenant |-> NULL, writer |-> header[c]]
NewRow(c, table, parent) ==
    [table |-> table, parent |-> parent, tenant |-> context[c], writer |-> header[c]]

(* tenant_id refers to the table of tenants.                                *)
MayInsert_NoReference(c) == TRUE
MayInsert(c) == context[c] \in tenants \cup {NULL}

-----------------------------------------------------------------------------
(* The handlers: load, write and commit, refresh.                           *)

Close(c) ==
    /\ pc'      = [pc EXCEPT ![c] = "idle"]
    /\ session' = [session EXCEPT ![c] = {}]
    /\ object'  = [object EXCEPT ![c] = NULL]

(* 404, a read-only answer, a failed insertion, a failed statement, a client*)
(* that goes away: the request ends and nothing of it is committed.         *)
End(c) ==
    /\ pc[c] # "idle"
    /\ Close(c)
    /\ UNCHANGED <<tenants, rows, header, context>>

(* db.get, or a SELECT for one row; no handler loads credentials.           *)
Load(c, x) ==
    /\ pc[c] = "handler"
    /\ Visible(c, x) /\ rows[x].table # "credentials"
    /\ pc'      = [pc EXCEPT ![c] = "loaded"]
    /\ session' = [session EXCEPT ![c] = {x}]
    /\ object'  = [object EXCEPT ![c] = x]
    /\ UNCHANGED <<tenants, rows, header, context>>

List(c, table) ==
    /\ pc[c] = "handler"
    /\ pc'      = [pc EXCEPT ![c] = "listed"]
    /\ session' = [session EXCEPT ![c] = {x \in Rows : Visible(c, x) /\ rows[x].table = table}]
    /\ UNCHANGED <<tenants, rows, header, context, object>>

LoadIntegrationOfJob(c) ==
    /\ pc[c] = "loaded" /\ rows[object[c]].table = "sync_jobs"
    /\ Visible(c, rows[object[c]].parent)
    /\ pc'      = [pc EXCEPT ![c] = "ready"]
    /\ session' = [session EXCEPT ![c] = @ \cup {rows[object[c]].parent}]
    /\ UNCHANGED <<tenants, rows, header, context, object>>

(* The transaction inserts the rows of new, updates those of its session in *)
(* updated, and commits; the handler is about x from here on.               *)
Commit(c, x, new, updated) ==
    /\ rows' = [y \in Rows |->
           IF y \in DOMAIN new THEN new[y]
           ELSE IF y \in updated THEN [rows[y] EXCEPT !.writer = header[c]]
           ELSE rows[y]]
    /\ pc'      = [pc EXCEPT ![c] = "committed"]
    /\ session' = [session EXCEPT ![c] = @ \cup DOMAIN new]
    /\ object'  = [object EXCEPT ![c] = x]
    /\ UNCHANGED <<tenants, header, context>>

Free(x) == rows[x] = NULL

(* Creation, with or without credentials, and installation of a template.   *)
CreateIntegration(c, x, credentials) ==
    /\ pc[c] = "handler" /\ MayInsert(c)
    /\ \A y \in {x} \cup credentials : Free(y)
    /\ x \notin credentials /\ Cardinality(credentials) =< 1
    /\ Commit(c, x, [y \in {x} \cup credentials |->
                         IF y = x THEN NewRow(c, "integrations", NULL)
                                  ELSE NewRow(c, "credentials", x)], {})

(* POST /sync/configure and POST /webhooks/.                                *)
Attach(c, x, table) ==
    /\ pc[c] = "loaded" /\ rows[object[c]].table = "integrations"
    /\ Free(x) /\ MayInsert(c)
    /\ Commit(c, x, [y \in {x} |-> NewRow(c, table, object[c])], {})

(* POST /integrations/{id}/sync.                                            *)
TriggerIntegration(c, x) ==
    /\ pc[c] = "loaded" /\ rows[object[c]].table = "integrations"
    /\ Free(x) /\ MayInsert(c)
    /\ Commit(c, x, [y \in {x} |-> NewRow(c, "sync_jobs", object[c])], {object[c]})

(* POST /sync/{id}/trigger.                                                 *)
TriggerJob(c) ==
    /\ pc[c] = "ready"
    /\ Commit(c, object[c], [y \in {} |-> NULL], session[c])

(* POST /webhooks/{integration_id}.                                         *)
ReceiveWebhook(c) ==
    /\ pc[c] = "loaded" /\ rows[object[c]].table = "webhooks"
    /\ Commit(c, object[c], [y \in {} |-> NULL], {object[c]})

(* db.refresh and the answer; a row that the filter hides is a 500.         *)
Answer(c) ==
    /\ pc[c] = "committed"
    /\ Close(c)
    /\ UNCHANGED <<tenants, rows, header, context>>

(* The process is restarted, with new contexts.                             *)
Crash ==
    /\ \E c \in Chains : pc[c] # "idle"
    /\ pc' = [c \in Chains |-> "idle"]
    /\ context' = [c \in Chains |-> NULL]
    /\ session' = [c \in Chains |-> {}]
    /\ object' = [c \in Chains |-> NULL]
    /\ UNCHANGED <<tenants, rows, header>>

Handle(c) ==
    \/ \E h \in Callers : Enter(c, h)
    \/ End(c)
    \/ \E x \in Rows : Load(c, x)
    \/ \E table \in Tables \ {"credentials"} : List(c, table)
    \/ LoadIntegrationOfJob(c)
    \/ \E x \in Rows, credentials \in SUBSET Rows : CreateIntegration(c, x, credentials)
    \/ \E x \in Rows, table \in {"sync_jobs", "webhooks"} : Attach(c, x, table)
    \/ \E x \in Rows : TriggerIntegration(c, x)
    \/ TriggerJob(c)
    \/ ReceiveWebhook(c)
    \/ Answer(c)

Next == (\E c \in Chains : Handle(c)) \/ Crash

Spec == Init /\ [][Next]_vars

-----------------------------------------------------------------------------
(* Properties.                                                              *)

TypeOK ==
    /\ tenants \subseteq Tenants
    /\ rows \in [Rows -> Row \cup {NULL}]
    /\ pc \in [Chains -> {"idle", "handler", "loaded", "listed", "ready", "committed"}]
    /\ header \in [Chains -> Callers]
    /\ context \in [Chains -> Callers]
    /\ session \in [Chains -> SUBSET Rows]
    /\ object \in [Chains -> Rows \cup {NULL}]

(* A handler runs as the caller that its own request names, whatever the    *)
(* request before it left in the context.                                   *)
HandlersRunAsTheirCaller == \A c \in Chains : pc[c] # "idle" => context[c] = header[c]

(* A request that names a tenant is never shown, and never works on, a row  *)
(* that is another tenant's or nobody's.                                    *)
SessionsHoldOwnRows ==
    \A c \in Chains : header[c] # NULL =>
        \A x \in session[c] : rows[x] # NULL /\ rows[x].tenant = header[c]

(* What a request that names a tenant writes is the tenant's: rows that it  *)
(* creates and rows that it updates, through whatever other row it came.    *)
WritesStayHome ==
    \A x \in Rows : rows[x] # NULL /\ rows[x].writer # NULL =>
        rows[x].tenant = rows[x].writer

(* A job, webhook or credential that has a tenant belongs to an integration *)
(* of the same tenant, so whoever may see it may run it.                    *)
ChildrenFollowParents ==
    \A x \in Rows : rows[x] # NULL /\ rows[x].parent # NULL =>
        /\ rows[rows[x].parent] # NULL
        /\ rows[rows[x].parent].table = "integrations"
        /\ rows[x].tenant # NULL => rows[rows[x].parent].tenant = rows[x].tenant

(* The refresh after a commit finds the row that was committed.             *)
RefreshFindsTheRow == \A c \in Chains : pc[c] = "committed" => Visible(c, object[c])
=============================================================================
