------------------------------- MODULE Service ------------------------------
(* The life of a deployment: replicas boot, serve, die and are started      *)
(* again, perhaps with another ENCRYPTION_KEY; meanwhile clients create     *)
(* integrations with their credentials, and one client pages through the    *)
(* list of active integrations.                                             *)
EXTENDS Boot, CredentialVault, Integers, FiniteSets

CONSTANTS
    Integrations,  \* numbers: an integration is named by its created_at
    Limit,         \* of a page
    MaxDrift       \* bound on the changes of the list that syncs make

ASSUME IntegrationAssumption == Integrations \subseteq Nat /\ IsFiniteSet(Integrations)
ASSUME LimitAssumption == Limit \in Nat

VARIABLES
    integrations,  \* [Integrations -> status or "none"], committed
    creating,      \* the replica whose transaction has inserted it, or NULL
    credentials,   \* [Integrations -> what is stored or NULL], committed
    key,           \* the setting ENCRYPTION_KEY of each replica, NULL before it starts
    keys_used,     \* history: the usable keys there have been
    offset, seen, known, arrivals, departures

StoredCredentials == [encrypted : BOOLEAN, content : Integrations, key : Settings]

rows   == <<integrations, creating, credentials>>
keys   == <<key, keys_used>>
paging == <<offset, seen, known, arrivals, departures>>
serviceVars == <<bootVars, rows, keys, paging>>

Active == {i \in Integrations : integrations[i] = "active"}
Client == INSTANCE Listing WITH listed <- Active

ServiceInit ==
    /\ BootInit
    /\ integrations = [i \in Integrations |-> "none"]
    /\ creating = [i \in Integrations |-> NULL]
    /\ credentials = [i \in Integrations |-> NULL]
    /\ key = [p \in Replicas |-> NULL]
    /\ keys_used = {}
    /\ Client!ListingInit

-----------------------------------------------------------------------------
(* A process reads its settings when it starts.                             *)
Restart(p) ==
    /\ Start(p)
    /\ \E setting \in Settings :
          /\ key' = [key EXCEPT ![p] = setting]
          /\ keys_used' = keys_used \cup ({setting} \cap Keys)
    /\ UNCHANGED <<rows, paging>>

Initialise(p) == BootStep(p) /\ UNCHANGED <<rows, keys, paging>>

BuryOrphans ==
    /\ OrphanedTables \/ OrphanedTemplates
    /\ UNCHANGED <<rows, keys, paging>>

(* What a replica had not committed dies with it.                           *)
Die(p) ==
    /\ Crash(p) \/ RaiseInBoot(p)
    /\ creating' = [i \in Integrations |-> IF creating[i] = p THEN NULL ELSE creating[i]]
    /\ UNCHANGED <<integrations, credentials, keys, paging>>

Serving(p) == phase[p] = "up"

(* POST /integrations/create: the flush stamps created_at, the commit makes *)
(* the row visible, later and perhaps after rows with later stamps; the     *)
(* credentials, if any, are a row of the same transaction.                  *)
Flush(p, i) ==
    /\ Serving(p)
    /\ integrations[i] = "none" /\ creating[i] = NULL
    /\ creating' = [creating EXCEPT ![i] = p]
    /\ UNCHANGED <<bootVars, integrations, credentials, keys, paging>>

CommitIntegration(p, i, with) ==
    /\ creating[i] = p
    /\ integrations' = [integrations EXCEPT ![i] = "active"]
    /\ creating' = [creating EXCEPT ![i] = NULL]
    /\ credentials' = [credentials EXCEPT ![i] =
                            IF with THEN encrypt_credentials(i, key[p]) ELSE NULL]
    /\ Client!Drift
    /\ UNCHANGED <<bootVars, keys>>

AbortIntegration(p, i) ==
    /\ creating[i] = p
    /\ creating' = [creating EXCEPT ![i] = NULL]
    /\ UNCHANGED <<bootVars, integrations, credentials, keys, paging>>

(* POST /templates/{id}/install, of any template of the catalog.            *)
InstallTemplate(p, i) ==
    /\ Serving(p)
    /\ Seeded
    /\ integrations[i] = "none" /\ creating[i] = NULL
    /\ integrations' = [integrations EXCEPT ![i] = "inactive"]
    /\ UNCHANGED <<bootVars, creating, credentials, keys, paging>>

(* A run of SyncEngine commits: the integration is active or in error.      *)
EndSync(i, status) ==
    /\ integrations[i] \notin {"none", status}
    /\ \E p \in Replicas : Serving(p)
    /\ arrivals + departures < MaxDrift
    /\ integrations' = [integrations EXCEPT ![i] = status]
    /\ Client!Drift
    /\ UNCHANGED <<bootVars, creating, credentials, keys>>

(* GET /integrations/?status=active&limit=...&offset=...                    *)
ListIntegrations ==
    /\ \E p \in Replicas : Serving(p)
    /\ UNCHANGED <<bootVars, rows, keys>>
    /\ Client!BeginPaging \/ Client!ReadPage

ServiceNext ==
    \/ \E p \in Replicas :
          \/ Restart(p) \/ Initialise(p) \/ Die(p)
          \/ \E i \in Integrations :
                \/ Flush(p, i) \/ AbortIntegration(p, i)
                \/ \E with \in BOOLEAN : CommitIntegration(p, i, with)
                \/ InstallTemplate(p, i)
    \/ BuryOrphans
    \/ \E i \in Integrations, status \in {"active", "error"} : EndSync(i, status)
    \/ ListIntegrations

ServiceSpec == ServiceInit /\ [][ServiceNext]_serviceVars

(* The container restarts whatever ended; the event loop and the database   *)
(* go on; the database finishes with the sessions of the dead.              *)
ServiceFairness ==
    /\ \A p \in Replicas : WF_serviceVars(Restart(p)) /\ WF_serviceVars(Initialise(p))
    /\ WF_serviceVars(BuryOrphans)

FairServiceSpec == ServiceSpec /\ ServiceFairness

-----------------------------------------------------------------------------
ServiceTypeOK ==
    /\ BootTypeOK
    /\ integrations \in [Integrations -> {"none", "active", "inactive", "error"}]
    /\ creating \in [Integrations -> Replicas \cup {NULL}]
    /\ credentials \in [Integrations -> StoredCredentials \cup {NULL}]
    /\ key \in [Replicas -> Settings \cup {NULL}]
    /\ keys_used \subseteq Keys
    /\ offset \in Nat /\ arrivals \in Nat /\ departures \in Nat
    /\ seen \subseteq Integrations /\ known \subseteq Active

(* As long as at most one usable key has been configured, whoever has it    *)
(* reads all the credentials there are: across crashes and restarts without *)
(* it, and also those that were stored before there was a key.              *)
CredentialsStayReadable ==
    Cardinality(keys_used) =< 1 =>
        \A i \in Integrations, p \in Replicas :
            credentials[i] # NULL /\ Serving(p) /\ key[p] \in Keys =>
                Readable(credentials[i], key[p])

PagesDriftWithTheList == Client!PagesDriftWithTheList
=============================================================================
