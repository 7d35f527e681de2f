--------------------------- MODULE CredentialVault --------------------------
(* How the credentials of an integration are stored, and what reading them  *)
(* back gives.  A key is taken from the setting ENCRYPTION_KEY at each use. *)
EXTENDS FiniteSets

CONSTANTS
    Keys,       \* settings that are valid Fernet keys
    Unusable    \* settings that are not: the empty one, a malformed one

ASSUME KeyAssumption == IsFiniteSet(Keys) /\ Keys \cap Unusable = {}

Settings == Keys \cup Unusable

(* Without a usable key the data are stored as they are, and marked so.     *)
encrypt_credentials_NoMark(data, setting) ==
    [encrypted |-> setting, content |-> data, key |-> setting]
encrypt_credentials(data, setting) ==
    [encrypted |-> setting \in Keys, content |-> data, key |-> setting]

(* What is marked as plain is returned as it is, whatever the setting.  The *)
(* rest needs the key it was encrypted with; without it, decrypt raises.    *)
Readable_MarkIgnored(stored, setting) == stored.key = setting
Readable(stored, setting) == stored.encrypted => stored.key = setting
=============================================================================
