------------------------- MODULE CredentialVault -------------------------
(***************************************************************************)
(* What the native profile promises about saved connections and their      *)
(* passwords: one store, in which a saved record and its secret change     *)
(* together.  Which physical store holds the secrets, the journals, the    *)
(* caches, crashes and failed writes are all invisible here.               *)
(***************************************************************************)

CONSTANTS
    Records,     \* identifiers of connections and bastion servers
    Forms,       \* what a saved record may say (endpoint, user, options)
    Passwords,   \* what a secret may be
    None         \* no record, or no secret

VARIABLES
    records,     \* saved metadata, by identifier
    secrets,     \* saved passwords, by identifier
    configured   \* onboarding was completed and not reset since

vaultVars == <<records, secrets, configured>>

NoSecrets == [r \in Records |-> None]

(* A password left empty in the form keeps the saved one. *)
SecretsAfterSave(s, r, p) == IF p = None THEN s ELSE [s EXCEPT ![r] = p]

(* Deleting a record deletes its secret. *)
SecretsAfterDelete(s, r) == [s EXCEPT ![r] = None]

VaultInit ==
    /\ records = [r \in Records |-> None]
    /\ secrets = NoSecrets
    /\ configured = FALSE

Configure ==
    /\ ~configured
    /\ secrets = NoSecrets
    /\ configured' = TRUE
    /\ UNCHANGED <<records, secrets>>

Save(r, f, p) ==
    /\ configured
    /\ records' = [records EXCEPT ![r] = f]
    /\ secrets' = SecretsAfterSave(secrets, r, p)
    /\ UNCHANGED configured

(* A duplicate takes the record and the secret of its source. *)
Duplicate(s, r) ==
    /\ configured
    /\ records[s] # None
    /\ records[r] = None
    /\ records' = [records EXCEPT ![r] = records[s]]
    /\ secrets' = SecretsAfterSave(secrets, r, secrets[s])
    /\ UNCHANGED configured

Delete(r) ==
    /\ configured
    /\ records[r] # None
    /\ records' = [records EXCEPT ![r] = None]
    /\ secrets' = SecretsAfterDelete(secrets, r)
    /\ UNCHANGED configured

(* A reset loses every password, keeps every record and unconfigures. *)
Reset ==
    /\ configured' = FALSE
    /\ secrets' = NoSecrets
    /\ UNCHANGED records

VaultNext ==
    \/ Configure
    \/ Reset
    \/ \E r \in Records :
        \/ \E f \in Forms, p \in Passwords \cup {None} : Save(r, f, p)
        \/ \E s \in Records : Duplicate(s, r)
        \/ Delete(r)

VaultSpec == VaultInit /\ [][VaultNext]_vaultVars
=============================================================================
