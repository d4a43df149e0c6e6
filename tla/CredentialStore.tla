------------------------- MODULE CredentialStore -------------------------
(***************************************************************************)
(* Credential storage of the native profile (backend/src/credentials/ and  *)
(* backend/src/keychain.rs).  Records live in SQLite; their passwords live *)
(* in SQLite rows (plain or encrypted) or in one OS keychain blob.  No     *)
(* transaction spans both, so every operation that writes both leaves a    *)
(* journal in SQLite first, and recovery finishes or undoes it.            *)
(*                                                                         *)
(* One mutation runs at a time: every command that starts one holds the    *)
(* lifecycle gate and the mutation lock.  Each of its writes is one action *)
(* here, so a crash, a failed write or a reader may fall between any two.  *)
(* The readers are the SSH route resolutions of native opens: they read    *)
(* the mode under the gate and the secrets after it, without any lock.     *)
(***************************************************************************)
EXTENDS Naturals

CONSTANTS
    Records, Forms, Passwords, None,   \* as in CredentialVault
    Keys,          \* keys derived from an encryption password and a new salt
    NoKey,         \* plain rows; no verifier; locked
    Readers,       \* route resolutions of concurrent opens
    Absent,        \* a cache that is not loaded, a missing entry, an error
    Cipher,        \* encrypted rows read as if they were plain text
    MaxFaults,     \* bound: failed writes and crashes in a behaviour
    OpenSpansModeChange \* may an open read before and after a mode change?

ASSUME StoreAssumption ==
    /\ None \notin Forms \cup Passwords
    /\ NoKey \notin Keys
    /\ Absent # Cipher
    /\ {Absent, Cipher} \cap [Records -> Passwords \cup {None}] = {}
    /\ MaxFaults \in Nat
    /\ OpenSpansModeChange \in BOOLEAN

VARIABLES
    db,        \* the SQLite file: settings, connections, rows, verifier
    os,        \* the OS keychain: the blob, and the connection backup entry
    mem,       \* this process: Store.cache, Context cache, session key
    op,        \* the mutation that holds the gate and the lock
    reader,    \* the lock-free readers
    current,   \* readers whose generation is still the cache's generation
    faults     \* failed writes and crashes so far

vars == <<db, os, mem, op, reader, current, faults>>

Secrets == [Records -> Passwords \cup {None}]
NoSecrets == [r \in Records |-> None]
Metadata == [Records -> Forms \cup {None}]
SqliteModes == {"plain", "encrypted"}
Modes == SqliteModes \cup {"keychain"}

Idle == [pc |-> "idle", kind |-> "none", to |-> "none", pending |-> "none",
         old |-> Absent, new |-> Absent, recs |-> Absent]
Resting == [pc |-> "idle", mode |-> "none", key |-> NoKey, got |-> Absent]
Restarted == [loaded |-> Absent, entries |-> Absent, key |-> NoKey]

Init ==
    /\ db = [mode |-> "none", onboarded |-> FALSE, rows |-> NoSecrets,
             records |-> [r \in Records |-> None], rowKey |-> NoKey,
             verifier |-> NoKey, journal |-> "none", change |-> "none"]
    /\ os = [blob |-> NoSecrets, backup |-> Absent]
    /\ mem = Restarted
    /\ op = Idle
    /\ reader = [r \in Readers |-> Resting]
    /\ current = {}
    /\ faults = 0

----------------------------------------------------------------------------
(* Reading the stores.                                                     *)

Settled == db.journal = "none" /\ db.change = "none"

(* Store::get_all: the process's copy of the blob once it has one. *)
GetAll == IF mem.loaded # Absent THEN mem.loaded ELSE os.blob

(* EncryptedSqliteBackend::read_all: each row is decrypted with the key. *)
ReadEncrypted(key) ==
    IF key = NoKey THEN Absent
    ELSE IF db.rows = NoSecrets THEN NoSecrets
    ELSE IF db.rowKey = key THEN db.rows ELSE Absent

(* PlainSqliteBackend::read_all: password_value as it is stored. *)
ReadPlain == IF db.rowKey = NoKey \/ db.rows = NoSecrets THEN db.rows ELSE Cipher

(* The backend of a mode, dispatched by backend_for. *)
ReadBackend(mode, key) ==
    CASE mode = "keychain"  -> GetAll
      [] mode = "plain"     -> ReadPlain
      [] mode = "encrypted" -> ReadEncrypted(key)

(* A load fills Store.cache when it goes to the OS. *)
Loaded(m, mode) == IF mode = "keychain" THEN [m EXCEPT !.loaded = GetAll] ELSE m

(* Every publication and invalidation moves the cache generation. *)
PublishCache(entries) ==
    /\ mem' = [mem EXCEPT !.entries = entries]
    /\ current' = {}

----------------------------------------------------------------------------
(* Mutations: each begins with its checks and reads, under gate and lock.  *)

Start(o, mode) ==
    /\ op = Idle
    /\ op' = o
    /\ mem' = Loaded(mem, mode)
    /\ UNCHANGED <<db, os, reader, current, faults>>

Unread == \A r \in Readers : reader[r].pc = "idle"

Configure(to) ==
    /\ Settled
    /\ ~db.onboarded /\ db.rows = NoSecrets /\ db.verifier = NoKey
    /\ to = "keychain" => GetAll = NoSecrets
    /\ Start([Idle EXCEPT !.pc = "commit", !.kind = "configure", !.to = to,
                          !.new = NoSecrets], to)

(* What the active backend holds, as a mutation reads it. *)
Existing == ReadBackend(db.mode, mem.key)

(* Staying in one mode is a no-op except for a new encryption password. *)
ChangeMode(to) ==
    /\ Settled
    /\ db.onboarded /\ db.mode \in Modes
    /\ db.mode = to => to = "encrypted"
    /\ OpenSpansModeChange \/ Unread
    /\ Existing # Absent
    /\ to = "keychain" => GetAll = NoSecrets
    /\ Start([Idle EXCEPT !.pc = IF to = "keychain" THEN "journal" ELSE "commit",
                          !.kind = "change", !.to = to, !.new = Existing,
                          !.pending = IF db.mode = "keychain" THEN "cleanup" ELSE "none"],
             IF to = "keychain" THEN to ELSE db.mode)

(* Mutant: the keychain is erased before the intent is journalled. *)
ResetUnjournalled ==
    /\ Settled
    /\ OpenSpansModeChange \/ Unread
    /\ Start([Idle EXCEPT !.pc = IF db.mode = "keychain" THEN "erase" ELSE "commit",
                          !.kind = "reset", !.new = NoSecrets], "none")

Reset ==
    /\ Settled
    /\ OpenSpansModeChange \/ Unread
    /\ Start([Idle EXCEPT !.pc = IF db.mode = "keychain" THEN "intend" ELSE "commit",
                          !.kind = "reset", !.new = NoSecrets], "none")

(* mutate: the change is prepared from the records and secrets read here. *)
Mutate(recs, new) ==
    Start([Idle EXCEPT !.pc = IF db.mode = "keychain" THEN "preparing" ELSE "write",
                       !.kind = "mutate", !.to = db.mode, !.old = Existing,
                       !.new = new, !.recs = recs], db.mode)

MayMutate == Settled /\ db.onboarded /\ db.mode \in Modes /\ Existing # Absent

(* An empty password in the form keeps the saved one. *)
SaveRecord(r, f, p) ==
    /\ MayMutate
    /\ Mutate([db.records EXCEPT ![r] = f],
              IF p = None THEN Existing ELSE [Existing EXCEPT ![r] = p])

(* copy_from: the copy has a new identifier and its source's secret. *)
DuplicateRecord(s, r) ==
    /\ MayMutate
    /\ db.records[s] # None /\ db.records[r] = None
    /\ Mutate([db.records EXCEPT ![r] = db.records[s]],
              IF Existing[s] = None THEN Existing ELSE [Existing EXCEPT ![r] = Existing[s]])

DeleteRecord(r) ==
    /\ MayMutate
    /\ db.records[r] # None
    /\ Mutate([db.records EXCEPT ![r] = None], [Existing EXCEPT ![r] = None])

(* recover: the connection journal first, then the transition journal. *)
Recover ==
    /\ ~Settled
    /\ Start([Idle EXCEPT !.pc = "phase", !.kind = "recover"], "none")

(* unlock: a verified password gives the verifier's key. *)
Unlock ==
    /\ op = Idle /\ Settled
    /\ db.verifier # NoKey
    /\ mem' = [mem EXCEPT !.key = db.verifier, !.entries = Absent]
    /\ current' = {}
    /\ UNCHANGED <<db, os, op, reader, faults>>
----------------------------------------------------------------------------
(* The writes of a mutation, in the order the code makes them.             *)

Then(pc) == op' = IF pc = "idle" THEN Idle ELSE [op EXCEPT !.pc = pc]

(* One SQLite statement or transaction: db becomes d. *)
Sqlite(from, d, to) ==
    /\ op.pc = from
    /\ db' = d
    /\ Then(to)
    /\ UNCHANGED <<os, mem, reader, current, faults>>

(* Store::replace_all: the OS entry, then the process's copy of it. *)
Keychain(from, blob, to) ==
    /\ op.pc = from
    /\ os' = [os EXCEPT !.blob = blob]
    /\ mem' = [mem EXCEPT !.loaded = blob]
    /\ Then(to)
    /\ UNCHANGED <<db, reader, current, faults>>

Publish(from, entries, to) ==
    /\ op.pc = from
    /\ PublishCache(entries)
    /\ Then(to)
    /\ UNCHANGED <<db, os, reader, faults>>

(* commit_configuration: rows, verifier, mode, onboarding flag and journal *)
(* in one transaction.  A new encryption key is one that nobody holds.     *)
FreshKey(key) ==
    IF op.to # "encrypted" THEN key = NoKey
    ELSE /\ key \in Keys
         /\ key \notin {db.rowKey, db.verifier, mem.key} \cup {reader[r].key : r \in Readers}

(* Mutant: the cleanup intent is not part of the transaction. *)
CommitWithoutIntent ==
    \E key \in Keys \cup {NoKey} :
        /\ FreshKey(key)
        /\ Sqlite("commit",
                  [db EXCEPT !.mode = op.to, !.onboarded = op.to # "none",
                             !.rows = IF op.to \in SqliteModes THEN op.new ELSE NoSecrets,
                             !.rowKey = key, !.verifier = key, !.journal = "none"],
                  "adopt")

CommitConfiguration ==
    \E key \in Keys \cup {NoKey} :
        /\ FreshKey(key)
        /\ Sqlite("commit",
                  [db EXCEPT !.mode = op.to, !.onboarded = op.to # "none",
                             !.rows = IF op.to \in SqliteModes THEN op.new ELSE NoSecrets,
                             !.rowKey = key, !.verifier = key, !.journal = op.pending],
                  "adopt")

(* The session key and the cache follow the commit. *)
AdoptConfiguration ==
    /\ op.pc = "adopt"
    /\ mem' = [mem EXCEPT !.key = db.verifier,
                          !.entries = IF op.to = "keychain" THEN Absent ELSE op.new]
    /\ current' = {}
    /\ Then(CASE op.kind = "change" /\ op.to = "keychain" -> "publish"
              [] op.pending = "cleanup" -> "clean"
              [] OTHER -> "idle")
    /\ UNCHANGED <<db, os, reader, faults>>

(* change_mode to the keychain: intent, staged copy, commit, publication. *)
JournalRollback == Sqlite("journal", [db EXCEPT !.journal = "rollback"], "stage")
StageKeychain == Keychain("stage", op.new, "commit")

(* finish_cleanup: the keychain is emptied before its journal goes. *)
CleanKeychain == Keychain("clean", NoSecrets, "forget")
ForgetJournal == Sqlite("forget", [db EXCEPT !.journal = "none"], "idle")

(* reset of a keychain profile: the intent is durable before any loss. *)
JournalReset == Sqlite("intend", [db EXCEPT !.journal = "reset"], "erase")
EraseKeychain == Keychain("erase", NoSecrets, "commit")

(* mutate in keychain mode: marker, backup, marker, new blob. *)
MarkPreparing == Sqlite("preparing", [db EXCEPT !.change = "preparing"], "backup")

WriteBackup ==
    /\ op.pc = "backup"
    /\ os' = [os EXCEPT !.backup = op.old]
    /\ Then("prepared")
    /\ UNCHANGED <<db, mem, reader, current, faults>>

MarkPrepared == Sqlite("prepared", [db EXCEPT !.change = "prepared"], "replace")
ReplaceSecrets == Keychain("replace", op.new, "write")

(* One transaction: the record, and the secrets or the journal phase. *)
WriteChange ==
    Sqlite("write",
           IF op.to = "keychain"
           THEN [db EXCEPT !.records = op.recs, !.change = "committed"]
           ELSE [db EXCEPT !.records = op.recs, !.rows = op.new,
                           !.rowKey = IF op.to = "encrypted" THEN mem.key ELSE NoKey],
           "publish")

(* The cache shows what was committed; a keychain change then cleans up. *)
PublishChange ==
    Publish("publish", op.new,
            IF op.kind = "mutate" /\ op.to = "keychain" THEN "clear" ELSE "idle")

(* A failed keychain write leaves the journal; the cache must not stay. *)
InvalidateUncertain == Publish("invalidate", Absent, "idle")

(* A failed record write: the keychain is rolled back before returning. *)
InvalidateFailed ==
    Publish("undo", Absent, IF op.to = "keychain" THEN "phase" ELSE "idle")
----------------------------------------------------------------------------
(* Recovery: recover_locked and finish_journal, then native::recover.      *)

AfterChange == IF op.kind = "recover" THEN "pending" ELSE "idle"

(* Mutant: a change interrupted before its backup is not finished. *)
RecoverPhaseNotPreparing ==
    /\ op.pc = "phase"
    /\ op' = CASE db.change = "none" ->
                    IF op.kind = "recover" THEN [op EXCEPT !.pc = "pending"] ELSE Idle
               [] db.change = "prepared" -> [op EXCEPT !.pc = "restore", !.old = os.backup]
               [] db.change = "preparing" -> Idle
               [] OTHER -> [op EXCEPT !.pc = "republish", !.old = GetAll]
    /\ UNCHANGED <<db, os, mem, reader, current, faults>>

(* A journal that does not fit the mode, or a missing backup, is refused. *)
RecoverPhase ==
    /\ op.pc = "phase"
    /\ op' = CASE db.change = "none" ->
                    IF op.kind = "recover" THEN [op EXCEPT !.pc = "pending"] ELSE Idle
               [] db.change = "prepared" /\ db.mode = "keychain" /\ os.backup # Absent ->
                    [op EXCEPT !.pc = "restore", !.old = os.backup]
               [] db.change \in {"preparing", "committed", "rolled-back"}
                    /\ db.mode = "keychain" ->
                    [op EXCEPT !.pc = "republish", !.old = GetAll]
               [] OTHER -> Idle
    /\ mem' = IF db.change \in {"preparing", "committed", "rolled-back"}
              THEN Loaded(mem, db.mode) ELSE mem
    /\ UNCHANGED <<db, os, reader, current, faults>>

RestoreBackup == Keychain("restore", op.old, "republish")

RepublishSecrets ==
    Publish("republish", op.old, IF db.change = "prepared" THEN "rolledback" ELSE "clear")

MarkRolledBack == Sqlite("rolledback", [db EXCEPT !.change = "rolled-back"], "clear")

ClearBackup ==
    /\ op.pc = "clear"
    /\ os' = [os EXCEPT !.backup = Absent]
    /\ Then("unmark")
    /\ UNCHANGED <<db, mem, reader, current, faults>>

FinishJournal == Sqlite("unmark", [db EXCEPT !.change = "none"], AfterChange)

RecoverPending ==
    /\ op.pc = "pending"
    /\ op' = CASE db.journal \in {"rollback", "cleanup"} /\ db.mode \in SqliteModes ->
                    [op EXCEPT !.pc = "clean"]
               [] db.journal = "reset" /\ db.mode = "keychain" ->
                    [op EXCEPT !.pc = "erase", !.new = NoSecrets]
               [] OTHER -> Idle
    /\ UNCHANGED <<db, os, mem, reader, current, faults>>

----------------------------------------------------------------------------
(* Failures.  A failed SQLite write has no effect; a failed keychain write *)
(* may have had its effect (the OS outcome may be uncertain).              *)

Fault == faults < MaxFaults /\ faults' = faults + 1

SqliteFails ==
    /\ Fault
    /\ \/ /\ op.pc \in {"commit", "journal", "forget", "intend", "preparing",
                        "prepared", "rolledback", "unmark", "phase", "pending"}
          /\ Then("idle")
       \/ /\ op.pc = "write"
          /\ Then("undo")
    /\ UNCHANGED <<db, os, mem, reader, current>>

(* What the failing call was about to make of the keychain. *)
Intended ==
    CASE op.pc = "backup" -> [os EXCEPT !.backup = op.old]
      [] op.pc = "clear" -> [os EXCEPT !.backup = Absent]
      [] op.pc \in {"stage", "replace"} -> [os EXCEPT !.blob = op.new]
      [] op.pc \in {"clean", "erase"} -> [os EXCEPT !.blob = NoSecrets]
      [] op.pc = "restore" -> [os EXCEPT !.blob = op.old]

KeychainFails ==
    /\ Fault
    /\ op.pc \in {"backup", "clear", "stage", "replace", "clean", "erase", "restore"}
    /\ os' \in {os, Intended}
    /\ Then(IF op.pc = "replace" THEN "invalidate" ELSE "idle")
    /\ UNCHANGED <<db, mem, reader, current>>

(* The process dies and is started again: only the two stores survive. *)
Crash ==
    /\ Fault
    /\ op' = Idle
    /\ mem' = Restarted
    /\ reader' = [r \in Readers |-> Resting]
    /\ current' = {}
    /\ UNCHANGED <<db, os>>

----------------------------------------------------------------------------
(* Readers: read_all_cached, from an open that keeps the mode it read.     *)

Read(r, pc) ==
    reader' = [reader EXCEPT ![r] = IF pc = "idle" THEN Resting ELSE [@ EXCEPT !.pc = pc]]

(* admission_snapshot, under the gate: the mode, and the cache filled. *)
Snapshot(r) ==
    /\ reader[r].pc = "idle"
    /\ op = Idle /\ Settled
    /\ db.mode \in Modes
    /\ mem.entries = Absent => Existing # Absent
    /\ reader' = [reader EXCEPT ![r] = [Resting EXCEPT !.pc = "resolve", !.mode = db.mode]]
    /\ mem' = IF mem.entries # Absent THEN mem
              ELSE [Loaded(mem, db.mode) EXCEPT !.entries = Existing]
    /\ UNCHANGED <<db, os, op, current, faults>>

(* The first ensure_settled. *)
Resolve(r) ==
    /\ reader[r].pc = "resolve"
    /\ Read(r, IF Settled THEN "lookup" ELSE "idle")
    /\ UNCHANGED <<db, os, mem, op, current, faults>>

(* Context::cached: the entries, or the generation a load must match. *)
Lookup(r) ==
    /\ reader[r].pc = "lookup"
    /\ IF mem.entries # Absent
       THEN Read(r, "idle") /\ UNCHANGED current
       ELSE Read(r, "recheck") /\ current' = current \cup {r}
    /\ UNCHANGED <<db, os, mem, op, faults>>

(* read_all: ensure_settled again, then the backend with the key of now. *)
Recheck(r) ==
    /\ reader[r].pc = "recheck"
    /\ IF Settled
       THEN reader' = [reader EXCEPT ![r].pc = "load", ![r].key = mem.key]
       ELSE Read(r, "idle")
    /\ UNCHANGED <<db, os, mem, op, current, faults>>

Load(r) ==
    LET got == ReadBackend(reader[r].mode, reader[r].key)
    IN  /\ reader[r].pc = "load"
        /\ IF got = Absent THEN Read(r, "idle")
           ELSE reader' = [reader EXCEPT ![r].pc = "fill", ![r].got = got]
        /\ mem' = Loaded(mem, reader[r].mode)
        /\ UNCHANGED <<db, os, op, current, faults>>

(* Mutant: the generation is not compared. *)
FillCacheAnyGeneration(r) ==
    /\ reader[r].pc = "fill"
    /\ mem' = [mem EXCEPT !.entries = reader[r].got]
    /\ Read(r, "idle")
    /\ current' = current \ {r}
    /\ UNCHANGED <<db, os, op, faults>>

(* Context::fill_cache: only into the generation the load started from. *)
FillCache(r) ==
    /\ reader[r].pc = "fill"
    /\ mem' = IF r \in current /\ mem.entries = Absent
              THEN [mem EXCEPT !.entries = reader[r].got] ELSE mem
    /\ Read(r, "idle")
    /\ current' = current \ {r}
    /\ UNCHANGED <<db, os, op, faults>>

----------------------------------------------------------------------------
Begin ==
    \/ \E to \in Modes : Configure(to) \/ ChangeMode(to)
    \/ Reset
    \/ Unlock
    \/ \E r \in Records :
        \/ \E f \in Forms, p \in Passwords \cup {None} : SaveRecord(r, f, p)
        \/ \E s \in Records : DuplicateRecord(s, r)
        \/ DeleteRecord(r)

(* The next write of the mutation in progress. *)
Proceed ==
    \/ CommitConfiguration \/ AdoptConfiguration
    \/ JournalRollback \/ StageKeychain \/ CleanKeychain \/ ForgetJournal
    \/ JournalReset \/ EraseKeychain
    \/ MarkPreparing \/ WriteBackup \/ MarkPrepared \/ ReplaceSecrets
    \/ WriteChange \/ PublishChange \/ InvalidateUncertain \/ InvalidateFailed
    \/ RecoverPhase \/ RestoreBackup \/ RepublishSecrets \/ MarkRolledBack
    \/ ClearBackup \/ FinishJournal \/ RecoverPending

Reading(r) ==
    Snapshot(r) \/ Resolve(r) \/ Lookup(r) \/ Recheck(r) \/ Load(r) \/ FillCache(r)

Next ==
    \/ Begin \/ Recover \/ Proceed
    \/ SqliteFails \/ KeychainFails \/ Crash
    \/ \E r \in Readers : Reading(r)

Spec == Init /\ [][Next]_vars

(* A mutation in progress runs on, and the user asks for recovery as long  *)
(* as the profile needs it.                                                *)
FairSpec == Spec /\ WF_vars(Proceed) /\ WF_vars(Recover)
----------------------------------------------------------------------------
(* Properties.                                                             *)

Phases == {"none", "preparing", "prepared", "committed", "rolled-back"}
Journals == {"none", "rollback", "cleanup", "reset"}
Entries == Secrets \cup {Absent, Cipher}
Pcs == {"idle", "commit", "adopt", "journal", "stage", "clean", "forget", "intend",
        "erase", "preparing", "backup", "prepared", "replace", "write", "publish",
        "invalidate", "undo", "phase", "restore", "republish", "rolledback",
        "clear", "unmark", "pending"}

Databases ==
    [mode : Modes \cup {"none"}, onboarded : BOOLEAN, rows : Secrets, records : Metadata,
     rowKey : Keys \cup {NoKey}, verifier : Keys \cup {NoKey},
     journal : Journals, change : Phases]
Processes ==
    [loaded : Secrets \cup {Absent}, entries : Entries, key : Keys \cup {NoKey}]
Mutations ==
    [pc : Pcs, kind : {"none", "configure", "change", "reset", "mutate", "recover"},
     to : Modes \cup {"none"}, pending : {"none", "cleanup"},
     old : Secrets \cup {Absent}, new : Secrets \cup {Absent},
     recs : Metadata \cup {Absent}]
Resolutions ==
    [pc : {"idle", "resolve", "lookup", "recheck", "load", "fill"},
     mode : Modes \cup {"none"}, key : Keys \cup {NoKey}, got : Entries]

(* Every variable has its type. *)
TypeOK ==
    /\ db \in Databases
    /\ os \in [blob : Secrets, backup : Secrets \cup {Absent}]
    /\ mem \in Processes
    /\ op \in Mutations
    /\ reader \in [Readers -> Resolutions]
    /\ current \subseteq Readers
    /\ faults \in 0..MaxFaults

(* The secrets the profile will come back with, whatever it is doing: the  *)
(* active store, the backup of a change that is not committed, nothing     *)
(* once a reset is admitted.                                               *)
Authority ==
    IF db.mode # "keychain" THEN db.rows
    ELSE IF db.journal = "reset" THEN NoSecrets
    ELSE IF db.change = "prepared" THEN os.backup
    ELSE os.blob

Vault == INSTANCE CredentialVault
            WITH records <- db.records, secrets <- Authority,
                 configured <- db.onboarded /\ db.journal # "reset"

(* However writes fail and wherever the process dies, the two stores show  *)
(* one vault: a record and its secret change together or not at all, and   *)
(* a change of storage mode loses and changes nothing.                     *)
VaultKept == Vault!VaultSpec

(* Recovery never meets the state it refuses ("profile preserved"): a      *)
(* journal fits the storage mode, at most one is pending, and a change to  *)
(* roll back still has its backup (recover, recover_locked).               *)
RecoveryNeverRefuses ==
    /\ db.change # "none" => db.mode = "keychain" /\ db.journal = "none"
    /\ db.change = "prepared" => os.backup # Absent
    /\ db.journal \in {"rollback", "cleanup"} => db.mode \in SqliteModes
    /\ db.journal = "reset" => db.mode = "keychain"

(* A settled profile keeps secrets in one place: the store that is not     *)
(* selected is empty and no backup entry is left behind.                   *)
InactiveStoreEmpty ==
    Settled /\ op = Idle =>
        /\ db.mode # "keychain" => os.blob = NoSecrets
        /\ db.mode \notin SqliteModes => db.rows = NoSecrets /\ db.verifier = NoKey
        /\ os.backup = Absent

(* The rows are always under the verifier's key, and a session key that    *)
(* the process holds is that key, so an unlocked profile can read its rows *)
(* (commit_configuration, mutate, unlock).                                 *)
KeyOpensRows ==
    /\ db.rowKey = db.verifier
    /\ db.mode = "encrypted" <=> db.verifier # NoKey
    /\ op.pc # "adopt" => mem.key \in {NoKey, db.verifier}

(* A record that was deleted leaves no secret behind. *)
NoOrphanSecret ==
    \A r \in Records : db.records[r] = None => Authority[r] = None

(* When nothing is in progress, Store.cache is what the OS holds, also     *)
(* after writes whose outcome was uncertain.                               *)
BlobCacheTrue ==
    Settled /\ op = Idle => mem.loaded \in {Absent, os.blob}

(* What the profile may rely on between any two writes, faults included: a *)
(* journal recovery can act on, secrets in one place, rows its key opens,  *)
(* no secret without a record, and a true keychain cache.                  *)
StoreInv ==
    /\ TypeOK
    /\ RecoveryNeverRefuses
    /\ InactiveStoreEmpty
    /\ KeyOpensRows
    /\ NoOrphanSecret
    /\ BlobCacheTrue

(* When nothing is in progress, the decoded cache is not loaded or holds   *)
(* the secrets of the active store: "a stale load is returned to this      *)
(* caller only and never published to the shared cache".                   *)
CacheFresh ==
    Settled /\ op = Idle => mem.entries \in {Absent, Authority}

(* A profile that needs recovery is settled again once writes stop failing *)
(* and the user keeps asking ("Repeating after denial or interruption is   *)
(* safe").                                                                 *)
RecoverySettles == ~Settled ~> Settled
============================================================================
