---------------------- MODULE CredentialStoreProofs ----------------------
(***************************************************************************)
(* Proofs about CredentialStore, for any records, secrets, keys, readers   *)
(* and any number of faults.                                               *)
(***************************************************************************)
EXTENDS CredentialStore, TLAPS

----------------------------------------------------------------------------
(* The inductive invariant.                                                *)

(* Between any two writes the two stores fit each other and the journals.  *)
StoresFit ==
    /\ db.onboarded <=> db.mode # "none"
    /\ db.mode \notin SqliteModes => db.rows = NoSecrets
    /\ db.mode # "keychain" /\ db.journal = "none" => os.blob = NoSecrets
    /\ db.change = "none" => os.backup = Absent

(* Store.cache is the blob, except after keychain writes that a journal    *)
(* still has to settle.                                                    *)
BlobLoaded ==
    db.journal = "none" /\ db.change # "prepared" => mem.loaded \in {Absent, os.blob}

(* A keychain write that succeeded leaves blob and Store.cache alike. *)
Written(blob) == os.blob = blob /\ mem.loaded = blob

(* What mutate was asked to make of the records and secrets it read. *)
MutationOf(records, old, recs, new) ==
    \E r \in Records :
        \/ \E f \in Forms, p \in Passwords \cup {None} :
              /\ recs = [records EXCEPT ![r] = f]
              /\ new = IF p = None THEN old ELSE [old EXCEPT ![r] = p]
        \/ \E s \in Records :
              /\ records[s] # None /\ records[r] = None
              /\ recs = [records EXCEPT ![r] = records[s]]
              /\ new = IF old[s] = None THEN old ELSE [old EXCEPT ![r] = old[s]]
        \/ /\ records[r] # None
           /\ recs = [records EXCEPT ![r] = None]
           /\ new = [old EXCEPT ![r] = None]

(* A configuration, mode change or reset, by where it is. *)
ConfigureInv ==
    /\ op.pc = "journal" =>
        /\ op.kind = "change" /\ op.to = "keychain" /\ op.pending = "none"
        /\ Settled /\ db.mode \in SqliteModes /\ op.new = db.rows
    /\ op.pc = "stage" =>
        /\ op.kind = "change" /\ op.to = "keychain" /\ op.pending = "none"
        /\ db.journal = "rollback" /\ op.new = db.rows
    /\ op.pc = "intend" =>
        op.kind = "reset" /\ Settled /\ db.mode = "keychain"
    /\ op.pc \in {"intend", "erase"} =>
        op.to = "none" /\ op.pending = "none" /\ op.new = NoSecrets
    /\ op.pc = "erase" =>
        op.kind \in {"reset", "recover"} /\ db.journal = "reset"
    /\ op.pc \in {"clean", "forget"} =>
        op.kind \in {"change", "recover"} /\ db.journal \in {"rollback", "cleanup"}
    /\ op.pc = "forget" => Written(NoSecrets)

(* What commit_configuration is about to make durable. *)
CommitInv ==
    op.pc = "commit" =>
        /\ op.kind \in {"configure", "change", "reset", "recover"}
        /\ op.pending = IF op.kind = "change" /\ db.mode = "keychain" THEN "cleanup" ELSE "none"
        /\ \/ op.kind = "configure" /\ op.to \in Modes
              /\ Settled /\ db.mode = "none" /\ op.new = NoSecrets
           \/ op.kind = "change" /\ op.to \in SqliteModes
              /\ Settled /\ db.mode \in Modes /\ op.new = Authority
           \/ op.kind = "change" /\ op.to = "keychain"
              /\ db.journal = "rollback" /\ op.new = db.rows /\ Written(op.new)
           \/ op.kind = "reset" /\ op.to = "none"
              /\ Settled /\ db.mode # "keychain" /\ op.new = NoSecrets
           \/ op.kind \in {"reset", "recover"} /\ op.to = "none"
              /\ db.journal = "reset" /\ op.new = NoSecrets /\ Written(NoSecrets)

(* What it has made durable, before the process follows. *)
AdoptInv ==
    op.pc = "adopt" =>
        /\ op.kind \in {"configure", "change", "reset", "recover"}
        /\ db.mode = op.to /\ db.change = "none" /\ db.journal = op.pending
        /\ op.new = Authority
        /\ op.pending = "cleanup" => op.kind = "change" /\ op.to \in SqliteModes

(* A record change, by where it is. *)
ChangePcs == {"preparing", "backup", "prepared", "replace"}

MutateInv ==
    /\ op.pc \in ChangePcs \cup {"write"} =>
        /\ op.kind = "mutate" /\ op.to = db.mode /\ db.mode \in Modes
        /\ op.old = Authority /\ op.new \in Secrets
        /\ MutationOf(db.records, op.old, op.recs, op.new)
    /\ op.pc \in ChangePcs => op.to = "keychain"
    /\ op.pc \in {"replace", "invalidate"} => db.change = "prepared"
    /\ op.pc = "preparing" => Settled
    /\ op.pc \in {"backup", "prepared"} => db.change = "preparing"
    /\ op.pc = "prepared" => os.backup = op.old
    /\ op.pc = "replace" => os.blob = op.old
    /\ op.pc \in {"write", "undo"} =>
        /\ op.kind = "mutate" /\ op.to = db.mode
        /\ IF op.to = "keychain" THEN db.change = "prepared" /\ mem.loaded = os.blob
           ELSE Settled
    /\ op.pc = "write" /\ op.to = "keychain" => os.blob = op.new
    /\ op.pc = "write" /\ op.to = "encrypted" => mem.key = db.verifier
    /\ op.pc = "publish" =>
        /\ op.kind \in {"mutate", "change"}
        /\ op.new = Authority /\ db.mode = op.to /\ db.journal = "none"
        /\ db.change = IF op.kind = "mutate" /\ op.to = "keychain" THEN "committed" ELSE "none"

(* A recovery, by where it is. *)
RecoverInv ==
    /\ op.pc \in {"phase", "restore", "republish", "rolledback", "clear", "unmark"} =>
        \/ op.kind = "recover"
        \/ op.kind = "mutate" /\ db.change # "none"
    /\ op.pc \in {"restore", "rolledback"} => db.change = "prepared"
    /\ op.pc = "restore" => op.old = os.backup
    /\ op.pc = "republish" => db.change # "none" /\ op.old = os.blob /\ op.old = Authority
    /\ op.pc = "republish" /\ db.change = "prepared" => mem.loaded = os.blob
    /\ op.pc = "rolledback" => mem.loaded = os.blob /\ os.blob = os.backup
    /\ op.pc \in {"clear", "unmark"} => db.change \in {"preparing", "committed", "rolled-back"}
    /\ op.pc = "unmark" => os.backup = Absent
    /\ op.pc = "pending" => op.kind = "recover" /\ db.change = "none"
    /\ op.kind = "recover" /\ op.pc # "adopt" =>
        op.to = "none" /\ op.pending = "none"

OpIdle == op.pc = "idle" => op = Idle

(* The profile between any two writes. *)
ShapeInv ==
    /\ RecoveryNeverRefuses
    /\ KeyOpensRows
    /\ NoOrphanSecret
    /\ StoresFit
    /\ BlobLoaded

PlaceInv == OpIdle /\ ConfigureInv /\ CommitInv /\ AdoptInv /\ MutateInv /\ RecoverInv

(* An open that reads has the mode its snapshot was admitted with. *)
OpenModes == \A r \in Readers : reader[r].pc # "idle" => reader[r].mode \in Modes

ProfileInv == TypeOK /\ ShapeInv /\ PlaceInv /\ OpenModes

----------------------------------------------------------------------------
(* No reader is on its way while the mode changes, a mode journal is       *)
(* pending or there is no mode (OpenSpansModeChange = FALSE).              *)
ModeMoving ==
    \/ op.kind \in {"configure", "change", "reset"} \/ op.pc = "adopt"
    \/ db.journal # "none" \/ db.mode = "none"

ReadersFollow ==
    /\ ModeMoving => Unread
    /\ \A r \in Readers : reader[r].pc # "idle" =>
          reader[r].mode = db.mode /\ reader[r].key \in {NoKey, db.verifier}

(* The states in which the shared cache is about to be replaced. *)
Replacing ==
    \/ op.pc \in {"adopt", "publish"}
    \/ db.change = "prepared" /\ op.pc \in {"write", "undo", "invalidate"}

(* Otherwise the cache is not loaded or true, and so is what a load that   *)
(* may still be published has read.                                        *)
CacheTrue ==
    ~Replacing /\ db.journal # "reset" =>
        /\ mem.entries \in {Absent, Authority}
        /\ \A r \in current : reader[r].pc = "fill" => reader[r].got = Authority

(* A change that will be rolled back has no load left that may publish. *)
NoLoadAcrossRollback ==
    db.change = "prepared" /\ op.pc \notin {"replace", "write", "undo", "invalidate"} =>
        \A r \in current : reader[r].pc \notin {"load", "fill"}

CacheInv ==
    /\ ReadersFollow
    /\ CacheTrue
    /\ NoLoadAcrossRollback
    /\ op.pc = "replace" => mem.loaded \in {Absent, os.blob}

----------------------------------------------------------------------------
(* The values that stand for "nothing" are no secrets and no keys. *)
LEMMA Values ==
    /\ NoSecrets \in Secrets
    /\ Absent \notin Secrets /\ Cipher \notin Secrets /\ Absent # Cipher
    /\ NoKey \notin Keys
    /\ \A r \in Records : NoSecrets[r] = None
  BY StoreAssumption DEF NoSecrets, Secrets

(* The profile always has an authoritative set of secrets. *)
LEMMA AuthorityType == ProfileInv => Authority \in Secrets
  BY Values DEF ProfileInv, ShapeInv, PlaceInv, TypeOK, RecoveryNeverRefuses, Authority, Databases

(* What a mutation reads before it starts is what the profile holds. *)
LEMMA ExistingIsAuthority ==
    ProfileInv /\ Settled /\ op.pc = "idle" /\ db.mode \in Modes /\ Existing # Absent
        => /\ Existing = Authority /\ Existing \in Secrets
           /\ db.mode = "encrypted" => mem.key = db.verifier
  BY Values DEF ProfileInv, ShapeInv, PlaceInv, TypeOK, KeyOpensRows, BlobLoaded, Existing, ReadBackend, ReadPlain,
     ReadEncrypted, GetAll, Authority, Settled, Modes, SqliteModes, Databases, Processes

(* A fresh profile satisfies the invariant. *)
LEMMA ProfileInit == Init => ProfileInv
  BY Values, StoreAssumption DEF Init, ProfileInv, ShapeInv, PlaceInv, TypeOK, RecoveryNeverRefuses, KeyOpensRows,
     NoOrphanSecret, StoresFit, BlobLoaded, OpIdle, ConfigureInv, CommitInv, AdoptInv, MutateInv,
     RecoverInv, Authority, Settled, ChangePcs, SqliteModes, Modes, Phases, Journals, Pcs, Entries,
     Idle, Resting, Restarted, Metadata, Databases, Processes, Mutations, Resolutions, OpenModes

----------------------------------------------------------------------------
(* Types of the parts an action updates.                                   *)

(* Then moves the mutation on and changes nothing else of it. *)
LEMMA ThenType ==
    ASSUME op \in Mutations, NEW pc \in Pcs, Then(pc)
    PROVE  /\ op' \in Mutations
           /\ op'.pc = pc
           /\ pc # "idle" => /\ op'.kind = op.kind /\ op'.to = op.to /\ op'.pending = op.pending
                             /\ op'.old = op.old /\ op'.new = op.new /\ op'.recs = op.recs
           /\ pc = "idle" => op' = Idle
  BY DEF Then, Mutations, Idle, Pcs, Modes, SqliteModes

(* A publication replaces the decoded cache only. *)
LEMMA PublishType ==
    ASSUME mem \in Processes, NEW entries \in Entries, PublishCache(entries)
    PROVE  /\ mem' \in Processes /\ current' = {}
           /\ mem'.entries = entries /\ mem'.loaded = mem.loaded /\ mem'.key = mem.key
  BY DEF PublishCache, Processes

(* A load takes the blob when Store.cache is empty, and nothing otherwise. *)
LEMMA LoadedType ==
    ASSUME mem \in Processes, os.blob \in Secrets, NEW mode, mem' = Loaded(mem, mode)
    PROVE  /\ mem' \in Processes /\ mem'.loaded \in {mem.loaded, os.blob}
           /\ mem.loaded # Absent => mem'.loaded = mem.loaded
           /\ mode = "keychain" => mem'.loaded = GetAll
           /\ mem'.key = mem.key /\ mem'.entries = mem.entries
  BY DEF Processes, Loaded, GetAll

(* A successful keychain write leaves blob and Store.cache alike. *)
LEMMA KeychainType ==
    ASSUME os \in [blob : Secrets, backup : Secrets \cup {Absent}], mem \in Processes,
           op \in Mutations, NEW from, NEW blob \in Secrets, NEW pc \in Pcs,
           Keychain(from, blob, pc)
    PROVE  /\ os' \in [blob : Secrets, backup : Secrets \cup {Absent}] /\ os'.blob = blob
           /\ os'.backup = os.backup
           /\ mem' \in Processes /\ mem'.loaded = blob
           /\ mem'.entries = mem.entries /\ mem'.key = mem.key
           /\ op' \in Mutations
  BY ThenType DEF Keychain, Processes

(* A record change keeps the types of records and secrets. *)
LEMMA MutationType ==
    ASSUME NEW records \in Metadata, NEW old \in Secrets, NEW recs, NEW new,
           MutationOf(records, old, recs, new)
    PROVE  recs \in Metadata /\ new \in Secrets
  BY DEF MutationOf, Metadata, Secrets

(* A record change leaves no secret to a missing record. *)
LEMMA MutationNoOrphan ==
    ASSUME NEW records \in Metadata, NEW old \in Secrets, NEW recs, NEW new,
           MutationOf(records, old, recs, new),
           \A r \in Records : records[r] = None => old[r] = None
    PROVE  \A r \in Records : recs[r] = None => new[r] = None
  BY StoreAssumption DEF MutationOf, Metadata, Secrets

(* The next write of a mutation keeps the types. *)
LEMMA ProceedType == ProfileInv /\ Proceed => TypeOK'
  <1> SUFFICES ASSUME ProfileInv, Proceed PROVE TypeOK'
    OBVIOUS
  <1>0. TypeOK
    BY DEF ProfileInv
  <1> USE <1>0, Values, ThenType, KeychainType, PublishType DEF TypeOK
  <1>1. CASE CommitConfiguration
    <2>1. op.new \in Secrets
      BY <1>1, AuthorityType DEF CommitConfiguration, Sqlite, ProfileInv, ShapeInv, PlaceInv, CommitInv, Databases
    <2>2. op' \in Mutations
      BY <1>1 DEF CommitConfiguration, Sqlite, Pcs
    <2>3. /\ op.to \in Modes \cup {"none"} /\ op.pending \in Journals
          /\ (IF op.to \in SqliteModes THEN op.new ELSE NoSecrets) \in Secrets
      BY <2>1 DEF Mutations, Journals
    <2>4. db' \in Databases
      <3> DEFINE flag == op.to # "none"
                 rows == IF op.to \in SqliteModes THEN op.new ELSE NoSecrets
      <3>1. PICK key \in Keys \cup {NoKey} :
              db' = [db EXCEPT !.mode = op.to, !.onboarded = flag, !.rows = rows,
                               !.rowKey = key, !.verifier = key, !.journal = op.pending]
        BY <1>1 DEF CommitConfiguration, Sqlite
      <3>2. flag \in BOOLEAN /\ rows \in Secrets
        BY <2>3
      <3> HIDE DEF flag, rows
      <3> QED
        BY <2>3, <3>1, <3>2 DEF Databases
    <2> QED
      BY <1>1, <2>2, <2>4 DEF CommitConfiguration, Sqlite
  <1>2. CASE AdoptConfiguration
    <2>1. op.new \in Secrets
      BY <1>2 DEF AdoptConfiguration, ProfileInv, ShapeInv, PlaceInv, AdoptInv, Databases, Authority
    <2>2. mem' \in Processes
      BY <1>2, <2>1 DEF AdoptConfiguration, Processes, Databases, Entries
    <2>3. op' \in Mutations
      BY <1>2 DEF AdoptConfiguration, Pcs
    <2> QED
      BY <1>2, <2>2, <2>3 DEF AdoptConfiguration
  <1>3. CASE JournalRollback
    BY <1>3 DEF JournalRollback, Sqlite, Databases, Journals, Phases, Pcs
  <1>4. CASE StageKeychain
    BY <1>4 DEF StageKeychain, Keychain, ProfileInv, ShapeInv, PlaceInv, ConfigureInv, Databases, Pcs
  <1>5. CASE CleanKeychain
    BY <1>5 DEF CleanKeychain, Keychain, Pcs
  <1>6. CASE ForgetJournal
    BY <1>6 DEF ForgetJournal, Sqlite, Databases, Journals, Phases, Pcs
  <1>7. CASE JournalReset
    BY <1>7 DEF JournalReset, Sqlite, Databases, Journals, Phases, Pcs
  <1>8. CASE EraseKeychain
    BY <1>8 DEF EraseKeychain, Keychain, Pcs
  <1>9. CASE MarkPreparing
    BY <1>9 DEF MarkPreparing, Sqlite, Databases, Journals, Phases, Pcs
  <1>10. CASE WriteBackup
    <2>1. op.old \in Secrets
      BY <1>10 DEF WriteBackup, ProfileInv, ShapeInv, PlaceInv, MutateInv, ChangePcs, Authority, Databases, Mutations
    <2> QED
      BY <1>10, <2>1 DEF WriteBackup, Pcs
  <1>11. CASE MarkPrepared
    BY <1>11 DEF MarkPrepared, Sqlite, Databases, Journals, Phases, Pcs
  <1>12. CASE ReplaceSecrets
    BY <1>12 DEF ReplaceSecrets, Keychain, ProfileInv, ShapeInv, PlaceInv, MutateInv, ChangePcs, Pcs
  <1>13. CASE WriteChange
    <2>1. op.recs \in Metadata /\ op.new \in Secrets
      <3>1. op.old \in Secrets /\ MutationOf(db.records, op.old, op.recs, op.new)
        BY <1>13, AuthorityType DEF WriteChange, Sqlite, ProfileInv, ShapeInv, PlaceInv, MutateInv
      <3>2. db.records \in Metadata
        BY DEF Databases
      <3> QED
        BY <3>1, <3>2, MutationType
    <2>2. db' \in Databases
      BY <1>13, <2>1 DEF WriteChange, Sqlite, Databases, Processes, Phases
    <2> QED
      BY <1>13, <2>2 DEF WriteChange, Sqlite, Pcs
  <1>14. CASE PublishChange
    <2>1. op.new \in Entries
      BY <1>14 DEF PublishChange, Publish, ProfileInv, ShapeInv, PlaceInv, MutateInv, Authority, Databases, Entries
    <2> QED
      BY <1>14, <2>1 DEF PublishChange, Publish, Pcs
  <1>15. CASE InvalidateUncertain
    BY <1>15 DEF InvalidateUncertain, Publish, Pcs, Entries
  <1>16. CASE InvalidateFailed
    BY <1>16 DEF InvalidateFailed, Publish, Pcs, Entries
  <1>17. CASE RecoverPhase
    <2>0. GetAll \in Secrets \cup {Absent}
      BY DEF GetAll, Processes
    <2>1. op' \in Mutations
      <3>1. CASE op' = [op EXCEPT !.pc = "pending"] \/ op' = Idle
        BY <3>1 DEF Mutations, Pcs, Idle
      <3>2. CASE op' = [op EXCEPT !.pc = "restore", !.old = os.backup]
        BY <3>2 DEF Mutations, Pcs
      <3>3. CASE op' = [op EXCEPT !.pc = "republish", !.old = GetAll]
        BY <2>0, <3>3 DEF Mutations, Pcs
      <3> QED
        BY <1>17, <3>1, <3>2, <3>3 DEF RecoverPhase
    <2>2. mem' \in Processes
      BY <1>17, LoadedType DEF RecoverPhase
    <2> QED
      BY <1>17, <2>1, <2>2 DEF RecoverPhase
  <1>18. CASE RestoreBackup
    BY <1>18 DEF RestoreBackup, Keychain, ProfileInv, ShapeInv, PlaceInv, RecoverInv, RecoveryNeverRefuses, Pcs
  <1>19. CASE RepublishSecrets
    <2>1. op.old \in Entries
      BY <1>19 DEF RepublishSecrets, Publish, ProfileInv, ShapeInv, PlaceInv, RecoverInv, Entries
    <2> QED
      BY <1>19, <2>1 DEF RepublishSecrets, Publish, Pcs
  <1>20. CASE MarkRolledBack
    BY <1>20 DEF MarkRolledBack, Sqlite, Databases, Journals, Phases, Pcs
  <1>21. CASE ClearBackup
    BY <1>21 DEF ClearBackup, Pcs
  <1>22. CASE FinishJournal
    BY <1>22 DEF FinishJournal, Sqlite, Databases, Journals, Phases, Pcs, AfterChange
  <1>23. CASE RecoverPending
    <2>1. op' \in Mutations
      BY <1>23 DEF RecoverPending, Mutations, Pcs, Idle
    <2> QED
      BY <1>23, <2>1 DEF RecoverPending
  <1> QED
    BY <1>1, <1>2, <1>3, <1>4, <1>5, <1>6, <1>7, <1>8, <1>9, <1>10, <1>11, <1>12, <1>13, <1>14, <1>15, <1>16, <1>17, <1>18, <1>19, <1>20, <1>21, <1>22, <1>23 DEF Proceed

(* No write of a mutation is seen by an open until it reads. *)
LEMMA ProceedReaders == Proceed => UNCHANGED <<reader, faults>>
  BY DEF Proceed, CommitConfiguration, AdoptConfiguration, JournalRollback, StageKeychain,
     CleanKeychain, ForgetJournal, JournalReset, EraseKeychain, MarkPreparing, WriteBackup,
     MarkPrepared, ReplaceSecrets, WriteChange, PublishChange, InvalidateUncertain,
     InvalidateFailed, RecoverPhase, RestoreBackup, RepublishSecrets, MarkRolledBack, ClearBackup,
     FinishJournal, RecoverPending, Sqlite, Keychain, Publish

(* The next write of a mutation keeps the invariant. *)
LEMMA ProceedProfile == ProfileInv /\ Proceed => ProfileInv'
  <1> SUFFICES ASSUME ProfileInv, Proceed PROVE ShapeInv' /\ PlaceInv'
    BY ProceedType, ProceedReaders DEF ProfileInv, OpenModes
  <1>0. TypeOK
    BY DEF ProfileInv
  <1> USE <1>0, Values DEF ProfileInv, ShapeInv, PlaceInv, TypeOK, RecoveryNeverRefuses, KeyOpensRows,
     NoOrphanSecret, StoresFit, BlobLoaded, OpIdle, ConfigureInv, CommitInv, AdoptInv, MutateInv,
     RecoverInv, Authority, Settled, Written, ChangePcs, SqliteModes, Modes, Phases, Journals, Pcs,
     Entries, Idle, Then, Sqlite, Keychain, Publish, PublishCache, Databases, Processes, Mutations
  <1>1. CASE CommitConfiguration
    <2>1. PICK key \in Keys \cup {NoKey} :
            /\ FreshKey(key)
            /\ Sqlite("commit",
                      [db EXCEPT !.mode = op.to, !.onboarded = op.to # "none",
                                 !.rows = IF op.to \in SqliteModes THEN op.new ELSE NoSecrets,
                                 !.rowKey = key, !.verifier = key, !.journal = op.pending],
                      "adopt")
      BY <1>1 DEF CommitConfiguration
    <2>2. /\ db'.mode = op.to /\ db'.onboarded = (op.to # "none")
          /\ db'.rows = IF op.to \in SqliteModes THEN op.new ELSE NoSecrets
          /\ db'.rowKey = key /\ db'.verifier = key /\ db'.journal = op.pending
          /\ db'.records = db.records /\ db'.change = db.change
      BY <2>1
    <2>3. /\ op'.pc = "adopt" /\ op'.kind = op.kind /\ op'.to = op.to /\ op'.new = op.new
          /\ op'.pending = op.pending
          /\ UNCHANGED <<os, mem, reader, current, faults>> /\ op.pc = "commit"
      BY <2>1
    <2>4. op.to = "encrypted" <=> key # NoKey
      BY <2>1 DEF FreshKey
    <2>5. CommitInv /\ RecoveryNeverRefuses /\ StoresFit /\ BlobLoaded /\ NoOrphanSecret
      OBVIOUS
    <2>6. op.new \in Secrets
      BY <2>1, AuthorityType
    <2> HIDE <1>0 DEF ProfileInv, TypeOK, PlaceInv, ShapeInv, Sqlite
    <2>7. db.change = "none" /\ op.to \in Modes \cup {"none"}
      BY <2>3, <2>5
    <2>8. Authority' = op.new
      BY <2>2, <2>3, <2>5, <2>7
    <2>9. /\ op.new = Authority \/ op.new = NoSecrets
      BY <2>2, <2>3, <2>5, <2>7
    <2>10. NoOrphanSecret'
      <3> HIDE DEF Authority
      <3> QED
        BY <2>2, <2>5, <2>8, <2>9
    <2>11. RecoveryNeverRefuses' /\ KeyOpensRows'
      BY <2>2, <2>3, <2>4, <2>5, <2>7
    <2>12. StoresFit' /\ BlobLoaded'
      BY <2>2, <2>3, <2>5, <2>7
    <2>13. AdoptInv'
      <3> HIDE DEF Authority
      <3> QED
        BY <2>2, <2>3, <2>5, <2>7, <2>8
    <2> QED
      BY <2>3, <2>10, <2>11, <2>12, <2>13 DEF ShapeInv, PlaceInv
  <1>2. CASE AdoptConfiguration
    <2>1. /\ op.pc = "adopt" /\ UNCHANGED <<db, os, reader, faults>>
          /\ mem'.loaded = mem.loaded /\ mem'.key = db.verifier
      BY <1>2 DEF AdoptConfiguration
    <2>2. ShapeInv /\ AdoptInv
      OBVIOUS
    <2>3. \/ op.kind = "change" /\ op.to = "keychain" /\ op' = [op EXCEPT !.pc = "publish"]
          \/ op.pending = "cleanup" /\ op' = [op EXCEPT !.pc = "clean"]
          \/ op' = Idle /\ op.pending # "cleanup"
      BY <1>2 DEF AdoptConfiguration
    <2>4. ShapeInv'
      <3> HIDE <1>0 DEF ProfileInv, TypeOK, PlaceInv
      <3>1. op'.pc # "adopt" => KeyOpensRows'
        BY <2>1, <2>2
      <3> QED
        BY <2>1, <2>2, <3>1
    <2>5. CASE op' = [op EXCEPT !.pc = "publish"] /\ op.kind = "change" /\ op.to = "keychain"
      <3>1. /\ op'.pc = "publish" /\ op'.kind = op.kind /\ op'.to = op.to /\ op'.new = op.new
            /\ op.pending \in {"none", "cleanup"}
        BY <2>5
      <3> HIDE <1>0 DEF ProfileInv, TypeOK, ShapeInv, Authority
      <3>2. Authority' = Authority
        BY <2>1 DEF Authority
      <3>3. PlaceInv'
        BY <2>1, <2>2, <2>5, <3>1, <3>2
      <3> QED
        BY <2>4, <3>3
    <2>6. CASE op' = [op EXCEPT !.pc = "clean"] /\ op.pending = "cleanup"
      <3>1. op'.pc = "clean" /\ op'.kind = "change"
        BY <2>1, <2>2, <2>6
      <3> HIDE <1>0 DEF ProfileInv, TypeOK, ShapeInv, Authority
      <3>2. PlaceInv'
        BY <2>1, <2>2, <2>6, <3>1
      <3> QED
        BY <2>4, <3>2
    <2>7. CASE op' = Idle
      <3> HIDE <1>0 DEF ProfileInv, TypeOK, ShapeInv, Authority
      <3>1. PlaceInv'
        BY <2>7
      <3> QED
        BY <2>4, <3>1
    <2> QED
      BY <2>3, <2>5, <2>6, <2>7
  <1>3. CASE JournalRollback
    BY <1>3 DEF JournalRollback
  <1>4. CASE StageKeychain
    BY <1>4 DEF StageKeychain
  <1>5. CASE CleanKeychain
    BY <1>5 DEF CleanKeychain
  <1>6. CASE ForgetJournal
    BY <1>6 DEF ForgetJournal
  <1>7. CASE JournalReset
    BY <1>7 DEF JournalReset
  <1>8. CASE EraseKeychain
    BY <1>8 DEF EraseKeychain
  <1>9. CASE MarkPreparing
    BY <1>9 DEF MarkPreparing
  <1>10. CASE WriteBackup
    BY <1>10 DEF WriteBackup
  <1>11. CASE MarkPrepared
    BY <1>11 DEF MarkPrepared
  <1>12. CASE ReplaceSecrets
    BY <1>12 DEF ReplaceSecrets
  <1>13. CASE WriteChange
    <2>1. /\ op.pc = "write" /\ op'.pc = "publish" /\ op'.kind = op.kind /\ op'.to = op.to
          /\ op'.new = op.new /\ UNCHANGED <<os, mem, reader, current, faults>>
      BY <1>13 DEF WriteChange
    <2>2. /\ db'.mode = db.mode /\ db'.onboarded = db.onboarded /\ db'.verifier = db.verifier
          /\ db'.journal = db.journal /\ db'.records = op.recs
          /\ IF op.to = "keychain"
             THEN db'.change = "committed" /\ db'.rows = db.rows /\ db'.rowKey = db.rowKey
             ELSE /\ db'.change = db.change /\ db'.rows = op.new
                  /\ db'.rowKey = IF op.to = "encrypted" THEN mem.key ELSE NoKey
      BY <1>13 DEF WriteChange
    <2>3. ShapeInv /\ MutateInv /\ op.old \in Secrets /\ db.records \in Metadata
      BY <2>1, AuthorityType
    <2> HIDE <1>0 DEF ProfileInv, TypeOK, PlaceInv
    <2>4. Authority' = op.new
      BY <2>1, <2>2, <2>3
    <2>5. \A r \in Records : op.recs[r] = None => op.new[r] = None
      <3>1. MutationOf(db.records, op.old, op.recs, op.new) /\ op.old = Authority
        BY <2>1, <2>3
      <3> QED
        BY <2>3, <3>1, MutationNoOrphan
    <2>6. NoOrphanSecret'
      <3> HIDE DEF Authority
      <3> QED
        BY <2>2, <2>4, <2>5
    <2>7. RecoveryNeverRefuses' /\ KeyOpensRows' /\ StoresFit' /\ BlobLoaded'
      BY <2>1, <2>2, <2>3
    <2>8. MutateInv'
      <3> HIDE DEF Authority
      <3> QED
        BY <2>1, <2>2, <2>3, <2>4
    <2> QED
      BY <2>1, <2>6, <2>7, <2>8 DEF PlaceInv
  <1>14. CASE PublishChange
    BY <1>14 DEF PublishChange
  <1>15. CASE InvalidateUncertain
    BY <1>15 DEF InvalidateUncertain
  <1>16. CASE InvalidateFailed
    BY <1>16 DEF InvalidateFailed
  <1>17. CASE RecoverPhase
    <2>1. op.pc = "phase" /\ UNCHANGED <<db, os, reader, current, faults>>
      BY <1>17 DEF RecoverPhase
    <2>2. mem'.key = mem.key /\ mem'.loaded \in {mem.loaded, os.blob}
      BY <1>17, LoadedType DEF RecoverPhase
    <2>3. ShapeInv'
      <3>1. op'.pc # "adopt"
        BY <1>17 DEF RecoverPhase
      <3>2. ShapeInv /\ os \in [blob : Secrets, backup : Secrets \cup {Absent}]
        OBVIOUS
      <3> HIDE <1>0 DEF ProfileInv, TypeOK, PlaceInv
      <3> QED
        BY <2>1, <2>2, <3>1, <3>2
    <2>4. CASE db.change = "none"
      <3>1. op' = [op EXCEPT !.pc = "pending"] /\ op.kind = "recover"
        BY <1>17, <2>4 DEF RecoverPhase
      <3>2. /\ op'.pc = "pending" /\ op'.kind = "recover"
            /\ op'.to = "none" /\ op'.pending = "none"
        BY <2>1, <3>1
      <3> HIDE <1>0 DEF ProfileInv, TypeOK, ShapeInv, Authority
      <3>3. PlaceInv'
        BY <2>1, <2>4, <3>2
      <3> QED
        BY <2>3, <3>3
    <2>5. CASE db.change = "prepared"
      <3>1. op' = [op EXCEPT !.pc = "restore", !.old = os.backup]
        BY <1>17, <2>5 DEF RecoverPhase
      <3>2. /\ op'.pc = "restore" /\ op'.old = os.backup /\ op'.kind \in {"recover", "mutate"}
            /\ op'.kind = "recover" => op'.to = "none" /\ op'.pending = "none"
        BY <2>1, <3>1
      <3> HIDE <1>0 DEF ProfileInv, TypeOK, ShapeInv, Authority
      <3>3. PlaceInv'
        BY <2>1, <2>5, <3>2
      <3> QED
        BY <2>3, <3>3
    <2>6. CASE db.change \in {"preparing", "committed", "rolled-back"}
      <3>1. op' = [op EXCEPT !.pc = "republish", !.old = GetAll]
        BY <1>17, <2>6 DEF RecoverPhase
      <3>2. GetAll = os.blob /\ Authority' = os.blob
        BY <2>1, <2>6 DEF GetAll
      <3>3. /\ op'.pc = "republish" /\ op'.old = os.blob /\ op'.kind \in {"recover", "mutate"}
            /\ op'.kind = "recover" => op'.to = "none" /\ op'.pending = "none"
        BY <2>1, <3>1, <3>2
      <3> HIDE <1>0 DEF ProfileInv, TypeOK, ShapeInv, Authority
      <3>4. PlaceInv'
        BY <2>1, <2>6, <3>2, <3>3
      <3> QED
        BY <2>3, <3>4
    <2> QED
      BY <2>4, <2>5, <2>6
  <1>18. CASE RestoreBackup
    BY <1>18 DEF RestoreBackup
  <1>19. CASE RepublishSecrets
    BY <1>19 DEF RepublishSecrets
  <1>20. CASE MarkRolledBack
    BY <1>20 DEF MarkRolledBack
  <1>21. CASE ClearBackup
    BY <1>21 DEF ClearBackup
  <1>22. CASE FinishJournal
    BY <1>22 DEF FinishJournal, AfterChange
  <1>23. CASE RecoverPending
    <2>1. op.pc = "pending" /\ UNCHANGED <<db, os, mem, reader, current, faults>>
      BY <1>23 DEF RecoverPending
    <2>2. \/ op' = [op EXCEPT !.pc = "clean"] /\ db.journal \in {"rollback", "cleanup"}
          \/ op' = [op EXCEPT !.pc = "erase", !.new = NoSecrets] /\ db.journal = "reset"
          \/ op' = Idle
      BY <1>23 DEF RecoverPending
    <2>3. CASE op' = [op EXCEPT !.pc = "clean"] /\ db.journal \in {"rollback", "cleanup"}
      BY <2>1, <2>3
    <2>4. CASE op' = [op EXCEPT !.pc = "erase", !.new = NoSecrets] /\ db.journal = "reset"
      BY <2>1, <2>4
    <2>5. CASE op' = Idle
      BY <2>1, <2>5
    <2> QED
      BY <2>2, <2>3, <2>4, <2>5
  <1> QED
    BY <1>1, <1>2, <1>3, <1>4, <1>5, <1>6, <1>7, <1>8, <1>9, <1>10, <1>11, <1>12, <1>13, <1>14, <1>15, <1>16, <1>17, <1>18, <1>19, <1>20, <1>21, <1>22, <1>23 DEF Proceed

----------------------------------------------------------------------------
(* What begins a mutation.                                                 *)

(* Start takes the mutation and at most loads the blob. *)
LEMMA StartType ==
    ASSUME ProfileInv, NEW o \in Mutations, NEW mode, Start(o, mode)
    PROVE  /\ TypeOK' /\ op = Idle /\ op' = o /\ UNCHANGED <<db, os, reader, current, faults>>
           /\ mem'.loaded \in {mem.loaded, os.blob} /\ mem'.key = mem.key
           /\ Authority' = Authority /\ OpenModes'
  <1>1. /\ op = Idle /\ op' = o /\ UNCHANGED <<db, os, reader, current, faults>>
        /\ mem' = Loaded(mem, mode)
    BY DEF Start
  <1>2. TypeOK
    BY DEF ProfileInv
  <1>3. mem' \in Processes /\ mem'.loaded \in {mem.loaded, os.blob} /\ mem'.key = mem.key
    BY <1>1, <1>2, LoadedType DEF TypeOK
  <1> QED
    BY <1>1, <1>2, <1>3 DEF TypeOK, Authority, OpenModes, ProfileInv

(* Beginning anything keeps what holds of the two stores. *)
LEMMA StartShape ==
    ASSUME ProfileInv, NEW o \in Mutations, NEW mode, Start(o, mode), o.pc # "adopt"
    PROVE  ShapeInv'
  <1>1. /\ op = Idle /\ op' = o /\ UNCHANGED <<db, os>> /\ Authority' = Authority
        /\ mem'.loaded \in {mem.loaded, os.blob} /\ mem'.key = mem.key
    BY StartType
  <1>2. ShapeInv
    BY DEF ProfileInv
  <1> QED
    BY <1>1, <1>2 DEF ShapeInv, RecoveryNeverRefuses, KeyOpensRows, NoOrphanSecret, StoresFit,
       BlobLoaded, Idle

(* Onboarding starts from a profile without a mode. *)
LEMMA ConfigureProfile == ProfileInv /\ (\E to \in Modes : Configure(to)) => ProfileInv'
  <1> SUFFICES ASSUME ProfileInv, NEW to \in Modes, Configure(to) PROVE ProfileInv'
    OBVIOUS
  <1> DEFINE o == [Idle EXCEPT !.pc = "commit", !.kind = "configure", !.to = to,
                               !.new = NoSecrets]
  <1>1. /\ o \in Mutations /\ o.pc = "commit" /\ o.kind = "configure" /\ o.to = to
        /\ o.pending = "none" /\ o.new = NoSecrets
    BY Values DEF Idle, Mutations, Pcs
  <1>2. Start(o, to) /\ Settled /\ ~db.onboarded
    BY DEF Configure
  <1>3. StoresFit
    BY DEF ProfileInv, ShapeInv
  <1> HIDE DEF o
  <1>4. /\ TypeOK' /\ OpenModes' /\ op' = o /\ UNCHANGED <<db, os, reader, current, faults>>
    BY <1>1, <1>2, StartType
  <1>5. ShapeInv'
    BY <1>1, <1>2, StartShape
  <1>6. PlaceInv'
    BY <1>1, <1>2, <1>3, <1>4 DEF PlaceInv, OpIdle, ConfigureInv, CommitInv, AdoptInv, MutateInv,
       RecoverInv, Settled, StoresFit, ChangePcs
  <1> QED
    BY <1>4, <1>5, <1>6 DEF ProfileInv

(* A mode change starts with the secrets the profile holds. *)
LEMMA ChangeModeProfile == ProfileInv /\ (\E to \in Modes : ChangeMode(to)) => ProfileInv'
  <1> SUFFICES ASSUME ProfileInv, NEW to \in Modes, ChangeMode(to) PROVE ProfileInv'
    OBVIOUS
  <1> DEFINE pc == IF to = "keychain" THEN "journal" ELSE "commit"
             pending == IF db.mode = "keychain" THEN "cleanup" ELSE "none"
             o == [Idle EXCEPT !.pc = pc, !.kind = "change", !.to = to, !.new = Existing,
                               !.pending = pending]
  <1>1. op.pc = "idle" /\ Settled /\ db.mode \in Modes /\ Existing # Absent
    BY DEF ChangeMode, Start, Idle
  <1>2. Existing = Authority /\ Existing \in Secrets
    BY <1>1, ExistingIsAuthority
  <1>3. /\ o \in Mutations /\ o.pc = pc /\ o.kind = "change" /\ o.to = to
        /\ o.pending = pending /\ o.new = Authority
    BY <1>2 DEF Idle, Mutations, Pcs
  <1>4. PICK mode : Start(o, mode)
    BY DEF ChangeMode
  <1>5. to = "keychain" => db.mode \in SqliteModes
    BY <1>1 DEF ChangeMode, Modes
  <1>6. pc \in {"journal", "commit"} /\ (pc = "journal" <=> to = "keychain")
    OBVIOUS
  <1>7. pending = IF db.mode = "keychain" THEN "cleanup" ELSE "none"
    OBVIOUS
  <1> HIDE DEF o, pc, pending
  <1>8. /\ TypeOK' /\ OpenModes' /\ op' = o /\ UNCHANGED <<db, os, reader, current, faults>>
        /\ Authority' = Authority
    BY <1>3, <1>4, StartType
  <1>9. ShapeInv'
    BY <1>3, <1>4, <1>6, StartShape
  <1>10. db.mode \in SqliteModes => Authority = db.rows
    BY DEF Authority, SqliteModes
  <1>11. to # "keychain" => to \in SqliteModes
    BY DEF Modes
  <1>12. ConfigureInv'
    BY <1>1, <1>3, <1>5, <1>6, <1>7, <1>8, <1>10 DEF ConfigureInv, Settled, SqliteModes
  <1>13. CommitInv'
    BY <1>1, <1>3, <1>6, <1>7, <1>8, <1>11 DEF CommitInv, Settled
  <1>14. PlaceInv'
    BY <1>3, <1>6, <1>8, <1>12, <1>13 DEF PlaceInv, OpIdle, AdoptInv, MutateInv, RecoverInv, ChangePcs
  <1> QED
    BY <1>8, <1>9, <1>14 DEF ProfileInv

(* A reset starts with its intent, or with the commit when no keychain is involved. *)
LEMMA ResetProfile == ProfileInv /\ Reset => ProfileInv'
  <1> SUFFICES ASSUME ProfileInv, Reset PROVE ProfileInv'
    OBVIOUS
  <1> DEFINE pc == IF db.mode = "keychain" THEN "intend" ELSE "commit"
             o == [Idle EXCEPT !.pc = pc, !.kind = "reset", !.new = NoSecrets]
  <1>1. /\ o \in Mutations /\ o.pc = pc /\ o.kind = "reset" /\ o.to = "none"
        /\ o.pending = "none" /\ o.new = NoSecrets
    BY Values DEF Idle, Mutations, Pcs
  <1>2. Start(o, "none") /\ Settled
    BY DEF Reset
  <1>3. pc \in {"intend", "commit"} /\ (pc = "intend" <=> db.mode = "keychain")
    OBVIOUS
  <1> HIDE DEF o, pc
  <1>4. TypeOK' /\ OpenModes' /\ op' = o /\ UNCHANGED <<db, os, reader, current, faults>>
    BY <1>1, <1>2, StartType
  <1>5. ShapeInv'
    BY <1>1, <1>2, <1>3, StartShape
  <1>6. PlaceInv'
    BY <1>1, <1>2, <1>3, <1>4 DEF PlaceInv, OpIdle, ConfigureInv, CommitInv, AdoptInv, MutateInv,
       RecoverInv, Settled, ChangePcs
  <1> QED
    BY <1>4, <1>5, <1>6 DEF ProfileInv

(* Recovery starts at the connection journal, whatever the journals are. *)
LEMMA RecoverProfile == ProfileInv /\ Recover => ProfileInv'
  <1> SUFFICES ASSUME ProfileInv, Recover PROVE ProfileInv'
    OBVIOUS
  <1> DEFINE o == [Idle EXCEPT !.pc = "phase", !.kind = "recover"]
  <1>1. /\ o \in Mutations /\ o.pc = "phase" /\ o.kind = "recover" /\ o.to = "none"
        /\ o.pending = "none"
    BY DEF Idle, Mutations, Pcs
  <1>2. Start(o, "none")
    BY DEF Recover
  <1> HIDE DEF o
  <1>3. TypeOK' /\ OpenModes' /\ op' = o
    BY <1>1, <1>2, StartType
  <1>4. ShapeInv'
    BY <1>1, <1>2, StartShape
  <1>5. PlaceInv'
    BY <1>1, <1>3 DEF PlaceInv, OpIdle, ConfigureInv, CommitInv, AdoptInv, MutateInv,
       RecoverInv, ChangePcs
  <1> QED
    BY <1>3, <1>4, <1>5 DEF ProfileInv

(* Every change of a record is prepared from the profile as it is. *)
LEMMA MutateProfile ==
    ASSUME ProfileInv, MayMutate, NEW recs, NEW new, Mutate(recs, new),
           MutationOf(db.records, Existing, recs, new)
    PROVE  ProfileInv'
  <1> DEFINE pc == IF db.mode = "keychain" THEN "preparing" ELSE "write"
             o == [Idle EXCEPT !.pc = pc, !.kind = "mutate", !.to = db.mode, !.old = Existing,
                               !.new = new, !.recs = recs]
  <1>1. op.pc = "idle" /\ Settled /\ db.mode \in Modes /\ Existing # Absent
    BY DEF MayMutate, Mutate, Start, Idle
  <1>2. /\ Existing = Authority /\ Existing \in Secrets
        /\ db.mode = "encrypted" => mem.key = db.verifier
    BY <1>1, ExistingIsAuthority
  <1>3. db.records \in Metadata
    BY DEF ProfileInv, TypeOK, Databases
  <1>4. recs \in Metadata /\ new \in Secrets
    BY <1>2, <1>3, MutationType
  <1>5. /\ o \in Mutations /\ o.pc = pc /\ o.kind = "mutate" /\ o.to = db.mode
        /\ o.old = Authority /\ o.new = new /\ o.recs = recs
    BY <1>1, <1>2, <1>4 DEF Idle, Mutations, Pcs
  <1>6. Start(o, db.mode)
    BY DEF Mutate
  <1>7. pc \in {"preparing", "write"} /\ (pc = "preparing" <=> db.mode = "keychain")
    OBVIOUS
  <1> HIDE DEF o, pc
  <1>8. /\ TypeOK' /\ OpenModes' /\ op' = o /\ UNCHANGED <<db, os, reader, current, faults>>
        /\ Authority' = Authority /\ mem'.key = mem.key
    BY <1>5, <1>6, StartType
  <1>9. ShapeInv'
    BY <1>5, <1>6, <1>7, StartShape
  <1>10. MutationOf(db.records, op.old, op.recs, op.new)'
    BY <1>2, <1>5, <1>8
  <1>11. MutateInv'
    BY <1>1, <1>2, <1>4, <1>5, <1>7, <1>8, <1>10 DEF MutateInv, ChangePcs, Settled
  <1>12. PlaceInv'
    BY <1>5, <1>7, <1>8, <1>11 DEF PlaceInv, OpIdle, ConfigureInv, CommitInv, AdoptInv, RecoverInv
  <1> QED
    BY <1>8, <1>9, <1>12 DEF ProfileInv

(* Saving, duplicating and deleting are such changes. *)
LEMMA RecordProfile ==
    ASSUME ProfileInv, NEW r \in Records,
           \/ \E f \in Forms, p \in Passwords \cup {None} : SaveRecord(r, f, p)
           \/ \E s \in Records : DuplicateRecord(s, r)
           \/ DeleteRecord(r)
    PROVE  ProfileInv'
  <1>1. ASSUME NEW f \in Forms, NEW p \in Passwords \cup {None}, SaveRecord(r, f, p)
        PROVE  ProfileInv'
    <2> DEFINE recs == [db.records EXCEPT ![r] = f]
               new == IF p = None THEN Existing ELSE [Existing EXCEPT ![r] = p]
    <2>1. MayMutate /\ Mutate(recs, new)
      BY <1>1 DEF SaveRecord
    <2>2. MutationOf(db.records, Existing, recs, new)
      BY DEF MutationOf
    <2> QED
      BY <2>1, <2>2, MutateProfile
  <1>2. ASSUME NEW s \in Records, DuplicateRecord(s, r)
        PROVE  ProfileInv'
    <2> DEFINE recs == [db.records EXCEPT ![r] = db.records[s]]
               new == IF Existing[s] = None THEN Existing ELSE [Existing EXCEPT ![r] = Existing[s]]
    <2>1. MayMutate /\ Mutate(recs, new) /\ db.records[s] # None /\ db.records[r] = None
      BY <1>2 DEF DuplicateRecord
    <2>2. MutationOf(db.records, Existing, recs, new)
      BY <2>1 DEF MutationOf
    <2> QED
      BY <2>1, <2>2, MutateProfile
  <1>3. ASSUME DeleteRecord(r) PROVE ProfileInv'
    <2> DEFINE recs == [db.records EXCEPT ![r] = None]
               new == [Existing EXCEPT ![r] = None]
    <2>1. MayMutate /\ Mutate(recs, new) /\ db.records[r] # None
      BY <1>3 DEF DeleteRecord
    <2>2. MutationOf(db.records, Existing, recs, new)
      BY <2>1 DEF MutationOf
    <2> QED
      BY <2>1, <2>2, MutateProfile
  <1> QED
    BY <1>1, <1>2, <1>3

----------------------------------------------------------------------------
(* What no mutation does: the process and its readers.                     *)

(* A step that writes neither store and no mutation keeps the invariant if *)
(* it only loads the blob into an empty Store.cache.                       *)
LEMMA ReadingProfile ==
    ASSUME ProfileInv, UNCHANGED <<db, os, op>>, TypeOK',
           \/ mem'.loaded = mem.loaded
           \/ mem.loaded = Absent /\ mem'.loaded = os.blob,
           mem'.key = mem.key, OpenModes'
    PROVE  ProfileInv'
  <1>1. Authority' = Authority
    BY DEF Authority
  <1>2. ShapeInv /\ PlaceInv /\ TypeOK
    BY DEF ProfileInv
  <1>3. os.blob # Absent
    BY <1>2, Values DEF TypeOK
  <1>4. ShapeInv'
    BY <1>1, <1>2 DEF ShapeInv, RecoveryNeverRefuses, KeyOpensRows, NoOrphanSecret, StoresFit,
       BlobLoaded
  <1>5. MutationOf(db.records, op.old, op.recs, op.new)' = MutationOf(db.records, op.old, op.recs, op.new)
    OBVIOUS
  <1>6. PlaceInv'
    BY <1>1, <1>2, <1>3, <1>5 DEF PlaceInv, OpIdle, ConfigureInv, CommitInv, AdoptInv, MutateInv,
       RecoverInv, Settled, Written
  <1> QED
    BY <1>4, <1>6 DEF ProfileInv

(* Unlocking gives the process the verifier's key and drops the cache. *)
LEMMA UnlockProfile == ProfileInv /\ Unlock => ProfileInv'
  <1> SUFFICES ASSUME ProfileInv, Unlock PROVE ProfileInv'
    OBVIOUS
  <1>1. /\ op = Idle /\ UNCHANGED <<db, os, op, reader, faults>> /\ current' = {}
        /\ mem' = [mem EXCEPT !.key = db.verifier, !.entries = Absent]
    BY DEF Unlock
  <1>2. TypeOK /\ ShapeInv
    BY DEF ProfileInv
  <1>3. mem' \in Processes /\ mem'.loaded = mem.loaded /\ mem'.key = db.verifier
    BY <1>1, <1>2 DEF TypeOK, Processes, Databases, Entries
  <1>4. TypeOK'
    BY <1>1, <1>2, <1>3 DEF TypeOK
  <1>5. ShapeInv'
    BY <1>1, <1>2, <1>3 DEF ShapeInv, RecoveryNeverRefuses, KeyOpensRows, NoOrphanSecret,
       StoresFit, BlobLoaded, Authority
  <1>6. PlaceInv'
    BY <1>1 DEF Idle, PlaceInv, OpIdle, ConfigureInv, CommitInv, AdoptInv, MutateInv, RecoverInv,
       ChangePcs
  <1>7. OpenModes'
    BY <1>1 DEF ProfileInv, OpenModes
  <1> QED
    BY <1>4, <1>5, <1>6, <1>7 DEF ProfileInv

(* What a mode reads is no half-typed value. *)
LEMMA ReadBackendType ==
    ASSUME TypeOK, NEW mode \in Modes, NEW key
    PROVE  ReadBackend(mode, key) \in Entries
  BY Values DEF TypeOK, ReadBackend, GetAll, ReadPlain, ReadEncrypted, Modes, SqliteModes, Entries,
     Databases, Processes

(* How an open's reads move it on. *)
LEMMA ReadType ==
    ASSUME reader \in [Readers -> Resolutions], OpenModes, NEW r \in Readers,
           reader[r].pc # "idle", NEW pc \in {"idle", "lookup", "recheck"}, Read(r, pc)
    PROVE  reader' \in [Readers -> Resolutions] /\ OpenModes'
  BY DEF Read, OpenModes, Resolutions, Resting, Entries

(* An open's reads keep the types and the invariant. *)
LEMMA ReaderProfile == ProfileInv /\ (\E r \in Readers : Reading(r)) => ProfileInv'
  <1> SUFFICES ASSUME ProfileInv, NEW r \in Readers, Reading(r) PROVE ProfileInv'
    OBVIOUS
  <1>0. TypeOK /\ OpenModes
    BY DEF ProfileInv
  <1>2. UNCHANGED <<db, os, op, faults>>
    BY DEF Reading, Snapshot, Resolve, Lookup, Recheck, Load, FillCache
  <1>3. CASE Snapshot(r)
    <2>1. /\ db.mode \in Modes /\ current' = current
          /\ reader' = [reader EXCEPT ![r] = [Resting EXCEPT !.pc = "resolve", !.mode = db.mode]]
      BY <1>3 DEF Snapshot
    <2>2. reader' \in [Readers -> Resolutions] /\ OpenModes'
      BY <1>0, <2>1 DEF TypeOK, OpenModes, Resolutions, Resting, Entries
    <2>3. Existing \in Entries
      BY <1>0, <2>1, ReadBackendType DEF Existing
    <2>4. /\ mem' \in Processes
          /\ mem'.loaded = mem.loaded \/ (mem.loaded = Absent /\ mem'.loaded = os.blob)
          /\ mem'.key = mem.key
      <3> DEFINE now == Existing
      <3>1. \/ mem' = mem
            \/ mem' = [mem EXCEPT !.entries = now]
            \/ mem' = [mem EXCEPT !.loaded = GetAll, !.entries = now]
        BY <1>3 DEF Snapshot, Loaded
      <3>2. now \in Entries
        BY <2>3
      <3> HIDE DEF now
      <3> QED
        BY <1>0, <3>1, <3>2 DEF GetAll, TypeOK, Processes
    <2>5. TypeOK'
      BY <1>0, <1>2, <2>1, <2>2, <2>4 DEF TypeOK
    <2> QED
      BY <1>2, <2>2, <2>4, <2>5, ReadingProfile
  <1>4. CASE Resolve(r)
    <2>1. TypeOK' /\ OpenModes' /\ mem' = mem
      BY <1>0, <1>2, <1>4, ReadType DEF Resolve, TypeOK
    <2> QED
      BY <1>2, <2>1, ReadingProfile
  <1>5. CASE Lookup(r)
    <2>1. TypeOK' /\ OpenModes' /\ mem' = mem
      BY <1>0, <1>2, <1>5, ReadType DEF Lookup, TypeOK
    <2> QED
      BY <1>2, <2>1, ReadingProfile
  <1>6. CASE Recheck(r)
    <2>1. reader' \in [Readers -> Resolutions] /\ OpenModes'
      <3>1. CASE Settled
        BY <1>0, <1>6, <3>1 DEF Recheck, TypeOK, Resolutions, Processes, OpenModes
      <3>2. CASE ~Settled
        BY <1>0, <1>6, <3>2, ReadType DEF Recheck, TypeOK
      <3> QED
        BY <3>1, <3>2
    <2>2. TypeOK' /\ mem' = mem
      BY <1>0, <1>2, <1>6, <2>1 DEF Recheck, TypeOK
    <2> QED
      BY <1>2, <2>1, <2>2, ReadingProfile
  <1>7. CASE Load(r)
    <2> DEFINE got == ReadBackend(reader[r].mode, reader[r].key)
    <2>1. reader[r].pc = "load" /\ got \in Entries
      BY <1>0, <1>7, ReadBackendType DEF Load, OpenModes
    <2>2. /\ IF got = Absent THEN Read(r, "idle")
             ELSE reader' = [reader EXCEPT ![r].pc = "fill", ![r].got = got]
          /\ mem' = Loaded(mem, reader[r].mode) /\ current' = current
      BY <1>7 DEF Load
    <2> HIDE DEF got
    <2>3. reader' \in [Readers -> Resolutions] /\ OpenModes'
      <3>1. CASE got = Absent
        BY <1>0, <2>1, <2>2, <3>1, ReadType DEF TypeOK
      <3>2. CASE got # Absent
        BY <1>0, <2>1, <2>2, <3>2 DEF TypeOK, Resolutions, OpenModes
      <3> QED
        BY <3>1, <3>2
    <2>4. /\ mem' \in Processes
          /\ mem'.loaded = mem.loaded \/ (mem.loaded = Absent /\ mem'.loaded = os.blob)
          /\ mem'.key = mem.key
      BY <1>0, <2>2 DEF Loaded, GetAll, TypeOK, Processes
    <2>5. TypeOK'
      BY <1>0, <1>2, <2>2, <2>3, <2>4 DEF TypeOK
    <2> QED
      BY <1>2, <2>3, <2>4, <2>5, ReadingProfile
  <1>8. CASE FillCache(r)
    <2>1. /\ reader[r].pc = "fill" /\ Read(r, "idle") /\ current' \subseteq current
          /\ mem' = mem \/ mem' = [mem EXCEPT !.entries = reader[r].got]
      BY <1>8 DEF FillCache
    <2>2. reader' \in [Readers -> Resolutions] /\ OpenModes'
      BY <1>0, <2>1, ReadType DEF TypeOK
    <2>3. mem' \in Processes /\ mem'.loaded = mem.loaded /\ mem'.key = mem.key
      BY <1>0, <2>1 DEF TypeOK, Processes, Resolutions
    <2>4. TypeOK'
      BY <1>0, <1>2, <2>1, <2>2, <2>3 DEF TypeOK
    <2> QED
      BY <1>2, <2>2, <2>3, <2>4, ReadingProfile
  <1> QED
    BY <1>3, <1>4, <1>5, <1>6, <1>7, <1>8 DEF Reading

----------------------------------------------------------------------------
(* Failed writes and crashes.                                              *)

(* A failed SQLite write changes nothing but where the mutation is. *)
LEMMA SqliteFailsProfile == ProfileInv /\ SqliteFails => ProfileInv'
  <1> SUFFICES ASSUME ProfileInv, SqliteFails PROVE ProfileInv'
    OBVIOUS
  <1>0. TypeOK /\ ShapeInv /\ PlaceInv /\ OpenModes
    BY DEF ProfileInv
  <1>1. UNCHANGED <<db, os, mem, reader, current>> /\ faults' \in 0..MaxFaults
    BY <1>0, StoreAssumption DEF SqliteFails, Fault, TypeOK
  <1>2. Authority' = Authority
    BY <1>1 DEF Authority
  <1>3. \/ op' = Idle /\ op.pc # "adopt"
        \/ op' = [op EXCEPT !.pc = "undo"] /\ op.pc = "write"
    BY DEF SqliteFails, Then
  <1>4. op' \in Mutations /\ op'.pc # "adopt"
    BY <1>0, <1>3 DEF TypeOK, Mutations, Idle, Pcs
  <1>5. ShapeInv'
    BY <1>0, <1>1, <1>2, <1>3, <1>4 DEF ShapeInv, RecoveryNeverRefuses, KeyOpensRows, NoOrphanSecret,
       StoresFit, BlobLoaded
  <1>6. PlaceInv'
    <2>1. CASE op' = Idle
      BY <2>1 DEF Idle, PlaceInv, OpIdle, ConfigureInv, CommitInv, AdoptInv, MutateInv, RecoverInv,
         ChangePcs
    <2>2. CASE op' = [op EXCEPT !.pc = "undo"] /\ op.pc = "write"
      <3>1. op'.pc = "undo" /\ op'.kind = "mutate" /\ op'.to = op.to
        BY <1>0, <2>2 DEF TypeOK, Mutations, PlaceInv, MutateInv
      <3> QED
        BY <1>0, <1>1, <2>2, <3>1 DEF PlaceInv, OpIdle, ConfigureInv, CommitInv, AdoptInv,
           MutateInv, RecoverInv, ChangePcs, Settled
    <2> QED
      BY <1>3, <2>1, <2>2
  <1> QED
    BY <1>0, <1>1, <1>4, <1>5, <1>6 DEF ProfileInv, TypeOK, OpenModes

(* A failed keychain write may have happened, but it is one a journal      *)
(* remembers: what the profile will come back with stays the same.         *)
LEMMA KeychainFailsKeeps ==
    ASSUME ProfileInv, KeychainFails
    PROVE  /\ UNCHANGED <<db, mem, reader, current>> /\ Authority' = Authority
           /\ os' \in [blob : Secrets, backup : Secrets \cup {Absent}]
           /\ os'.blob # os.blob => db.journal # "none" \/ db.change = "prepared"
           /\ os'.backup # os.backup => db.change \in {"preparing", "committed", "rolled-back"}
  <1>0. TypeOK /\ ShapeInv /\ PlaceInv
    BY DEF ProfileInv
  <1>1. UNCHANGED <<db, mem, reader, current>>
    BY DEF KeychainFails
  <1>2. \/ os' = os
        \/ op.pc = "backup" /\ os' = [os EXCEPT !.backup = op.old]
        \/ op.pc = "clear" /\ os' = [os EXCEPT !.backup = Absent]
        \/ op.pc \in {"stage", "replace"} /\ os' = [os EXCEPT !.blob = op.new]
        \/ op.pc \in {"clean", "erase"} /\ os' = [os EXCEPT !.blob = NoSecrets]
        \/ op.pc = "restore" /\ os' = [os EXCEPT !.blob = op.old]
    BY DEF KeychainFails, Intended
  <1>3. /\ os' \in [blob : Secrets, backup : Secrets \cup {Absent}]
        /\ os'.blob # os.blob => db.journal # "none" \/ db.change = "prepared"
        /\ os'.blob # os.blob /\ db.mode = "keychain" => db.journal = "reset" \/ db.change = "prepared"
        /\ os'.backup # os.backup => db.change \in {"preparing", "committed", "rolled-back"}
    BY <1>0, <1>2, Values, AuthorityType DEF TypeOK, ShapeInv, PlaceInv, ConfigureInv, MutateInv,
       RecoverInv, RecoveryNeverRefuses, ChangePcs, Settled, SqliteModes, Databases
  <1>4. Authority' = Authority
    BY <1>1, <1>3 DEF Authority
  <1> QED
    BY <1>1, <1>3, <1>4

(* A failed keychain write keeps the invariant. *)
LEMMA KeychainFailsProfile == ProfileInv /\ KeychainFails => ProfileInv'
  <1> SUFFICES ASSUME ProfileInv, KeychainFails PROVE ProfileInv'
    OBVIOUS
  <1>0. TypeOK /\ ShapeInv /\ PlaceInv /\ OpenModes
    BY DEF ProfileInv
  <1>1. UNCHANGED <<db, mem, reader, current>> /\ faults' \in 0..MaxFaults
    BY <1>0, StoreAssumption DEF KeychainFails, Fault, TypeOK
  <1>2. \/ op' = Idle /\ op.pc \in {"backup", "clear", "stage", "clean", "erase", "restore"}
        \/ op' = [op EXCEPT !.pc = "invalidate"] /\ op.pc = "replace"
    BY DEF KeychainFails, Then
  <1>3. op' \in Mutations /\ op'.pc \in {"idle", "invalidate"}
    BY <1>0, <1>2 DEF TypeOK, Mutations, Idle, Pcs
  <1>4. /\ Authority' = Authority
        /\ os' \in [blob : Secrets, backup : Secrets \cup {Absent}]
        /\ os'.blob # os.blob => db.journal # "none" \/ db.change = "prepared"
        /\ os'.backup # os.backup => db.change \in {"preparing", "committed", "rolled-back"}
    BY KeychainFailsKeeps
  <1>5. ShapeInv'
    BY <1>0, <1>1, <1>2, <1>3, <1>4 DEF ShapeInv, RecoveryNeverRefuses, KeyOpensRows,
       NoOrphanSecret, StoresFit, BlobLoaded
  <1>6. PlaceInv'
    <2>1. CASE op' = Idle
      BY <2>1 DEF Idle, PlaceInv, OpIdle, ConfigureInv, CommitInv, AdoptInv, MutateInv, RecoverInv,
         ChangePcs
    <2>2. CASE op' = [op EXCEPT !.pc = "invalidate"] /\ op.pc = "replace"
      <3>1. op'.pc = "invalidate" /\ op'.kind = "mutate" /\ db.change = "prepared"
        BY <1>0, <2>2 DEF TypeOK, Mutations, PlaceInv, MutateInv, ChangePcs
      <3> QED
        BY <1>1, <3>1 DEF PlaceInv, OpIdle, ConfigureInv, CommitInv, AdoptInv, MutateInv,
           RecoverInv, ChangePcs
    <2> QED
      BY <1>2, <2>1, <2>2
  <1> QED
    BY <1>0, <1>1, <1>3, <1>4, <1>5, <1>6 DEF ProfileInv, TypeOK, OpenModes

(* A crash leaves the two stores, and nothing in progress. *)
LEMMA CrashProfile == ProfileInv /\ Crash => ProfileInv'
  <1> SUFFICES ASSUME ProfileInv, Crash PROVE ProfileInv'
    OBVIOUS
  <1>0. TypeOK /\ ShapeInv
    BY DEF ProfileInv
  <1>1. /\ UNCHANGED <<db, os>> /\ op' = Idle /\ mem' = Restarted /\ current' = {}
        /\ reader' = [r \in Readers |-> Resting] /\ faults' \in 0..MaxFaults
    BY <1>0, StoreAssumption DEF Crash, Fault, TypeOK
  <1>2. TypeOK' /\ OpenModes'
    BY <1>0, <1>1 DEF TypeOK, OpenModes, Idle, Restarted, Resting, Mutations, Processes,
       Resolutions, Pcs, Entries
  <1>3. ShapeInv'
    BY <1>0, <1>1 DEF ShapeInv, RecoveryNeverRefuses, KeyOpensRows, NoOrphanSecret, StoresFit,
       BlobLoaded, Authority, Restarted
  <1>4. PlaceInv'
    BY <1>1 DEF Idle, PlaceInv, OpIdle, ConfigureInv, CommitInv, AdoptInv, MutateInv, RecoverInv,
       ChangePcs
  <1> QED
    BY <1>2, <1>3, <1>4 DEF ProfileInv

----------------------------------------------------------------------------
(* Every step keeps the invariant. *)
LEMMA ProfileNext == ProfileInv /\ [Next]_vars => ProfileInv'
  <1>1. ProfileInv /\ Begin => ProfileInv'
    BY ConfigureProfile, ChangeModeProfile, ResetProfile, UnlockProfile, RecordProfile DEF Begin
  <1>2. ProfileInv /\ UNCHANGED vars => ProfileInv'
    BY DEF vars, ProfileInv, TypeOK, ShapeInv, PlaceInv, OpenModes, RecoveryNeverRefuses,
       KeyOpensRows, NoOrphanSecret, StoresFit, BlobLoaded, OpIdle, ConfigureInv, CommitInv,
       AdoptInv, MutateInv, RecoverInv, Settled, Authority, Written
  <1> QED
    BY <1>1, <1>2, RecoverProfile, ProceedProfile, SqliteFailsProfile, KeychainFailsProfile,
       CrashProfile, ReaderProfile DEF Next

(* Between any two writes, crashes included, the stores fit the journals. *)
THEOREM ProfileCorrect == Spec => []ProfileInv
  BY ProfileInit, ProfileNext, PTL DEF Spec

(* StoreInv at every moment: whatever fails and wherever the process dies, *)
(* the profile can be recovered, a settled profile keeps its secrets in    *)
(* one place, an unlocked one can read its rows, and no deleted record     *)
(* leaves a secret.                                                        *)
THEOREM StoreCorrect == Spec => []StoreInv
  <1>1. ProfileInv => StoreInv
    BY DEF ProfileInv, ShapeInv, TypeOK, StoreInv, StoresFit, BlobLoaded, KeyOpensRows, NoOrphanSecret,
       RecoveryNeverRefuses, InactiveStoreEmpty, BlobCacheTrue, Settled, SqliteModes, Databases, Modes
  <1> QED
    BY <1>1, ProfileCorrect, PTL

----------------------------------------------------------------------------
(* The two stores implement one vault.                                     *)

(* A step that keeps SQLite and the authority is no step of the vault. *)
LEMMA VaultSame ==
    ASSUME UNCHANGED <<db, Authority>>
    PROVE  UNCHANGED Vault!vaultVars
  BY DEF Vault!vaultVars

(* A configured profile is one vault before and after its mode changes. *)
LEMMA CommitVault == ProfileInv /\ CommitConfiguration => [Vault!VaultNext]_(Vault!vaultVars)
  <1> SUFFICES ASSUME ProfileInv, CommitConfiguration PROVE [Vault!VaultNext]_(Vault!vaultVars)
    OBVIOUS
  <1>0. TypeOK /\ CommitInv /\ RecoveryNeverRefuses /\ StoresFit
    BY DEF ProfileInv, ShapeInv, PlaceInv
  <1>1. op.pc = "commit" /\ UNCHANGED os
    BY DEF CommitConfiguration, Sqlite
  <1>2. /\ db'.mode = op.to /\ db'.onboarded = (op.to # "none")
        /\ db'.rows = IF op.to \in SqliteModes THEN op.new ELSE NoSecrets
        /\ db'.journal = op.pending /\ db'.records = db.records /\ db'.change = db.change
    BY <1>0 DEF CommitConfiguration, Sqlite, TypeOK, Databases
  <1>3. db.onboarded \in BOOLEAN
    BY <1>0 DEF TypeOK, Databases
  <1> DEFINE before == db.onboarded /\ db.journal # "reset"
             after == db'.onboarded /\ db'.journal # "reset"
  <1>4. CASE op.kind = "configure"
    <2>1. ~before /\ after /\ Authority = NoSecrets /\ Authority' = NoSecrets
      BY <1>0, <1>1, <1>2, <1>4 DEF CommitInv, Authority, StoresFit, Settled, Modes, SqliteModes
    <2>2. Vault!Configure
      BY <1>2, <2>1 DEF Vault!Configure, Vault!NoSecrets, NoSecrets
    <2> QED
      BY <2>2 DEF Vault!VaultNext
  <1>5. CASE op.kind = "change"
    <2>1. before /\ after /\ Authority' = Authority
      BY <1>0, <1>1, <1>2, <1>5 DEF CommitInv, Authority, StoresFit, RecoveryNeverRefuses, Settled,
         Written, Modes, SqliteModes
    <2> QED
      BY <1>2, <1>3, <2>1 DEF Vault!vaultVars
  <1>6. CASE op.kind \in {"reset", "recover"}
    <2>1. ~after /\ Authority' = NoSecrets
      BY <1>0, <1>1, <1>2, <1>6 DEF CommitInv, Authority, SqliteModes
    <2>2. Vault!Reset
      BY <1>2, <2>1 DEF Vault!Reset, Vault!NoSecrets, NoSecrets
    <2> QED
      BY <2>2 DEF Vault!VaultNext
  <1> QED
    BY <1>0, <1>1, <1>4, <1>5, <1>6 DEF CommitInv

(* The transaction of a record change is the vault's step. *)
LEMMA WriteVault == ProfileInv /\ WriteChange => Vault!VaultNext
  <1> SUFFICES ASSUME ProfileInv, WriteChange PROVE Vault!VaultNext
    OBVIOUS
  <1>0. TypeOK /\ MutateInv /\ RecoveryNeverRefuses /\ StoresFit
    BY DEF ProfileInv, ShapeInv, PlaceInv
  <1>1. op.pc = "write" /\ UNCHANGED os
    BY DEF WriteChange, Sqlite
  <1>2. /\ db'.mode = db.mode /\ db'.onboarded = db.onboarded /\ db'.journal = db.journal
        /\ db'.records = op.recs
        /\ IF op.to = "keychain" THEN db'.change = "committed" /\ db'.rows = db.rows
           ELSE db'.change = db.change /\ db'.rows = op.new
    BY <1>0 DEF WriteChange, Sqlite, TypeOK, Databases
  <1>3. /\ op.old = Authority /\ op.to = db.mode /\ db.mode \in Modes
        /\ MutationOf(db.records, Authority, op.recs, op.new)
    BY <1>0, <1>1 DEF MutateInv
  <1>4. db.onboarded /\ db.journal # "reset"
    BY <1>0, <1>1, <1>3 DEF MutateInv, StoresFit, RecoveryNeverRefuses, Settled, Modes, SqliteModes
  <1>5. Authority' = op.new
    BY <1>0, <1>1, <1>2, <1>3, <1>4 DEF Authority, MutateInv
  <1>6. UNCHANGED (db.onboarded /\ db.journal # "reset")
    BY <1>2
  <1> USE DEF Vault!SecretsAfterSave, Vault!SecretsAfterDelete
  <1>7. PICK r \in Records :
          \/ \E f \in Forms, p \in Passwords \cup {None} :
                /\ op.recs = [db.records EXCEPT ![r] = f]
                /\ op.new = IF p = None THEN Authority ELSE [Authority EXCEPT ![r] = p]
          \/ \E s \in Records :
                /\ db.records[s] # None /\ db.records[r] = None
                /\ op.recs = [db.records EXCEPT ![r] = db.records[s]]
                /\ op.new = IF Authority[s] = None THEN Authority
                            ELSE [Authority EXCEPT ![r] = Authority[s]]
          \/ /\ db.records[r] # None
             /\ op.recs = [db.records EXCEPT ![r] = None]
             /\ op.new = [Authority EXCEPT ![r] = None]
    BY <1>3 DEF MutationOf
  <1> HIDE DEF Authority
  <1>8. \/ \E f \in Forms, p \in Passwords \cup {None} : Vault!Save(r, f, p)
        \/ \E s \in Records : Vault!Duplicate(s, r)
        \/ Vault!Delete(r)
    BY <1>2, <1>4, <1>5, <1>6, <1>7 DEF Vault!Save, Vault!Duplicate, Vault!Delete
  <1> QED
    BY <1>8 DEF Vault!VaultNext

(* Every other write is invisible. *)
LEMMA ProceedInvisible ==
    ASSUME ProfileInv, Proceed, ~CommitConfiguration, ~WriteChange, ~JournalReset
    PROVE  UNCHANGED Vault!vaultVars
  <1>0. TypeOK /\ ShapeInv /\ PlaceInv
    BY DEF ProfileInv
  <1>1. CASE \/ AdoptConfiguration \/ PublishChange \/ InvalidateUncertain \/ InvalidateFailed
             \/ RecoverPhase \/ RepublishSecrets \/ RecoverPending
    <2>1. UNCHANGED <<db, os>>
      BY <1>1 DEF AdoptConfiguration, PublishChange, InvalidateUncertain, InvalidateFailed,
         RecoverPhase, RepublishSecrets, RecoverPending, Publish
    <2> QED
      BY <2>1, VaultSame DEF Authority
  <1>2. CASE StageKeychain \/ CleanKeychain \/ EraseKeychain \/ ReplaceSecrets \/ RestoreBackup
    <2>1. /\ UNCHANGED db /\ os'.backup = os.backup
          /\ op.pc \in {"stage", "clean", "erase", "replace", "restore"}
      BY <1>0, <1>2 DEF StageKeychain, CleanKeychain, EraseKeychain, ReplaceSecrets, RestoreBackup,
         Keychain, TypeOK
    <2>2. Authority' = Authority
      BY <1>0, <2>1 DEF Authority, PlaceInv, ShapeInv, ConfigureInv, MutateInv, RecoverInv,
         RecoveryNeverRefuses, SqliteModes
    <2> QED
      BY <2>1, <2>2, VaultSame
  <1>3. CASE WriteBackup \/ ClearBackup
    <2>1. /\ UNCHANGED db /\ os'.blob = os.blob /\ op.pc \in {"backup", "clear"}
      BY <1>0, <1>3 DEF WriteBackup, ClearBackup, TypeOK
    <2>2. Authority' = Authority
      BY <1>0, <2>1 DEF Authority, PlaceInv, MutateInv, RecoverInv
    <2> QED
      BY <2>1, <2>2, VaultSame
  <1>4. CASE JournalRollback \/ ForgetJournal
    <2>1. /\ UNCHANGED os /\ db'.records = db.records /\ db'.mode = db.mode /\ db'.rows = db.rows
          /\ db'.onboarded = db.onboarded /\ db.journal # "reset" /\ db'.journal # "reset"
          /\ db.mode \in SqliteModes
      BY <1>0, <1>4 DEF JournalRollback, ForgetJournal, Sqlite, TypeOK, Databases, PlaceInv,
         ShapeInv, ConfigureInv, RecoveryNeverRefuses, Settled
    <2>2. Authority' = Authority
      BY <2>1 DEF Authority, SqliteModes
    <2> QED
      BY <2>1, <2>2 DEF Vault!vaultVars
  <1>5. CASE MarkPreparing \/ MarkPrepared \/ MarkRolledBack \/ FinishJournal
    <2>1. /\ UNCHANGED os /\ db'.records = db.records /\ db'.mode = db.mode /\ db'.rows = db.rows
          /\ db'.onboarded = db.onboarded /\ db'.journal = db.journal
          /\ op.pc \in {"preparing", "prepared", "rolledback", "unmark"}
          /\ db'.change = CASE op.pc = "preparing" -> "preparing"
                            [] op.pc = "prepared" -> "prepared"
                            [] op.pc = "rolledback" -> "rolled-back"
                            [] op.pc = "unmark" -> "none"
      BY <1>0, <1>5 DEF MarkPreparing, MarkPrepared, MarkRolledBack, FinishJournal, Sqlite, TypeOK,
         Databases
    <2>2. Authority' = Authority
      BY <1>0, <2>1 DEF Authority, PlaceInv, ShapeInv, MutateInv, RecoverInv, RecoveryNeverRefuses,
         Settled, ChangePcs
    <2> QED
      BY <2>1, <2>2 DEF Vault!vaultVars
  <1> QED
    BY <1>1, <1>2, <1>3, <1>4, <1>5 DEF Proceed

(* The next write of a mutation is a step of the vault, or none. *)
LEMMA ProceedVault == ProfileInv /\ Proceed => [Vault!VaultNext]_(Vault!vaultVars)
  <1> SUFFICES ASSUME ProfileInv, Proceed PROVE [Vault!VaultNext]_(Vault!vaultVars)
    OBVIOUS
  <1>0. TypeOK /\ PlaceInv
    BY DEF ProfileInv
  <1>1. CASE CommitConfiguration
    BY <1>1, CommitVault
  <1>2. CASE WriteChange
    BY <1>2, WriteVault
  <1>3. CASE JournalReset
    <2>1. /\ db'.records = db.records /\ db'.mode = "keychain" /\ db'.journal = "reset"
      BY <1>0, <1>3 DEF JournalReset, Sqlite, TypeOK, Databases, PlaceInv, ConfigureInv
    <2>2. Authority' = NoSecrets
      BY <2>1 DEF Authority
    <2>3. Vault!Reset
      BY <2>1, <2>2 DEF Vault!Reset, Vault!NoSecrets, NoSecrets
    <2> QED
      BY <2>3 DEF Vault!VaultNext
  <1> QED
    BY <1>1, <1>2, <1>3, ProceedInvisible

(* Every step is a step of the vault, or none. *)
LEMMA VaultStep == ProfileInv /\ [Next]_vars => [Vault!VaultNext]_(Vault!vaultVars)
  <1> SUFFICES ASSUME ProfileInv, [Next]_vars PROVE [Vault!VaultNext]_(Vault!vaultVars)
    OBVIOUS
  <1>1. CASE Begin \/ Recover \/ SqliteFails \/ Crash \/ (\E r \in Readers : Reading(r)) \/ UNCHANGED vars
    <2>1. UNCHANGED <<db, os>>
      BY <1>1 DEF Begin, Recover, SqliteFails, Crash, Reading, vars, Configure, ChangeMode, Reset,
         Unlock, SaveRecord, DuplicateRecord, DeleteRecord, Mutate, Start, Snapshot, Resolve,
         Lookup, Recheck, Load, FillCache
    <2> QED
      BY <2>1, VaultSame DEF Authority
  <1>2. CASE KeychainFails
    BY <1>2, KeychainFailsKeeps, VaultSame
  <1> QED
    BY <1>1, <1>2, ProceedVault DEF Next

(* The refinement: SQLite, keychain, journals and recovery together are    *)
(* the vault of CredentialVault, in which a record and its secret change   *)
(* in one step and a change of storage mode is no step at all.             *)
THEOREM StoreImplementsVault == Spec => VaultKept
  <1>1. Init => Vault!VaultInit
    BY DEF Init, Vault!VaultInit, Vault!NoSecrets, NoSecrets, Authority
  <1> QED
    BY <1>1, ProfileCorrect, VaultStep, PTL DEF Spec, VaultKept, Vault!VaultSpec

----------------------------------------------------------------------------
(* The decoded cache, when no open spans a change of mode.                 *)

(* A fresh profile has no cache. *)
LEMMA CacheInit == Init => CacheInv
  BY DEF Init, CacheInv, ReadersFollow, ModeMoving, Unread, CacheTrue, NoLoadAcrossRollback,
     Resting, Idle, Restarted

(* A write of a mutation: the readers stay where they are. *)
LEMMA ProceedFollow ==
    ASSUME ProfileInv, CacheInv, Proceed
    PROVE  ReadersFollow'
  <1>0. TypeOK /\ ShapeInv /\ PlaceInv /\ ReadersFollow
    BY DEF ProfileInv, CacheInv
  <1>1. UNCHANGED reader
    BY ProceedReaders
  <1>2. CASE CommitConfiguration
    <2>1. op.pc = "commit"
      BY <1>2 DEF CommitConfiguration, Sqlite
    <2>2. Unread
      BY <1>0, <2>1 DEF ReadersFollow, ModeMoving, PlaceInv, CommitInv
    <2> QED
      BY <1>1, <2>2 DEF ReadersFollow, Unread
  <1>3. CASE ~CommitConfiguration
    <2>1. db'.mode = db.mode /\ db'.verifier = db.verifier
      BY <1>0, <1>3 DEF TypeOK, Databases, Proceed, AdoptConfiguration, JournalRollback,
         StageKeychain, CleanKeychain, ForgetJournal, JournalReset, EraseKeychain, MarkPreparing, WriteBackup,
       MarkPrepared, ReplaceSecrets, WriteChange, PublishChange, InvalidateUncertain,
       InvalidateFailed, RecoverPhase, RestoreBackup, RepublishSecrets, MarkRolledBack, ClearBackup,
         FinishJournal, RecoverPending, Sqlite, Keychain, Publish
    <2>2. op'.kind \in {op.kind, "none"} /\ op'.pc # "adopt"
      <3>1. CASE AdoptConfiguration
        BY <1>0, <3>1 DEF AdoptConfiguration, Then, TypeOK, Mutations, Idle
      <3>2. CASE RecoverPhase
        BY <1>0, <3>2 DEF RecoverPhase, TypeOK, Mutations, Idle
      <3>3. CASE RecoverPending
        BY <1>0, <3>3 DEF RecoverPending, TypeOK, Mutations, Idle
      <3>4. CASE PublishChange \/ InvalidateFailed \/ RepublishSecrets \/ FinishJournal
        BY <1>0, <3>4 DEF PublishChange, InvalidateFailed, RepublishSecrets, FinishJournal, Publish,
           Sqlite, Then, AfterChange, TypeOK, Mutations, Idle
      <3>5. CASE ~(\/ AdoptConfiguration \/ RecoverPhase \/ RecoverPending \/ PublishChange
                   \/ InvalidateFailed \/ RepublishSecrets \/ FinishJournal)
        <4>1. \E pc \in {"stage", "commit", "forget", "idle", "erase", "backup", "prepared",
                        "replace", "write", "publish", "republish", "clear", "unmark"} : Then(pc)
          BY <1>3, <3>5 DEF Proceed, JournalRollback, StageKeychain, CleanKeychain, ForgetJournal,
             JournalReset, EraseKeychain, MarkPreparing, WriteBackup, MarkPrepared, ReplaceSecrets,
             WriteChange, InvalidateUncertain, RestoreBackup, MarkRolledBack, ClearBackup, Sqlite,
             Keychain, Publish
        <4> QED
          BY <1>0, <4>1 DEF Then, TypeOK, Mutations, Idle
      <3> QED
        BY <3>1, <3>2, <3>3, <3>4, <3>5
    <2>3. \/ db'.journal \in {db.journal, "none"}
          \/ op.kind \in {"change", "reset"}
      BY <1>0, <1>3 DEF TypeOK, Databases, PlaceInv, ConfigureInv, Proceed, AdoptConfiguration,
         JournalRollback, StageKeychain, CleanKeychain, ForgetJournal, JournalReset, EraseKeychain,
         MarkPreparing, WriteBackup, MarkPrepared, ReplaceSecrets, WriteChange, PublishChange,
         InvalidateUncertain, InvalidateFailed, RecoverPhase, RestoreBackup, RepublishSecrets,
         MarkRolledBack, ClearBackup, FinishJournal, RecoverPending, Sqlite, Keychain, Publish
    <2>4. ModeMoving' => ModeMoving
      BY <2>1, <2>2, <2>3 DEF ModeMoving
    <2> QED
      BY <1>0, <1>1, <2>1, <2>4 DEF ReadersFollow, Unread
  <1> QED
    BY <1>2, <1>3

(* A publication leaves no load that may fill the cache. *)
LEMMA Published ==
    ASSUME ReadersFollow', current' = {}, mem'.entries \in {Absent, Authority'},
           op'.pc # "replace"
    PROVE  CacheInv'
  BY DEF CacheInv, CacheTrue, NoLoadAcrossRollback

(* A write of a mutation keeps the cache true, or is about to replace it. *)
LEMMA ProceedCache ==
    ASSUME ProfileInv, ProfileInv', CacheInv, Proceed
    PROVE  CacheInv'
  <1>0. TypeOK /\ ShapeInv /\ PlaceInv /\ CacheTrue /\ NoLoadAcrossRollback
    BY DEF ProfileInv, CacheInv
  <1>1. ReadersFollow' /\ UNCHANGED reader
    BY ProceedFollow, ProceedReaders
  <1>2. CASE AdoptConfiguration
    <2>1. /\ current' = {} /\ mem'.entries \in {Absent, op.new} /\ UNCHANGED <<db, os>>
          /\ op'.pc # "replace" /\ op.pc = "adopt"
      BY <1>0, <1>2 DEF AdoptConfiguration, TypeOK, Processes, Then, Mutations, Idle
    <2>2. op.new = Authority'
      BY <1>0, <2>1 DEF PlaceInv, AdoptInv, Authority
    <2> QED
      BY <1>1, <2>1, <2>2, Published
  <1>3. CASE PublishChange \/ RepublishSecrets \/ InvalidateUncertain \/ InvalidateFailed
    <2>1. /\ current' = {} /\ UNCHANGED <<db, os>>
          /\ \/ op.pc = "publish" /\ mem'.entries = op.new
             \/ op.pc = "republish" /\ mem'.entries = op.old
             \/ mem'.entries = Absent
      BY <1>0, <1>3 DEF PublishChange, RepublishSecrets, InvalidateUncertain, InvalidateFailed,
         Publish, PublishCache, TypeOK, Processes
    <2>2. op'.pc # "replace"
      BY <1>0, <1>3 DEF PublishChange, RepublishSecrets, InvalidateUncertain, InvalidateFailed,
         Publish, Then, TypeOK, Mutations, Idle
    <2>3. mem'.entries \in {Absent, Authority'}
      BY <1>0, <2>1 DEF PlaceInv, MutateInv, RecoverInv, Authority
    <2> QED
      BY <1>1, <2>1, <2>2, <2>3, Published
  <1>4. CASE CommitConfiguration
    <2>1. op'.pc = "adopt" /\ op.pc = "commit" /\ db'.change = db.change
      BY <1>0, <1>4 DEF CommitConfiguration, Sqlite, Then, TypeOK, Mutations, Databases
    <2>2. db.change # "prepared"
      BY <1>0, <2>1 DEF PlaceInv, ShapeInv, CommitInv, RecoveryNeverRefuses, Settled
    <2> QED
      BY <1>1, <2>1, <2>2 DEF CacheInv, CacheTrue, NoLoadAcrossRollback, Replacing
  <1>5. CASE WriteChange
    <2>1. op'.pc = "publish" /\ op.pc = "write" /\ db'.change \in {db.change, "committed"}
          /\ (op.to # "keychain" \/ db'.change = "committed")
      BY <1>0, <1>5 DEF WriteChange, Sqlite, Then, TypeOK, Mutations, Databases
    <2>2. db'.change # "prepared"
      BY <1>0, <2>1 DEF PlaceInv, MutateInv, Settled
    <2> QED
      BY <1>1, <2>1, <2>2 DEF CacheInv, CacheTrue, NoLoadAcrossRollback, Replacing
  <1>6. CASE JournalReset
    <2>1. op'.pc = "erase" /\ op.pc = "intend" /\ db'.change = db.change /\ db'.journal = "reset"
      BY <1>0, <1>6 DEF JournalReset, Sqlite, Then, TypeOK, Mutations, Databases
    <2>2. db.change # "prepared"
      BY <1>0, <2>1 DEF PlaceInv, ConfigureInv, Settled
    <2> QED
      BY <1>1, <2>1, <2>2 DEF CacheInv, CacheTrue, NoLoadAcrossRollback
  <1>7. CASE ~(\/ AdoptConfiguration \/ PublishChange \/ RepublishSecrets \/ InvalidateUncertain
               \/ InvalidateFailed \/ CommitConfiguration \/ WriteChange \/ JournalReset)
    <2>1. Authority' = Authority
      BY <1>7, ProceedInvisible DEF Vault!vaultVars
    <2>2. current' = current
      BY <1>7 DEF Proceed, JournalRollback, StageKeychain, CleanKeychain, ForgetJournal,
         EraseKeychain, MarkPreparing, WriteBackup, MarkPrepared, ReplaceSecrets, RecoverPhase,
         RestoreBackup, MarkRolledBack, ClearBackup, FinishJournal, RecoverPending, Sqlite, Keychain
    <2>3. mem'.entries = mem.entries
      BY <1>0, <1>7 DEF Proceed, JournalRollback, StageKeychain, CleanKeychain, ForgetJournal,
         EraseKeychain, MarkPreparing, WriteBackup, MarkPrepared, ReplaceSecrets, RecoverPhase,
         RestoreBackup, MarkRolledBack, ClearBackup, FinishJournal, RecoverPending, Sqlite, Keychain,
         TypeOK, Processes, Loaded
    <2>4. CASE ReplaceSecrets
      <3>1. op'.pc = "write" /\ op.pc = "replace" /\ UNCHANGED db
        BY <1>0, <2>4 DEF ReplaceSecrets, Keychain, Then, TypeOK, Mutations
      <3>2. db.change = "prepared"
        BY <1>0, <3>1 DEF PlaceInv, MutateInv
      <3> QED
        BY <1>1, <3>1, <3>2 DEF CacheInv, CacheTrue, NoLoadAcrossRollback, Replacing
    <2>5. CASE MarkPrepared
      <3>1. op'.pc = "replace" /\ op.pc = "prepared" /\ UNCHANGED <<os, mem>> /\ db'.journal = db.journal
        BY <1>0, <2>5 DEF MarkPrepared, Sqlite, Then, TypeOK, Mutations, Databases
      <3>2. mem.loaded \in {Absent, os.blob}
        BY <1>0, <3>1 DEF PlaceInv, ShapeInv, MutateInv, BlobLoaded, RecoveryNeverRefuses
      <3>3. CacheTrue'
        BY <1>0, <1>1, <2>1, <2>2, <2>3, <3>1 DEF CacheTrue, Replacing
      <3> QED
        BY <1>1, <3>1, <3>2, <3>3 DEF CacheInv, NoLoadAcrossRollback
    <2>6. CASE ~ReplaceSecrets /\ ~MarkPrepared
      <3>0. op'.pc # "replace"
        <4>1. CASE RecoverPhase
          BY <1>0, <4>1 DEF RecoverPhase, TypeOK, Mutations, Idle
        <4>2. CASE RecoverPending
          BY <1>0, <4>2 DEF RecoverPending, TypeOK, Mutations, Idle
        <4>3. CASE FinishJournal
          BY <1>0, <4>3 DEF FinishJournal, Sqlite, Then, AfterChange, TypeOK, Mutations, Idle
        <4>4. CASE ~RecoverPhase /\ ~RecoverPending /\ ~FinishJournal
          <5>1. \E pc \in {"stage", "commit", "forget", "idle", "backup", "prepared", "republish",
                          "clear", "unmark"} : Then(pc)
            BY <1>7, <2>6, <4>4 DEF Proceed, JournalRollback, StageKeychain, CleanKeychain,
               ForgetJournal, EraseKeychain, MarkPreparing, WriteBackup, RestoreBackup,
               MarkRolledBack, ClearBackup, Sqlite, Keychain
          <5> QED
            BY <1>0, <5>1 DEF Then, TypeOK, Mutations, Idle
        <4> QED
          BY <4>1, <4>2, <4>3, <4>4
      <3>1. op.pc \notin {"adopt", "publish", "replace", "write", "undo", "invalidate"}
        BY <1>7, <2>6 DEF Proceed, JournalRollback, StageKeychain, CleanKeychain, ForgetJournal,
           EraseKeychain, MarkPreparing, WriteBackup, RecoverPhase, RestoreBackup, MarkRolledBack,
           ClearBackup, FinishJournal, RecoverPending, Sqlite, Keychain
      <3>2. /\ db.journal = "reset" => db'.journal = "reset"
            /\ db'.change = "prepared" => db.change = "prepared"
        BY <1>0, <1>7, <2>6 DEF Proceed, JournalRollback, StageKeychain, CleanKeychain, ForgetJournal,
           EraseKeychain, MarkPreparing, WriteBackup, RecoverPhase, RestoreBackup, MarkRolledBack,
           ClearBackup, FinishJournal, RecoverPending, Sqlite, Keychain, TypeOK, Databases, PlaceInv,
           ConfigureInv, Settled
      <3>3. CacheTrue'
        BY <1>0, <1>1, <2>1, <2>2, <2>3, <3>1, <3>2 DEF CacheTrue, Replacing
      <3>4. NoLoadAcrossRollback'
        BY <1>0, <1>1, <2>2, <3>1, <3>2 DEF NoLoadAcrossRollback
      <3> QED
        BY <1>1, <3>0, <3>3, <3>4 DEF CacheInv
    <2> QED
      BY <2>4, <2>5, <2>6
  <1> QED
    BY <1>2, <1>3, <1>4, <1>5, <1>6, <1>7

(* What begins a mutation: a change of mode waits for the opens. *)
LEMMA BeginCache ==
    ASSUME ~OpenSpansModeChange, ProfileInv, CacheInv, Begin \/ Recover
    PROVE  CacheInv'
  <1>0. TypeOK /\ ShapeInv /\ PlaceInv /\ ReadersFollow /\ CacheTrue /\ NoLoadAcrossRollback
    BY DEF ProfileInv, CacheInv
  <1>1. CASE Unlock
    <2>1. /\ UNCHANGED <<db, os, op, reader>> /\ current' = {} /\ op.pc = "idle"
          /\ mem'.entries = Absent
      BY <1>0, <1>1 DEF Unlock, TypeOK, Processes, Idle
    <2>2. ReadersFollow'
      BY <1>0, <2>1 DEF ReadersFollow, ModeMoving, Unread
    <2> QED
      BY <2>1, <2>2, Published
  <1>2. ASSUME NEW o, NEW mode, Start(o, mode),
               o.kind \in {"configure", "change", "reset"} => Unread,
               o.pc \notin {"adopt", "publish", "replace", "invalidate", "undo"},
               o.pc = "write" => Settled
        PROVE  CacheInv'
    <2>1. /\ UNCHANGED <<db, os, reader, current>> /\ op = Idle /\ op' = o
          /\ mem'.entries = mem.entries
      BY <1>0, <1>2 DEF Start, Loaded, TypeOK, Processes
    <2>2. op.pc = "idle" /\ op.kind = "none" /\ Authority' = Authority
      BY <2>1 DEF Idle, Authority
    <2>3. ReadersFollow'
      BY <1>0, <1>2, <2>1, <2>2 DEF ReadersFollow, ModeMoving, Unread
    <2>4. CacheTrue'
      BY <1>0, <1>2, <2>1, <2>2 DEF CacheTrue, Replacing
    <2>5. NoLoadAcrossRollback'
      BY <1>0, <1>2, <2>1, <2>2 DEF NoLoadAcrossRollback
    <2> QED
      BY <1>2, <2>1, <2>3, <2>4, <2>5 DEF CacheInv
  <1>3. ASSUME NEW to \in Modes, Configure(to) PROVE CacheInv'
    <2> DEFINE o == [Idle EXCEPT !.pc = "commit", !.kind = "configure", !.to = to,
                                 !.new = NoSecrets]
    <2>1. Start(o, to) /\ ~db.onboarded
      BY <1>3 DEF Configure
    <2>2. Unread
      BY <1>0, <2>1 DEF ShapeInv, StoresFit, ReadersFollow, ModeMoving
    <2>3. o.pc = "commit"
      BY DEF Idle
    <2> HIDE DEF o
    <2> QED
      BY <1>2, <2>1, <2>2, <2>3
  <1>4. ASSUME NEW to \in Modes, ChangeMode(to) PROVE CacheInv'
    <2> DEFINE o == [Idle EXCEPT !.pc = IF to = "keychain" THEN "journal" ELSE "commit",
                                 !.kind = "change", !.to = to, !.new = Existing,
                                 !.pending = IF db.mode = "keychain" THEN "cleanup" ELSE "none"]
    <2>1. Unread /\ Start(o, IF to = "keychain" THEN to ELSE db.mode)
      BY <1>4 DEF ChangeMode
    <2>2. o.pc \in {"journal", "commit"}
      BY DEF Idle
    <2> HIDE DEF o
    <2> QED
      BY <1>2, <2>1, <2>2
  <1>5. CASE Reset
    <2> DEFINE o == [Idle EXCEPT !.pc = IF db.mode = "keychain" THEN "intend" ELSE "commit",
                                 !.kind = "reset", !.new = NoSecrets]
    <2>1. Unread /\ Start(o, "none")
      BY <1>5 DEF Reset
    <2>2. o.pc \in {"intend", "commit"}
      BY DEF Idle
    <2> HIDE DEF o
    <2> QED
      BY <1>2, <2>1, <2>2
  <1>6. CASE Recover
    <2> DEFINE o == [Idle EXCEPT !.pc = "phase", !.kind = "recover"]
    <2>1. Start(o, "none")
      BY <1>6 DEF Recover
    <2>2. o.pc = "phase" /\ o.kind = "recover"
      BY DEF Idle
    <2> HIDE DEF o
    <2> QED
      BY <1>2, <2>1, <2>2
  <1>7. ASSUME NEW recs, NEW new, MayMutate, Mutate(recs, new) PROVE CacheInv'
    <2> DEFINE o == [Idle EXCEPT !.pc = IF db.mode = "keychain" THEN "preparing" ELSE "write",
                                 !.kind = "mutate", !.to = db.mode, !.old = Existing,
                                 !.new = new, !.recs = recs]
    <2>1. Settled /\ Start(o, db.mode)
      BY <1>7 DEF Mutate, MayMutate
    <2>2. o.pc \in {"preparing", "write"} /\ o.kind = "mutate"
      BY DEF Idle
    <2> HIDE DEF o
    <2> QED
      BY <1>2, <2>1, <2>2
  <1> QED
    BY <1>1, <1>3, <1>4, <1>5, <1>6, <1>7 DEF Begin, SaveRecord, DuplicateRecord, DeleteRecord

(* Failed writes and crashes. *)
LEMMA FaultCache ==
    ASSUME ProfileInv, CacheInv, SqliteFails \/ KeychainFails \/ Crash
    PROVE  CacheInv'
  <1>0. TypeOK /\ ShapeInv /\ PlaceInv /\ ReadersFollow /\ CacheTrue /\ NoLoadAcrossRollback
    BY DEF ProfileInv, CacheInv
  <1>1. CASE SqliteFails \/ KeychainFails
    <2>1. UNCHANGED <<db, mem, reader, current>> /\ Authority' = Authority
      BY <1>1, KeychainFailsKeeps DEF SqliteFails, Authority
    <2>2. \/ op' = Idle /\ op.pc \notin {"adopt", "publish", "replace", "write", "undo", "invalidate"}
          \/ op' = [op EXCEPT !.pc = "undo"] /\ op.pc = "write"
          \/ op' = [op EXCEPT !.pc = "invalidate"] /\ op.pc = "replace"
      BY <1>1 DEF SqliteFails, KeychainFails, Then
    <2>3. /\ op'.kind \in {op.kind, "none"} /\ op'.pc \in {"idle", "undo", "invalidate"}
          /\ op'.pc = "idle" => op.pc \notin {"adopt", "publish", "replace", "write", "undo", "invalidate"}
          /\ op'.pc = "undo" => op.pc = "write"
          /\ op'.pc = "invalidate" => op.pc = "replace"
      BY <1>0, <2>2 DEF TypeOK, Mutations, Idle
    <2>4. ReadersFollow'
      BY <1>0, <2>1, <2>3 DEF ReadersFollow, ModeMoving, Unread
    <2>5. CacheTrue'
      BY <1>0, <2>1, <2>3 DEF CacheTrue, Replacing
    <2>6. NoLoadAcrossRollback'
      BY <1>0, <2>1, <2>3 DEF NoLoadAcrossRollback
    <2> QED
      BY <2>3, <2>4, <2>5, <2>6 DEF CacheInv
  <1>2. CASE Crash
    <2>1. /\ op'.pc = "idle" /\ mem'.entries = Absent /\ current' = {}
          /\ \A r \in Readers : reader'[r].pc = "idle"
      BY <1>2 DEF Crash, Idle, Restarted, Resting
    <2> QED
      BY <2>1, Published DEF ReadersFollow, Unread
  <1> QED
    BY <1>1, <1>2

(* What a load reads is what the profile holds, unless the shared cache is *)
(* about to be replaced anyway.                                            *)
LEMMA LoadIsAuthority ==
    ASSUME ProfileInv, CacheInv, NEW r \in Readers, reader[r].pc = "load",
           ~Replacing, r \in current,
           ReadBackend(reader[r].mode, reader[r].key) # Absent
    PROVE  ReadBackend(reader[r].mode, reader[r].key) = Authority
  <1>0. TypeOK /\ ShapeInv /\ PlaceInv /\ ReadersFollow /\ NoLoadAcrossRollback
    BY DEF ProfileInv, CacheInv
  <1>1. /\ reader[r].mode = db.mode /\ reader[r].key \in {NoKey, db.verifier}
        /\ db.mode \in Modes /\ db.journal = "none"
    BY <1>0 DEF ReadersFollow, ModeMoving, Unread, ProfileInv, OpenModes
  <1>2. CASE db.mode = "keychain"
    <2>1. mem.loaded \in {Absent, os.blob} /\ os.blob = Authority
      <3>1. CASE db.change = "prepared"
        <4>1. op.pc = "replace"
          BY <1>0, <3>1 DEF NoLoadAcrossRollback, Replacing
        <4>2. mem.loaded \in {Absent, os.blob}
          BY <4>1 DEF CacheInv
        <4> QED
          BY <1>0, <4>1, <4>2 DEF PlaceInv, MutateInv, ChangePcs
      <3>2. CASE db.change # "prepared"
        BY <1>0, <1>1, <1>2, <3>2 DEF ShapeInv, BlobLoaded, Authority
      <3> QED
        BY <3>1, <3>2
    <2> QED
      BY <1>1, <1>2, <2>1 DEF ReadBackend, GetAll
  <1>3. CASE db.mode = "plain"
    BY <1>0, <1>1, <1>3 DEF ReadBackend, ReadPlain, Authority, ShapeInv, KeyOpensRows
  <1>4. CASE db.mode = "encrypted"
    BY <1>0, <1>1, <1>4 DEF ReadBackend, ReadEncrypted, Authority, ShapeInv, KeyOpensRows
  <1> QED
    BY <1>1, <1>2, <1>3, <1>4 DEF Modes, SqliteModes

(* An open's reads: only a load of the current generation is published. *)
LEMMA ReaderCache ==
    ASSUME ProfileInv, CacheInv, NEW r \in Readers, Reading(r)
    PROVE  CacheInv'
  <1>0. TypeOK /\ ShapeInv /\ PlaceInv /\ ReadersFollow /\ CacheTrue /\ NoLoadAcrossRollback
    BY DEF ProfileInv, CacheInv
  <1>1. UNCHANGED <<db, os, op>> /\ Authority' = Authority /\ UNCHANGED Replacing
    BY DEF Reading, Snapshot, Resolve, Lookup, Recheck, Load, FillCache, Authority, Replacing
  <1>2. \A q \in Readers : q # r => reader'[q] = reader[q]
    BY <1>0 DEF Reading, Snapshot, Resolve, Lookup, Recheck, Load, FillCache, Read, TypeOK
  <1>3. op.pc = "replace" => mem'.loaded \in {Absent, os'.blob}
    BY <1>0, <1>1 DEF CacheInv, Reading, Snapshot, Resolve, Lookup, Recheck, Load, FillCache,
       Loaded, GetAll, TypeOK, Processes
  <1>4. current' \subseteq current \cup {r} /\ (reader[r].pc # "lookup" => current' \subseteq current)
    BY DEF Reading, Snapshot, Resolve, Lookup, Recheck, Load, FillCache
  <1>5. /\ reader'[r].pc = "load" => Settled /\ reader[r].pc = "recheck"
        /\ reader'[r].pc = "fill" => Load(r) /\ reader[r].pc = "load"
    <2> USE <1>0 DEF TypeOK, Resolutions, Read, Resting
    <2>1. CASE Snapshot(r)
      BY <2>1 DEF Snapshot
    <2>2. CASE Resolve(r)
      BY <2>2 DEF Resolve
    <2>3. CASE Lookup(r)
      BY <2>3 DEF Lookup
    <2>4. CASE Recheck(r)
      BY <2>4 DEF Recheck
    <2>5. CASE Load(r)
      BY <2>5 DEF Load
    <2>6. CASE FillCache(r)
      BY <2>6 DEF FillCache
    <2> QED
      BY <2>1, <2>2, <2>3, <2>4, <2>5, <2>6 DEF Reading
  <1>6. ReadersFollow'
    <2>1. \/ reader'[r].pc = "idle"
          \/ /\ reader'[r].mode = db.mode /\ reader'[r].key \in {NoKey, db.verifier}
             /\ reader[r].pc # "idle" \/ ~ModeMoving
      <3>1. CASE Snapshot(r)
        BY <1>0, <3>1 DEF Snapshot, ModeMoving, Settled, Idle, Resting, Modes, SqliteModes, TypeOK
      <3>2. CASE Recheck(r)
        BY <1>0, <3>2 DEF Recheck, Read, Resting, ReadersFollow, ModeMoving, Unread, ShapeInv,
           KeyOpensRows, TypeOK, Resolutions
      <3>3. CASE Resolve(r) \/ Lookup(r) \/ FillCache(r)
        BY <1>0, <3>3 DEF Resolve, Lookup, FillCache, Read, Resting, ReadersFollow, TypeOK,
           Resolutions
      <3>4. CASE Load(r)
        BY <1>0, <3>4 DEF Load, Read, Resting, ReadersFollow, TypeOK, Resolutions
      <3> QED
        BY <3>1, <3>2, <3>3, <3>4 DEF Reading
    <2> QED
      BY <1>0, <1>1, <1>2, <2>1 DEF ReadersFollow, ModeMoving, Unread
  <1>7. NoLoadAcrossRollback'
    <2>1. reader'[r].pc \in {"load", "fill"} =>
            reader[r].pc = "load" \/ (Settled /\ reader[r].pc = "recheck")
      BY <1>5
    <2> QED
      BY <1>0, <1>1, <1>2, <1>4, <2>1 DEF NoLoadAcrossRollback, Settled, TypeOK
  <1>8. CacheTrue'
    <2> SUFFICES ASSUME ~Replacing, db.journal # "reset"
                 PROVE  /\ mem'.entries \in {Absent, Authority}
                        /\ \A q \in current' : reader'[q].pc = "fill" => reader'[q].got = Authority
      BY <1>1 DEF CacheTrue
    <2>1. mem.entries \in {Absent, Authority}
      BY <1>0 DEF CacheTrue
    <2>2. \A q \in current : reader[q].pc = "fill" => reader[q].got = Authority
      BY <1>0 DEF CacheTrue
    <2>3. mem'.entries \in {Absent, Authority}
      <3>1. CASE Snapshot(r)
        <4>1. /\ Settled /\ op.pc = "idle" /\ db.mode \in Modes
              /\ mem.entries = Absent => Existing # Absent
          BY <3>1 DEF Snapshot, Idle
        <4>2. mem.entries = Absent => Existing = Authority
          BY <4>1, ExistingIsAuthority
        <4>3. mem' = mem \/ (mem.entries = Absent /\ mem'.entries = Existing)
          BY <1>0, <3>1 DEF Snapshot, Loaded, TypeOK, Processes
        <4> QED
          BY <2>1, <4>2, <4>3
      <3>2. CASE FillCache(r)
        BY <1>0, <2>1, <2>2, <3>2 DEF FillCache, TypeOK, Processes
      <3>3. CASE Resolve(r) \/ Lookup(r) \/ Recheck(r) \/ Load(r)
        BY <1>0, <2>1, <3>3 DEF Resolve, Lookup, Recheck, Load, Loaded, TypeOK, Processes
      <3> QED
        BY <3>1, <3>2, <3>3 DEF Reading
    <2>4. ASSUME r \in current', reader'[r].pc = "fill" PROVE reader'[r].got = Authority
      <3>1. Load(r)
        BY <1>5, <2>4
      <3>2. /\ reader[r].pc = "load" /\ r \in current
            /\ ReadBackend(reader[r].mode, reader[r].key) # Absent
            /\ reader'[r].got = ReadBackend(reader[r].mode, reader[r].key)
        BY <1>0, <2>4, <3>1 DEF Load, Read, Resting, TypeOK, Resolutions
      <3> QED
        BY <3>2, LoadIsAuthority
    <2> QED
      BY <1>0, <1>2, <1>4, <2>2, <2>3, <2>4 DEF TypeOK
  <1> QED
    BY <1>1, <1>3, <1>6, <1>7, <1>8 DEF CacheInv

(* CacheFresh, when no open spans a change of mode: a stale load is never  *)
(* published, whatever fails.  The run CredentialStaleMode shows that the  *)
(* hypothesis is needed.                                                   *)
THEOREM CacheAlwaysFresh ==
    ASSUME ~OpenSpansModeChange
    PROVE  Spec => []CacheFresh
  <1>1. ProfileInv /\ ProfileInv' /\ CacheInv /\ [Next]_vars => CacheInv'
    <2> SUFFICES ASSUME ProfileInv, ProfileInv', CacheInv, [Next]_vars PROVE CacheInv'
      OBVIOUS
    <2>1. CASE UNCHANGED vars
      BY <2>1 DEF vars, CacheInv, ReadersFollow, ModeMoving, Unread, CacheTrue, Replacing,
         NoLoadAcrossRollback, Authority
    <2> QED
      BY <2>1, BeginCache, ProceedCache, FaultCache, ReaderCache DEF Next
  <1>2. CacheInv => CacheFresh
    BY DEF CacheInv, CacheTrue, CacheFresh, Replacing, Settled, Idle
  <1> QED
    BY <1>1, <1>2, CacheInit, ProfileCorrect, PTL DEF Spec
============================================================================
