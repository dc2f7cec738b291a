---------------------------- MODULE BackupStatus ----------------------------
(***************************************************************************)
(* The last-backup-status resolver of src/core/src/backup/metadata.rs      *)
(* (last_uploaded_backup) together with the collaborators it reads: the    *)
(* per-device local settings (last backup version and timestamp), the      *)
(* cloud backup storage shared by the devices of one user, and the backup  *)
(* flow that records a backup locally and then uploads it.                 *)
(*                                                                         *)
(* The resolver is two steps of one process, as in the code:               *)
(*   - a deferred read transaction that fetches the timestamp, then the    *)
(*     version (lines 184-193), split at the two fetches;                  *)
(*   - outside the transaction, the match on the timestamp, the rebuilt    *)
(*     file name and the is_uploaded call of the storage (lines 194-216).  *)
(* The backup flow, the storage and the clock are not under src/ and are   *)
(* modelled from the spec (sections 2, 4.5, 5, 6).                         *)
(*                                                                         *)
(* A file name is the tuple of the five fields get_backup_file_name        *)
(* formats; module FilenameCodec checks that the formatting is injective   *)
(* on the grammar's tokens, which is all this module relies on.           *)
(***************************************************************************)
EXTENDS Naturals, FiniteSets

CONSTANTS
    Devices,           \* device identifiers of one user's devices
    OperatingSystems,  \* OperatingSystem tags
    DeviceOs,          \* OperatingSystem::default() on each device
    MaxVersion,        \* bound on the backup version of a device
    MaxTime,           \* bound on the unix clock
    None,              \* Option::None
    Err                \* the Err(..) result of the resolver

ASSUME DevicesAssumption == Devices # {} /\ IsFiniteSet(Devices)
ASSUME OsAssumption == DeviceOs \in [Devices -> OperatingSystems]
ASSUME MaxVersionAssumption == MaxVersion \in Nat \ {0}
ASSUME MaxTimeAssumption == MaxTime \in Nat
ASSUME NoneAssumption == None \notin Nat /\ Err \notin Nat /\ None # Err

VARIABLES
    now,       \* unix_timestamp() of the common clock
    settings,  \* LocalSettings row of each device: backup version, timestamp
    backups,   \* backup archives created on each device (their metadata)
    storage,   \* backups present in cloud storage (their metadata)
    writer,    \* state of each device's backup flow
    resolver,  \* state of each device's last_uploaded_backup call
    seen       \* history: the correct answers during the current call

vars == <<now, settings, backups, storage, writer, resolver, seen>>

-----------------------------------------------------------------------------
(* Data *)

Times == 0..MaxTime
Versions == 0..MaxVersion
OptTime == Times \cup {None}

\* The only backup scheme the code knows (BackupScheme::V1).
V1 == "V1"

\* The identifying fields of BackupMetadata (device name and KDF nonce are
\* carried only inside the sidecar and play no part in naming a backup).
Metadata == [backup_scheme: {V1}, backup_version: Versions, timestamp: Times,
             device_id: Devices, operating_system: OperatingSystems]

SettingsRow == [version: Versions, timestamp: OptTime]

\* Variant of BackupFileName that leaves the device id out of the name.
BackupFileNameNoDevice(scheme, os, timestamp, device_id, backup_version) ==
    <<scheme, os, timestamp, backup_version>>

\* get_backup_file_name: the five fields, in the order they are formatted.
BackupFileName(scheme, os, timestamp, device_id, backup_version) ==
    <<scheme, os, timestamp, device_id, backup_version>>

\* BackupMetadata::backup_file_name
FileNameOf(m) ==
    BackupFileName(m.backup_scheme, m.operating_system, m.timestamp,
                   m.device_id, m.backup_version)

\* CoreBackupStorageI::is_uploaded: a file of that name is in storage.
IsUploaded(name) == \E m \in storage : FileNameOf(m) = name

\* The answer that is right for device d in the current state: the
\* timestamp of its last recorded backup if that very backup (identified by
\* device and version, not by name) is in storage, else None.
Correct(d) ==
    IF settings[d].timestamp = None THEN None
    ELSE IF \E m \in storage : /\ m.device_id = d
                               /\ m.backup_version = settings[d].version
         THEN settings[d].timestamp
         ELSE None

-----------------------------------------------------------------------------
(* Initial state: no backup recorded, nothing uploaded, no call running. *)

Init ==
    /\ now \in Times
    /\ settings = [d \in Devices |-> [version |-> 0, timestamp |-> None]]
    /\ backups = [d \in Devices |-> {}]
    /\ storage = {}
    /\ writer = [d \in Devices |-> [pc |-> "idle", pending |-> None]]
    /\ resolver = [d \in Devices |->
                    [pc |-> "idle", snapshot |-> settings[d],
                     timestamp |-> None, version |-> 0, result |-> None]]
    /\ seen = [d \in Devices |-> {}]

-----------------------------------------------------------------------------
(* Environment: the clock, and backups deleted from storage (by pruning or *)
(* by the user through the storage provider).                             *)

Tick ==
    /\ now < MaxTime
    /\ now' = now + 1
    /\ UNCHANGED <<settings, backups, storage, writer, resolver>>

DeleteBackup ==
    \E name \in {FileNameOf(m) : m \in storage} :
        /\ storage' = {m \in storage : FileNameOf(m) # name}
        /\ UNCHANGED <<now, settings, backups, writer, resolver>>

-----------------------------------------------------------------------------
(* The backup flow of device d (spec section 2): build the metadata with  *)
(* the next version and the current time, record version and timestamp in *)
(* the local settings in one transaction, then upload the archive.        *)

CreateBackup(d) ==
    LET m == [backup_scheme |-> V1,
              backup_version |-> settings[d].version + 1,
              timestamp |-> now,
              device_id |-> d,
              operating_system |-> DeviceOs[d]]
    IN /\ writer[d].pc = "idle"
       /\ settings[d].version < MaxVersion
       /\ backups' = [backups EXCEPT ![d] = @ \cup {m}]
       /\ settings' = [settings EXCEPT ![d] = [version |-> m.backup_version,
                                                timestamp |-> m.timestamp]]
       /\ writer' = [writer EXCEPT ![d] = [pc |-> "created", pending |-> m]]
       /\ UNCHANGED <<now, storage, resolver>>

\* copy_to_storage returns true: the archive is now in storage.
UploadBackup(d) ==
    /\ writer[d].pc = "created"
    /\ storage' = storage \cup {writer[d].pending}
    /\ writer' = [writer EXCEPT ![d] = [pc |-> "idle", pending |-> None]]
    /\ UNCHANGED <<now, settings, backups, resolver>>

\* copy_to_storage returns false: the upload did not happen.
UploadFails(d) ==
    /\ writer[d].pc = "created"
    /\ writer' = [writer EXCEPT ![d] = [pc |-> "idle", pending |-> None]]
    /\ UNCHANGED <<now, settings, backups, storage, resolver>>

\* The app is killed: the in-memory state of the backup flow and of a
\* running resolver call is lost; the database and the storage persist.
Crash(d) ==
    /\ writer' = [writer EXCEPT ![d] = [pc |-> "idle", pending |-> None]]
    /\ resolver' = [resolver EXCEPT ![d].pc = "idle"]
    /\ UNCHANGED <<now, settings, backups, storage>>

-----------------------------------------------------------------------------
(* last_uploaded_backup on device d *)

\* deferred_transaction begins: the transaction reads one snapshot of the
\* settings, and fetch_backup_timestamp is its first read.
FetchBackupTimestamp(d) ==
    /\ resolver[d].pc \in {"idle", "done"}
    /\ resolver' = [resolver EXCEPT ![d] = [@ EXCEPT
                      !.pc = "tx",
                      !.snapshot = settings[d],
                      !.timestamp = settings[d].timestamp]]
    /\ UNCHANGED <<now, settings, backups, storage, writer>>

\* Variant of FetchBackupVersion reading the live settings, as two
\* separate autocommit reads would.
FetchBackupVersionLive(d) ==
    /\ resolver[d].pc = "tx"
    /\ resolver' = [resolver EXCEPT ![d] = [@ EXCEPT
                      !.pc = "read",
                      !.version = settings[d].version]]
    /\ UNCHANGED <<now, settings, backups, storage, writer>>

\* fetch_backup_version, the second read of the same transaction, which
\* then commits.
FetchBackupVersion(d) ==
    /\ resolver[d].pc = "tx"
    /\ resolver' = [resolver EXCEPT ![d] = [@ EXCEPT
                      !.pc = "read",
                      !.version = resolver[d].snapshot.version]]
    /\ UNCHANGED <<now, settings, backups, storage, writer>>

\* The transaction fails (the `?` after deferred_transaction).
TransactionFails(d) ==
    /\ resolver[d].pc = "tx"
    /\ resolver' = [resolver EXCEPT ![d] = [@ EXCEPT
                      !.pc = "done", !.result = Err]]
    /\ UNCHANGED <<now, settings, backups, storage, writer>>

\* After the transaction: no timestamp means no backup; otherwise rebuild
\* the file name with scheme V1, the host OS and the device id, and ask
\* the storage whether it is uploaded.
ResolveUpload(d) ==
    LET r == resolver[d]
        name == BackupFileName(V1, DeviceOs[d], r.timestamp, d, r.version)
    IN /\ r.pc = "read"
       /\ resolver' = [resolver EXCEPT ![d] = [@ EXCEPT
                         !.pc = "done",
                         !.result = IF r.timestamp = None THEN None
                                    ELSE IF IsUploaded(name) THEN r.timestamp
                                    ELSE None]]
       /\ UNCHANGED <<now, settings, backups, storage, writer>>

-----------------------------------------------------------------------------
(* The history variable seen: from the instant a call's transaction takes *)
(* its snapshot until the call returns, every state's correct answer.     *)

Busy(r) == r.pc \in {"tx", "read"}

RecordSeen ==
    seen' = [d \in Devices |->
               IF Busy(resolver'[d]) /\ ~Busy(resolver[d]) THEN {Correct(d)'}
               ELSE IF Busy(resolver[d]) THEN seen[d] \cup {Correct(d)'}
               ELSE seen[d]]

Step ==
    \/ Tick
    \/ DeleteBackup
    \/ \E d \in Devices :
          \/ CreateBackup(d)
          \/ UploadBackup(d)
          \/ UploadFails(d)
          \/ Crash(d)
          \/ FetchBackupTimestamp(d)
          \/ FetchBackupVersion(d)
          \/ TransactionFails(d)
          \/ ResolveUpload(d)

Next == Step /\ RecordSeen

Spec == Init /\ [][Next]_vars

-----------------------------------------------------------------------------
(* Properties *)

TypeOK ==
    /\ now \in Times
    /\ settings \in [Devices -> SettingsRow]
    /\ backups \in [Devices -> SUBSET Metadata]
    /\ storage \subseteq Metadata
    /\ writer \in [Devices -> [pc: {"idle"}, pending: {None}]
                           \cup [pc: {"created"}, pending: Metadata]]
    /\ resolver \in [Devices -> [pc: {"idle", "tx", "read", "done"},
                                 snapshot: SettingsRow,
                                 timestamp: OptTime,
                                 version: Versions,
                                 result: OptTime \cup {Err}]]
    /\ seen \in [Devices -> SUBSET OptTime]

\* The version and timestamp a call holds after its transaction are the
\* pair of one backup the device really recorded (or the initial pair):
\* the two fetches of last_uploaded_backup are not torn by a concurrent
\* backup recording a new version between them.
RecordedPairs(d) ==
    {<<0, None>>} \cup {<<m.backup_version, m.timestamp>> : m \in backups[d]}

PairConsistent ==
    \A d \in Devices :
        resolver[d].pc = "read" =>
            <<resolver[d].version, resolver[d].timestamp>> \in RecordedPairs(d)

\* Every answer last_uploaded_backup returns was the right answer at some
\* instant of the call: Some(t) only if at that instant t was the device's
\* last recorded backup and that backup was in storage, None only if at
\* that instant there was no such uploaded last backup.  It fails if the
\* rebuilt name can match another device's file, an older backup of the
\* device, or miss the file the backup flow uploaded.
Linearizable ==
    \A d \in Devices :
        resolver[d].pc = "done" /\ resolver[d].result # Err =>
            resolver[d].result \in seen[d]

\* The refinement mapping to LastUploadedBackup: the settings are the last
\* recorded backup, storage is seen as the <<device, version>> pairs of its
\* files, tx and read are one running call, and seen is the window.
StoredPairs == {<<m.device_id, m.backup_version>> : m \in storage}

CallState == [d \in Devices |-> IF Busy(resolver[d]) THEN "busy"
                                ELSE IF resolver[d].pc = "done" THEN "done"
                                ELSE "idle"]

Answers == [d \in Devices |-> resolver[d].result]

Status == INSTANCE LastUploadedBackup
              WITH last <- settings, uploaded <- StoredPairs, call <- CallState,
                   answer <- Answers, window <- seen

\* The resolver with its collaborators implements LastUploadedBackup: every
\* answer of last_uploaded_backup is one the abstract call may give,
\* whatever the backup flow, the storage and the other devices do.
LastUploadedBackupSpec == Status!ASpec

=============================================================================
