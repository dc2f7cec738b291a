------------------------- MODULE BackupStatusProofs -------------------------
(***************************************************************************)
(* Proofs about BackupStatus for every value of the constants.             *)
(***************************************************************************)
EXTENDS BackupStatus, TLAPS

\* Correct(d) is always an optional timestamp.
LEMMA CorrectType ==
    ASSUME settings \in [Devices -> SettingsRow], NEW d \in Devices
    PROVE  Correct(d) \in OptTime
BY DEF Correct, SettingsRow, OptTime

\* The history step keeps seen a function to sets of optional timestamps.
LEMMA RecordSeenType ==
    ASSUME TypeOK, settings' \in [Devices -> SettingsRow], RecordSeen
    PROVE  seen' \in [Devices -> SUBSET OptTime]
<1>1. \A d \in Devices : Correct(d)' \in OptTime
  BY CorrectType DEF Correct, SettingsRow, OptTime
<1>. QED BY <1>1 DEF RecordSeen, TypeOK

\* TypeOK holds in the initial states.
LEMMA TypeInit == Init => TypeOK
BY MaxVersionAssumption, MaxTimeAssumption DEF Init, TypeOK, SettingsRow, OptTime, Versions, Times

\* Every step of the backup flow, the storage, the clock and the resolver
\* keeps TypeOK.
LEMMA TypeInductive == TypeOK /\ [Next]_vars => TypeOK'
<1>2. TypeOK /\ [Next]_vars => TypeOK'
  <2> SUFFICES ASSUME TypeOK, [Next]_vars PROVE TypeOK'
    OBVIOUS
  <2>1. CASE UNCHANGED vars
    BY <2>1 DEF vars, TypeOK
  <2>2. CASE Next
    <3>1. CASE Tick
      BY <2>2, <3>1, RecordSeenType, MaxTimeAssumption
      DEF Next, Tick, TypeOK, Times
    <3>2. CASE DeleteBackup
      BY <2>2, <3>2, RecordSeenType DEF Next, DeleteBackup, TypeOK
    <3>3. ASSUME NEW d \in Devices, CreateBackup(d) PROVE TypeOK'
      <4>1. settings' \in [Devices -> SettingsRow]
        BY <3>3, MaxVersionAssumption
        DEF CreateBackup, TypeOK, SettingsRow, Versions, OptTime, Times
      <4>0. [backup_scheme |-> V1,
             backup_version |-> settings[d].version + 1,
             timestamp |-> now,
             device_id |-> d,
             operating_system |-> DeviceOs[d]] \in Metadata
        <5>1. settings[d].version + 1 \in Versions
          BY <3>3, MaxVersionAssumption DEF CreateBackup, TypeOK, SettingsRow, Versions
        <5>2. DeviceOs[d] \in OperatingSystems
          BY OsAssumption
        <5>3. now \in Times
          BY DEF TypeOK
        <5>. QED BY <5>1, <5>2, <5>3 DEF Metadata
      <4>2. backups' \in [Devices -> SUBSET Metadata]
        BY <3>3, <4>0 DEF CreateBackup, TypeOK
      <4>3. writer' \in [Devices -> [pc: {"idle"}, pending: {None}]
                                 \cup [pc: {"created"}, pending: Metadata]]
        BY <3>3, <4>0 DEF CreateBackup, TypeOK
      <4>4. seen' \in [Devices -> SUBSET OptTime]
        BY <2>2, <4>1, RecordSeenType DEF Next
      <4>. QED BY <3>3, <4>1, <4>2, <4>3, <4>4 DEF CreateBackup, TypeOK
    <3>4. ASSUME NEW d \in Devices, UploadBackup(d) PROVE TypeOK'
      BY <2>2, <3>4, RecordSeenType DEF Next, UploadBackup, TypeOK
    <3>5. ASSUME NEW d \in Devices, UploadFails(d) PROVE TypeOK'
      BY <2>2, <3>5, RecordSeenType DEF Next, UploadFails, TypeOK
    <3>6. ASSUME NEW d \in Devices, Crash(d) PROVE TypeOK'
      BY <2>2, <3>6, RecordSeenType DEF Next, Crash, TypeOK
    <3>7. ASSUME NEW d \in Devices, FetchBackupTimestamp(d) PROVE TypeOK'
      BY <2>2, <3>7, RecordSeenType
      DEF Next, FetchBackupTimestamp, TypeOK, SettingsRow
    <3>8. ASSUME NEW d \in Devices, FetchBackupVersion(d) PROVE TypeOK'
      BY <2>2, <3>8, RecordSeenType
      DEF Next, FetchBackupVersion, TypeOK, SettingsRow
    <3>9. ASSUME NEW d \in Devices, TransactionFails(d) PROVE TypeOK'
      BY <2>2, <3>9, RecordSeenType DEF Next, TransactionFails, TypeOK
    <3>10. ASSUME NEW d \in Devices, ResolveUpload(d) PROVE TypeOK'
      <4>1. resolver[d].timestamp \in OptTime
        BY DEF TypeOK
      <4>2. \A x \in OptTime : \A b \in BOOLEAN :
               (IF x = None THEN None ELSE IF b THEN x ELSE None)
                  \in OptTime \cup {Err}
        BY DEF OptTime
      <4>3. resolver' \in [Devices -> [pc: {"idle", "tx", "read", "done"},
                                      snapshot: SettingsRow,
                                      timestamp: OptTime,
                                      version: Versions,
                                      result: OptTime \cup {Err}]]
        <5> DEFINE R == [pc: {"idle", "tx", "read", "done"},
                         snapshot: SettingsRow, timestamp: OptTime,
                         version: Versions, result: OptTime \cup {Err}]
        <5>1. resolver[d] \in R
          BY DEF TypeOK
        <5>2. PICK res \in OptTime \cup {Err} :
                 resolver' = [resolver EXCEPT ![d] = [@ EXCEPT
                                !.pc = "done", !.result = res]]
          BY <3>10, <4>1, <4>2 DEF ResolveUpload, IsUploaded
        <5>3. [resolver[d] EXCEPT !.pc = "done", !.result = res] \in R
          BY <5>1, <5>2
        <5>. QED BY <5>2, <5>3 DEF TypeOK
      <4>. QED BY <2>2, <3>10, <4>3, RecordSeenType
           DEF Next, ResolveUpload, TypeOK
    <3>. QED
      BY <2>2, <3>1, <3>2, <3>3, <3>4, <3>5, <3>6, <3>7, <3>8, <3>9, <3>10
      DEF Next, Step
  <2>. QED BY <2>1, <2>2
<1>. QED BY <1>2

\* TypeOK holds initially and is preserved by every step.
THEOREM TypeCorrect == Spec => []TypeOK
BY TypeInit, TypeInductive, PTL DEF Spec

-----------------------------------------------------------------------------
(* PairConsistent.  The settings row always holds the pair of a recorded  *)
(* backup (or the initial pair), backups are never forgotten, and a call's *)
(* snapshot is a settings row that both fetches copy from.                 *)

PairAt(d) ==
    /\ <<settings[d].version, settings[d].timestamp>> \in RecordedPairs(d)
    /\ resolver[d].pc \in {"tx", "read"} =>
          /\ <<resolver[d].snapshot.version,
               resolver[d].snapshot.timestamp>> \in RecordedPairs(d)
          /\ resolver[d].timestamp = resolver[d].snapshot.timestamp
    /\ resolver[d].pc = "read" =>
          resolver[d].version = resolver[d].snapshot.version

PairInv == TypeOK /\ \A d \in Devices : PairAt(d)

\* No step forgets a backup a device has created, so a recorded pair stays
\* recorded.
LEMMA PairsGrow ==
    ASSUME TypeOK, [Next]_vars, NEW d \in Devices
    PROVE  RecordedPairs(d) \subseteq RecordedPairs(d)'
<1>1. backups[d] \subseteq backups'[d]
  <2>1. CASE UNCHANGED vars
    BY <2>1 DEF vars
  <2>2. CASE \E e \in Devices : CreateBackup(e)
    BY <2>2 DEF CreateBackup, TypeOK
  <2>3. CASE ~(\E e \in Devices : CreateBackup(e)) /\ Next
    BY <2>3 DEF Next, Step, Tick, DeleteBackup, UploadBackup, UploadFails,
       Crash, FetchBackupTimestamp, FetchBackupVersion, TransactionFails,
       ResolveUpload
  <2>. QED BY <2>1, <2>2, <2>3
<1>. QED BY <1>1 DEF RecordedPairs

\* The initial states satisfy PairInv.
LEMMA PairInvInit == Init => PairInv
BY TypeInit DEF Init, PairInv, PairAt, RecordedPairs

\* The steps that leave settings and resolver alone keep PairAt.
LEMMA PairAtFrame ==
    ASSUME TypeOK, [Next]_vars, NEW d \in Devices, PairAt(d),
           settings'[d] = settings[d], resolver'[d] = resolver[d]
    PROVE  PairAt(d)'
BY PairsGrow DEF PairAt

\* Every step keeps PairInv.
LEMMA PairInvStep == PairInv /\ [Next]_vars => PairInv'
<1> SUFFICES ASSUME PairInv, [Next]_vars PROVE PairInv'
  OBVIOUS
<1>1. TypeOK'
  BY TypeInductive DEF PairInv
<1>2. ASSUME NEW d \in Devices PROVE PairAt(d)'
  <2>0. TypeOK /\ PairAt(d)
    BY DEF PairInv
  <2>1. CASE UNCHANGED vars
    BY <2>0, <2>1, PairAtFrame DEF vars
  <2>2. CASE Tick \/ DeleteBackup
    BY <2>0, <2>2, PairAtFrame DEF Tick, DeleteBackup
  <2>3. ASSUME NEW e \in Devices, UploadBackup(e) \/ UploadFails(e)
        PROVE PairAt(d)'
    BY <2>0, <2>3, PairAtFrame DEF UploadBackup, UploadFails
  <2>4. ASSUME NEW e \in Devices, CreateBackup(e) PROVE PairAt(d)'
    <3>1. CASE e # d
      BY <2>0, <3>1, <2>4, PairAtFrame DEF CreateBackup, TypeOK
    <3>2. CASE e = d
      <4>1. <<settings'[d].version, settings'[d].timestamp>> \in RecordedPairs(d)'
        BY <2>0, <2>4, <3>2 DEF CreateBackup, TypeOK, RecordedPairs
      <4>2. resolver'[d] = resolver[d]
        BY <2>4 DEF CreateBackup
      <4>. QED BY <2>0, <4>1, <4>2, PairsGrow DEF PairAt
    <3>. QED BY <3>1, <3>2
  <2>5. ASSUME NEW e \in Devices, Crash(e) PROVE PairAt(d)'
    <3>1. settings' = settings
      BY <2>5 DEF Crash
    <3>2. CASE e # d
      BY <2>0, <2>5, <3>1, <3>2, PairAtFrame DEF Crash, TypeOK
    <3>3. CASE e = d
      <4>1. resolver'[d].pc = "idle"
        BY <2>0, <2>5, <3>3 DEF Crash, TypeOK
      <4>. QED BY <2>0, <3>1, <4>1, PairsGrow DEF PairAt
    <3>. QED BY <3>2, <3>3
  <2>6. ASSUME NEW e \in Devices, FetchBackupTimestamp(e) PROVE PairAt(d)'
    <3>1. settings' = settings
      BY <2>6 DEF FetchBackupTimestamp
    <3>2. CASE e # d
      BY <2>0, <2>6, <3>1, <3>2, PairAtFrame DEF FetchBackupTimestamp, TypeOK
    <3>3. CASE e = d
      <4>1. /\ resolver'[d].snapshot = settings[d]
            /\ resolver'[d].timestamp = settings[d].timestamp
            /\ resolver'[d].pc = "tx"
        BY <2>0, <2>6, <3>3 DEF FetchBackupTimestamp, TypeOK
      <4>. QED BY <2>0, <3>1, <4>1, PairsGrow DEF PairAt
    <3>. QED BY <3>2, <3>3
  <2>7. ASSUME NEW e \in Devices, FetchBackupVersion(e) PROVE PairAt(d)'
    <3>1. settings' = settings
      BY <2>7 DEF FetchBackupVersion
    <3>2. CASE e # d
      BY <2>0, <2>7, <3>1, <3>2, PairAtFrame DEF FetchBackupVersion, TypeOK
    <3>3. CASE e = d
      <4>1. /\ resolver'[d].snapshot = resolver[d].snapshot
            /\ resolver'[d].timestamp = resolver[d].timestamp
            /\ resolver'[d].version = resolver[d].snapshot.version
            /\ resolver'[d].pc = "read"
            /\ resolver[d].pc = "tx"
        BY <2>0, <2>7, <3>3 DEF FetchBackupVersion, TypeOK
      <4>. QED BY <2>0, <3>1, <4>1, PairsGrow DEF PairAt
    <3>. QED BY <3>2, <3>3
  <2>8. ASSUME NEW e \in Devices, TransactionFails(e) \/ ResolveUpload(e)
        PROVE PairAt(d)'
    <3>1. settings' = settings
      BY <2>8 DEF TransactionFails, ResolveUpload
    <3>2. CASE e # d
      BY <2>0, <2>8, <3>1, <3>2, PairAtFrame
      DEF TransactionFails, ResolveUpload, TypeOK
    <3>3. CASE e = d
      <4>1. resolver'[d].pc = "done"
        <5>1. CASE TransactionFails(e)
          BY <2>0, <5>1, <3>3 DEF TransactionFails, TypeOK
        <5>2. CASE ResolveUpload(e)
          <6>1. PICK res : resolver' = [resolver EXCEPT ![d] = [@ EXCEPT
                                          !.pc = "done", !.result = res]]
            BY <5>2, <3>3 DEF ResolveUpload
          <6>. QED BY <2>0, <6>1 DEF TypeOK
        <5>. QED BY <2>8, <5>1, <5>2
      <4>. QED BY <2>0, <3>1, <4>1, PairsGrow DEF PairAt
    <3>. QED BY <3>2, <3>3
  <2>. QED BY <2>1, <2>2, <2>3, <2>4, <2>5, <2>6, <2>7, <2>8 DEF Next, Step
<1>. QED BY <1>1, <1>2 DEF PairInv

\* The two fetches of last_uploaded_backup always read the version and the
\* timestamp of one recorded backup, however many devices back up
\* concurrently.
THEOREM PairConsistentHolds == Spec => []PairConsistent
<1>1. PairInv => PairConsistent
  BY DEF PairInv, PairAt, PairConsistent
<1>. QED BY PairInvInit, PairInvStep, <1>1, PTL DEF Spec

-----------------------------------------------------------------------------
(* Linearizable.                                                           *)

\* The backup of device d with version v is in storage.
InStorage(d, v) == \E m \in storage : m.device_id = d /\ m.backup_version = v

\* What the backup flow and the storage guarantee: storage holds only
\* backups that were created, a device's backups carry its own name fields
\* and distinct versions up to the recorded one, and the backup being
\* uploaded is the last one recorded.
StoredCreated == \A m \in storage : m \in backups[m.device_id]
BackupsNamed ==
    \A d \in Devices : \A m \in backups[d] :
        /\ m.device_id = d
        /\ m.operating_system = DeviceOs[d]
        /\ m.backup_scheme = V1
        /\ 1 <= m.backup_version
        /\ m.backup_version <= settings[d].version
VersionsUnique ==
    \A d \in Devices : \A m1, m2 \in backups[d] :
        m1.backup_version = m2.backup_version => m1 = m2
PendingLast ==
    \A d \in Devices :
        writer[d].pc = "created" =>
           /\ writer[d].pending \in backups[d]
           /\ writer[d].pending.backup_version = settings[d].version
StoreInv == StoredCreated /\ BackupsNamed /\ VersionsUnique /\ PendingLast

\* While a call runs, seen already holds None if the settings moved on or
\* nothing was recorded, and the snapshot's timestamp if its backup is in
\* storage; the current correct answer is always in seen.
ResolverAt(d) ==
    Busy(resolver[d]) =>
        /\ resolver[d].snapshot.version <= settings[d].version
        /\ resolver[d].snapshot.timestamp = None
           \/ settings[d] # resolver[d].snapshot => None \in seen[d]
        /\ resolver[d].snapshot.timestamp # None
           /\ InStorage(d, resolver[d].snapshot.version)
              => resolver[d].snapshot.timestamp \in seen[d]
        /\ Correct(d) \in seen[d]

LEMMA StoreInvInit == Init => StoreInv
BY DEF Init, StoreInv, StoredCreated, BackupsNamed, VersionsUnique,
   PendingLast

\* CreateBackup adds the next version, UploadBackup stores the pending
\* backup; no other step touches the settings, the backups or the writer
\* except to drop the pending upload.
LEMMA StoreInvStep == TypeOK /\ StoreInv /\ [Next]_vars => StoreInv'
<1> SUFFICES ASSUME TypeOK, StoreInv, [Next]_vars PROVE StoreInv'
  OBVIOUS
<1>1. CASE UNCHANGED vars
  BY <1>1 DEF vars, StoreInv, StoredCreated, BackupsNamed, VersionsUnique,
     PendingLast
<1>2. ASSUME UNCHANGED <<settings, backups, writer>>,
             storage' \subseteq storage
      PROVE  StoreInv'
  BY <1>2 DEF StoreInv, StoredCreated, BackupsNamed, VersionsUnique,
     PendingLast
<1>3. ASSUME NEW e \in Devices, CreateBackup(e) PROVE StoreInv'
  <2> DEFINE m == [backup_scheme |-> V1,
                   backup_version |-> settings[e].version + 1,
                   timestamp |-> now, device_id |-> e,
                   operating_system |-> DeviceOs[e]]
  <2>1. /\ backups' = [backups EXCEPT ![e] = @ \cup {m}]
        /\ settings' = [settings EXCEPT ![e] = [version |-> m.backup_version,
                                                timestamp |-> now]]
        /\ writer' = [writer EXCEPT ![e] = [pc |-> "created", pending |-> m]]
        /\ writer[e].pc = "idle"
        /\ storage' = storage
    BY <1>3 DEF CreateBackup
  <2>2. StoredCreated'
    BY <2>1 DEF StoreInv, StoredCreated, TypeOK, Metadata
  <2>3. BackupsNamed'
    <3> SUFFICES ASSUME NEW d \in Devices, NEW m1 \in backups'[d]
                 PROVE  /\ m1.device_id = d
                        /\ m1.operating_system = DeviceOs[d]
                        /\ m1.backup_scheme = V1
                        /\ 1 <= m1.backup_version
                        /\ m1.backup_version <= settings'[d].version
      BY DEF BackupsNamed
    <3>1. CASE d # e
      BY <3>1, <2>1 DEF StoreInv, BackupsNamed, TypeOK
    <3>2. CASE d = e /\ m1 = m
      BY <3>2, <2>1 DEF TypeOK, SettingsRow, Versions
    <3>3. CASE d = e /\ m1 # m
      <4>1. m1 \in backups[e] /\ settings'[e].version = settings[e].version + 1
        BY <3>3, <2>1 DEF TypeOK
      <4>. QED BY <3>3, <4>1 DEF StoreInv, BackupsNamed, TypeOK, SettingsRow,
               Versions, Metadata
    <3>. QED BY <3>1, <3>2, <3>3
  <2>4. VersionsUnique'
    <3> SUFFICES ASSUME NEW d \in Devices, NEW m1 \in backups'[d],
                        NEW m2 \in backups'[d],
                        m1.backup_version = m2.backup_version
                 PROVE  m1 = m2
      BY DEF VersionsUnique
    <3>1. CASE d # e
      BY <3>1, <2>1 DEF StoreInv, VersionsUnique, TypeOK
    <3>2. \A m3 \in backups[e] : m3.backup_version # m.backup_version
      BY DEF StoreInv, BackupsNamed, TypeOK, SettingsRow, Versions
    <3>3. CASE d = e
      BY <3>2, <3>3, <2>1 DEF StoreInv, VersionsUnique, TypeOK
    <3>. QED BY <3>1, <3>3
  <2>5. PendingLast'
    BY <2>1 DEF StoreInv, PendingLast, TypeOK
  <2>. QED BY <2>2, <2>3, <2>4, <2>5 DEF StoreInv
<1>4. ASSUME NEW e \in Devices, UploadBackup(e) PROVE StoreInv'
  <2>1. /\ storage' = storage \cup {writer[e].pending}
        /\ writer' = [writer EXCEPT ![e] = [pc |-> "idle", pending |-> None]]
        /\ writer[e].pc = "created"
        /\ UNCHANGED <<settings, backups>>
    BY <1>4 DEF UploadBackup
  <2>2. StoredCreated'
    BY <2>1 DEF StoreInv, StoredCreated, PendingLast, BackupsNamed, TypeOK
  <2>3. PendingLast'
    BY <2>1 DEF StoreInv, PendingLast, TypeOK
  <2>. QED BY <2>1, <2>2, <2>3 DEF StoreInv, BackupsNamed, VersionsUnique
<1>5. ASSUME NEW e \in Devices, UploadFails(e) \/ Crash(e) PROVE StoreInv'
  <2>1. /\ writer' = [writer EXCEPT ![e] = [pc |-> "idle", pending |-> None]]
        /\ UNCHANGED <<settings, backups, storage>>
    BY <1>5 DEF UploadFails, Crash
  <2>. QED BY <2>1 DEF StoreInv, StoredCreated, BackupsNamed,
           VersionsUnique, PendingLast, TypeOK
<1>. QED
  BY <1>1, <1>2, <1>3, <1>4, <1>5
  DEF Next, Step, Tick, DeleteBackup, FetchBackupTimestamp,
      FetchBackupVersion, TransactionFails, ResolveUpload

\* How the history variable moves in a step.
LEMMA SeenStep ==
    ASSUME TypeOK, RecordSeen, NEW d \in Devices
    PROVE  /\ Busy(resolver[d]) => seen'[d] = seen[d] \cup {Correct(d)'}
           /\ ~Busy(resolver[d]) /\ Busy(resolver'[d]) =>
                 seen'[d] = {Correct(d)'}
           /\ ~Busy(resolver[d]) /\ ~Busy(resolver'[d]) => seen'[d] = seen[d]
BY DEF RecordSeen

\* Only CreateBackup of the device itself changes its settings row: it
\* records the next version and leaves the storage alone.
LEMMA SettingsStep ==
    ASSUME TypeOK, [Next]_vars, NEW d \in Devices,
           settings'[d] # settings[d]
    PROVE  /\ settings'[d].version = settings[d].version + 1
           /\ storage' = storage
<1>1. CASE UNCHANGED vars
  BY <1>1 DEF vars
<1>2. CASE Next
  <2>1. PICK e \in Devices : CreateBackup(e)
    BY <1>2 DEF Next, Step, Tick, DeleteBackup, UploadBackup, UploadFails,
       Crash, FetchBackupTimestamp, FetchBackupVersion, TransactionFails,
       ResolveUpload
  <2>2. e = d
    BY <2>1 DEF CreateBackup, TypeOK
  <2>. QED BY <2>1, <2>2 DEF CreateBackup, TypeOK
<1>. QED BY <1>1, <1>2

\* A backup enters storage only as the pending upload of its device.
LEMMA StorageStep ==
    ASSUME TypeOK, [Next]_vars, NEW m \in storage', m \notin storage
    PROVE  \E e \in Devices : UploadBackup(e) /\ m = writer[e].pending
<1>1. CASE UNCHANGED vars
  BY <1>1 DEF vars
<1>2. CASE Next
  <2>1. PICK e \in Devices : UploadBackup(e)
    BY <1>2 DEF Next, Step, Tick, DeleteBackup, CreateBackup, UploadFails,
       Crash, FetchBackupTimestamp, FetchBackupVersion, TransactionFails,
       ResolveUpload
  <2>. QED BY <2>1 DEF UploadBackup
<1>. QED BY <1>1, <1>2

\* A running call keeps its snapshot, and a call starts only with
\* FetchBackupTimestamp, which copies the current settings.
LEMMA SnapshotStep ==
    ASSUME TypeOK, [Next]_vars, NEW d \in Devices, Busy(resolver'[d])
    PROVE  /\ Busy(resolver[d]) =>
                resolver'[d].snapshot = resolver[d].snapshot
           /\ ~Busy(resolver[d]) =>
                /\ resolver'[d].snapshot = settings[d]
                /\ settings' = settings
<1>1. CASE UNCHANGED vars
  BY <1>1 DEF vars
<1>2. CASE Tick \/ DeleteBackup
  BY <1>2 DEF Tick, DeleteBackup
<1>3. ASSUME NEW e \in Devices,
             CreateBackup(e) \/ UploadBackup(e) \/ UploadFails(e)
      PROVE  FALSE \/ resolver' = resolver
  BY <1>3 DEF CreateBackup, UploadBackup, UploadFails
<1>4. ASSUME NEW e \in Devices, Crash(e) PROVE resolver'[d] = resolver[d]
  BY <1>4 DEF Crash, TypeOK, Busy
<1>5. ASSUME NEW e \in Devices, FetchBackupTimestamp(e)
      PROVE  /\ Busy(resolver[d]) =>
                  resolver'[d].snapshot = resolver[d].snapshot
             /\ ~Busy(resolver[d]) =>
                  /\ resolver'[d].snapshot = settings[d]
                  /\ settings' = settings
  <2>1. CASE e = d
    BY <1>5, <2>1 DEF FetchBackupTimestamp, TypeOK, Busy
  <2>2. CASE e # d
    BY <1>5, <2>2 DEF FetchBackupTimestamp, TypeOK
  <2>. QED BY <2>1, <2>2
<1>6. ASSUME NEW e \in Devices, FetchBackupVersion(e)
      PROVE  resolver'[d].snapshot = resolver[d].snapshot
             /\ Busy(resolver[d])
  <2>1. CASE e = d
    BY <1>6, <2>1 DEF FetchBackupVersion, TypeOK, Busy
  <2>2. CASE e # d
    BY <1>6, <2>2 DEF FetchBackupVersion, TypeOK
  <2>. QED BY <2>1, <2>2
<1>7. ASSUME NEW e \in Devices, TransactionFails(e) \/ ResolveUpload(e)
      PROVE  resolver'[d] = resolver[d]
  <2>1. e # d
    <3>1. CASE TransactionFails(e)
      BY <3>1 DEF TransactionFails, TypeOK, Busy
    <3>2. CASE ResolveUpload(e)
      BY <3>2 DEF ResolveUpload, TypeOK, Busy
    <3>. QED BY <1>7, <3>1, <3>2
  <2>. QED BY <1>7, <2>1 DEF TransactionFails, ResolveUpload, TypeOK
<1>. QED BY <1>1, <1>2, <1>3, <1>4, <1>5, <1>6, <1>7 DEF Next, Step

\* A recorded pair names the timestamp of the one backup with its version,
\* and the initial pair has no timestamp.
LEMMA PairOfVersion ==
    ASSUME TypeOK, StoreInv, NEW d \in Devices, NEW v, NEW t,
           <<v, t>> \in RecordedPairs(d)
    PROVE  /\ v = 0 => t = None
           /\ v # 0 => \E m \in backups[d] : m.backup_version = v
           /\ \A m \in backups[d] : m.backup_version = v => m.timestamp = t
<1>1. v = 0 => t = None
  BY DEF RecordedPairs, StoreInv, BackupsNamed
<1>2. v # 0 => \E m \in backups[d] : m.backup_version = v
  BY DEF RecordedPairs
<1>3. ASSUME NEW m \in backups[d], m.backup_version = v PROVE m.timestamp = t
  <2>1. v # 0
    BY <1>3 DEF StoreInv, BackupsNamed
  <2>2. PICK m2 \in backups[d] : <<v, t>> = <<m2.backup_version, m2.timestamp>>
    BY <2>1 DEF RecordedPairs
  <2>3. m2 = m
    BY <1>3, <2>2 DEF StoreInv, VersionsUnique
  <2>. QED BY <2>2, <2>3
<1>. QED BY <1>1, <1>2, <1>3

\* A running call whose snapshot has the current version took its snapshot
\* of the current settings row: versions name backups uniquely.
LEMMA SnapshotIsSettings ==
    ASSUME TypeOK, StoreInv, NEW d \in Devices, PairAt(d),
           Busy(resolver[d]),
           settings[d].version = resolver[d].snapshot.version
    PROVE  settings[d] = resolver[d].snapshot
<1> DEFINE s == settings[d]
           p == resolver[d].snapshot
<1>1. /\ <<s.version, s.timestamp>> \in RecordedPairs(d)
      /\ <<p.version, p.timestamp>> \in RecordedPairs(d)
  BY DEF PairAt, Busy
<1>2. s.timestamp = p.timestamp
  <2>1. CASE s.version = 0
    BY <1>1, <2>1, PairOfVersion
  <2>2. CASE s.version # 0
    <3>1. PICK m \in backups[d] : m.backup_version = s.version
      BY <1>1, <2>2, PairOfVersion
    <3>2. m.timestamp = s.timestamp /\ m.timestamp = p.timestamp
      BY <1>1, <3>1, PairOfVersion
    <3>. QED BY <3>2
  <2>. QED BY <2>1, <2>2
<1>3. s \in SettingsRow /\ p \in SettingsRow
  BY DEF TypeOK
<1>. QED BY <1>2, <1>3 DEF SettingsRow

LinInv == PairInv /\ StoreInv /\ (\A d \in Devices : ResolverAt(d))
          /\ Linearizable

\* A recorded backup version leaves storage's record of newer versions
\* empty: storage holds only created backups, all at most the settings'.
LEMMA NewVersionNotStored ==
    ASSUME TypeOK, StoreInv, NEW d \in Devices,
           NEW v \in Nat, v > settings[d].version
    PROVE  ~InStorage(d, v)
BY DEF InStorage, StoreInv, StoredCreated, BackupsNamed, TypeOK, Metadata,
   SettingsRow, Versions

\* ResolverAt is preserved: a call starts with seen = {Correct}; while it
\* runs, a new backup makes None correct, and an upload of the snapshot's
\* version is an upload of the snapshot's own backup.
LEMMA ResolverStep ==
    ASSUME LinInv, [Next]_vars, NEW d \in Devices
    PROVE  ResolverAt(d)'
<1>0. TypeOK /\ StoreInv /\ PairAt(d) /\ ResolverAt(d)
  BY DEF LinInv, PairInv
<1>1. CASE UNCHANGED vars
  BY <1>0, <1>1 DEF vars, ResolverAt, Correct, InStorage, Busy
<1>2. CASE Next
  <2> SUFFICES ASSUME Busy(resolver'[d])
               PROVE  ResolverAt(d)'
    BY DEF ResolverAt
  <2> PICK p : p = resolver'[d].snapshot
    OBVIOUS
  <2>0. RecordSeen
    BY <1>2 DEF Next
  <2>a. TypeOK'
    BY <1>0, <1>2, TypeInductive
  <2>1. CASE ~Busy(resolver[d])
    <3>1. p = settings[d] /\ settings' = settings
      BY <1>0, <1>2, <2>1, SnapshotStep
    <3>2. seen'[d] = {Correct(d)'}
      BY <1>0, <2>0, <2>1, SeenStep
    <3>3. p.version \in Nat
      BY <3>1, <1>0 DEF TypeOK, SettingsRow, Versions
    <3>. QED BY <3>1, <3>2, <3>3 DEF ResolverAt, Correct, InStorage
  <2>2. CASE Busy(resolver[d])
    <3>1. p = resolver[d].snapshot
      BY <1>0, <1>2, <2>2, SnapshotStep
    <3>2. seen'[d] = seen[d] \cup {Correct(d)'}
      BY <1>0, <2>0, <2>2, SeenStep
    <3>3. /\ p.version <= settings[d].version
          /\ p.timestamp = None \/ settings[d] # p => None \in seen[d]
          /\ p.timestamp # None /\ InStorage(d, p.version)
               => p.timestamp \in seen[d]
      BY <1>0, <2>2, <3>1 DEF ResolverAt
    <3>4. p.version \in Nat /\ settings[d].version \in Nat
          /\ settings'[d].version \in Nat
      BY <1>0, <2>a, <3>1 DEF TypeOK, SettingsRow, Versions
    <3>5. CASE settings'[d] = settings[d]
      <4>1. p.timestamp # None /\ InStorage(d, p.version)'
              => p.timestamp \in seen'[d]
        <5> SUFFICES ASSUME p.timestamp # None, InStorage(d, p.version)',
                            ~InStorage(d, p.version)
                     PROVE  p.timestamp \in seen'[d]
          BY <3>2, <3>3
        <5>1. PICK m \in storage' : m.device_id = d
                                    /\ m.backup_version = p.version
          BY DEF InStorage
        <5>2. m \notin storage
          BY <5>1 DEF InStorage
        <5>3. PICK e \in Devices : UploadBackup(e) /\ m = writer[e].pending
          BY <1>0, <1>2, <5>1, <5>2, StorageStep
        <5>4. e = d /\ settings[d].version = p.version
          BY <1>0, <5>1, <5>3 DEF UploadBackup, StoreInv, PendingLast,
             BackupsNamed
        <5>5. settings[d] = p
          BY <1>0, <2>2, <3>1, <5>4, SnapshotIsSettings
        <5>6. Correct(d)' = p.timestamp
          BY <3>5, <5>1, <5>5 DEF Correct
        <5>. QED BY <3>2, <5>6
      <4>. QED BY <3>2, <3>3, <3>5, <4>1 DEF ResolverAt
    <3>6. CASE settings'[d] # settings[d]
      <4>0. TypeOK
        BY <1>0
      <4>1. /\ settings'[d].version = settings[d].version + 1
            /\ storage' = storage
        BY <4>0, <3>6, SettingsStep
      <4>2. storage' = storage
        BY <4>1
      <4>3. ~InStorage(d, settings'[d].version)
        <5>1. settings'[d].version \in Nat
              /\ settings'[d].version > settings[d].version
          BY <3>4, <4>1
        <5>. QED BY <1>0, <5>1, NewVersionNotStored
      <4>4. Correct(d)' = None
        BY <4>2, <4>3 DEF Correct, InStorage
      <4>5. ~InStorage(d, p.version)' \/ InStorage(d, p.version)
        BY <4>2 DEF InStorage
      <4>. QED BY <3>2, <3>3, <3>4, <4>1, <4>4, <4>5 DEF ResolverAt
    <3>. QED BY <3>5, <3>6
  <2>. QED BY <2>1, <2>2
<1>. QED BY <1>1, <1>2

\* Outside ResolveUpload, a step that leaves a call done with a non-error
\* answer leaves the call as it was.
LEMMA ResolverFrame ==
    ASSUME TypeOK, Next, NEW d \in Devices, ~ResolveUpload(d),
           resolver'[d].pc = "done", resolver'[d].result # Err
    PROVE  resolver'[d] = resolver[d]
<1>1. CASE Tick \/ DeleteBackup
  BY <1>1 DEF Tick, DeleteBackup
<1>2. ASSUME NEW e \in Devices,
             CreateBackup(e) \/ UploadBackup(e) \/ UploadFails(e)
      PROVE  resolver' = resolver
  BY <1>2 DEF CreateBackup, UploadBackup, UploadFails
<1>3. ASSUME NEW e \in Devices,
             \/ Crash(e) \/ FetchBackupTimestamp(e) \/ FetchBackupVersion(e)
             \/ TransactionFails(e)
      PROVE  resolver'[d] = resolver[d]
  <2>1. e # d
    <3> SUFFICES ASSUME e = d PROVE FALSE
      OBVIOUS
    <3>1. CASE Crash(e)
      BY <3>1 DEF Crash, TypeOK
    <3>2. CASE FetchBackupTimestamp(e)
      BY <3>2 DEF FetchBackupTimestamp, TypeOK
    <3>3. CASE FetchBackupVersion(e)
      BY <3>3 DEF FetchBackupVersion, TypeOK
    <3>4. CASE TransactionFails(e)
      BY <3>4 DEF TransactionFails, TypeOK
    <3>. QED BY <1>3, <3>1, <3>2, <3>3, <3>4
  <2>. QED BY <1>3, <2>1 DEF Crash, FetchBackupTimestamp, FetchBackupVersion,
           TransactionFails, TypeOK
<1>4. ASSUME NEW e \in Devices, ResolveUpload(e)
      PROVE  resolver'[d] = resolver[d]
  <2>1. e # d
    BY <1>4
  <2>. QED BY <1>4, <2>1 DEF ResolveUpload, TypeOK
<1>. QED BY <1>1, <1>2, <1>3, <1>4 DEF Next, Step

\* The answer of ResolveUpload was correct at some instant of the call:
\* None when nothing was recorded, when the settings moved on, or when the
\* snapshot's backup is not in storage; the timestamp when a file of the
\* rebuilt name is in storage, which can only be the snapshot's backup.
LEMMA ResolveUploadAnswer ==
    ASSUME LinInv, Next, NEW d \in Devices, ResolveUpload(d)
    PROVE  resolver'[d].result \in seen'[d]
<1> DEFINE r == resolver[d]
           name == BackupFileName(V1, DeviceOs[d], r.timestamp, d, r.version)
<1>0. TypeOK /\ StoreInv /\ PairAt(d) /\ ResolverAt(d)
  BY DEF LinInv, PairInv
<1>1. /\ r.pc = "read"
      /\ resolver'[d].result = IF r.timestamp = None THEN None
                               ELSE IF IsUploaded(name) THEN r.timestamp
                               ELSE None
      /\ UNCHANGED <<settings, storage>>
  BY <1>0 DEF ResolveUpload, TypeOK
<1>2. seen[d] \subseteq seen'[d]
  BY <1>0, <1>1, SeenStep DEF Next, Busy
<1>3. /\ r.timestamp = r.snapshot.timestamp
      /\ r.version = r.snapshot.version
      /\ r.snapshot.timestamp = None \/ settings[d] # r.snapshot
            => None \in seen[d]
      /\ r.snapshot.timestamp # None /\ InStorage(d, r.snapshot.version)
            => r.snapshot.timestamp \in seen[d]
      /\ Correct(d) \in seen[d]
  BY <1>0, <1>1 DEF PairAt, ResolverAt, Busy
<1>4. CASE r.timestamp = None
  BY <1>1, <1>2, <1>3, <1>4
<1>5. CASE r.timestamp # None /\ IsUploaded(name)
  <2>1. PICK m \in storage : FileNameOf(m) = name
    BY <1>5 DEF IsUploaded
  <2>2. m.device_id = d /\ m.backup_version = r.version
    BY <2>1 DEF FileNameOf, BackupFileName
  <2>3. InStorage(d, r.snapshot.version)
    BY <1>3, <2>2 DEF InStorage
  <2>. QED BY <1>1, <1>2, <1>3, <1>5, <2>3
<1>6. CASE r.timestamp # None /\ ~IsUploaded(name)
  <2>1. resolver'[d].result = None
    BY <1>1, <1>6
  <2>2. CASE settings[d] # r.snapshot
    BY <1>2, <1>3, <2>1, <2>2
  <2>3. CASE settings[d] = r.snapshot
    <3>1. Correct(d) = None
      <4> SUFFICES ASSUME NEW m \in storage, m.device_id = d,
                          m.backup_version = settings[d].version
                   PROVE  FALSE
        BY <1>6, <2>3, <1>3 DEF Correct
      <4>1. m \in backups[d]
        BY <1>0 DEF StoreInv, StoredCreated
      <4>2. m.timestamp = settings[d].timestamp
        BY <1>0, <4>1, PairOfVersion DEF PairAt
      <4>3. /\ m.operating_system = DeviceOs[d]
            /\ m.backup_scheme = V1
        BY <1>0, <4>1 DEF StoreInv, BackupsNamed
      <4>4. FileNameOf(m) = name
        BY <1>3, <2>3, <4>2, <4>3 DEF FileNameOf, BackupFileName
      <4>. QED BY <1>6, <4>4 DEF IsUploaded
    <3>. QED BY <1>2, <1>3, <2>1, <3>1
  <2>. QED BY <2>2, <2>3
<1>. QED BY <1>4, <1>5, <1>6

\* Linearizable is preserved.
LEMMA LinearizableStep ==
    ASSUME LinInv, [Next]_vars
    PROVE  Linearizable'
<1> SUFFICES ASSUME NEW d \in Devices, resolver'[d].pc = "done",
                    resolver'[d].result # Err
             PROVE  resolver'[d].result \in seen'[d]
  BY DEF Linearizable
<1>0. TypeOK /\ Linearizable
  BY DEF LinInv, PairInv
<1>1. CASE UNCHANGED vars
  BY <1>0, <1>1 DEF vars, Linearizable
<1>2. CASE Next /\ ResolveUpload(d)
  BY <1>2, ResolveUploadAnswer
<1>3. CASE Next /\ ~ResolveUpload(d)
  <2>1. resolver'[d] = resolver[d]
    BY <1>0, <1>3, ResolverFrame
  <2>2. seen'[d] = seen[d]
    BY <1>0, <1>3, <2>1, SeenStep DEF Next, Busy
  <2>. QED BY <1>0, <2>1, <2>2 DEF Linearizable
<1>. QED BY <1>1, <1>2, <1>3

LEMMA LinInvInit == Init => LinInv
<1> SUFFICES ASSUME Init PROVE LinInv
  OBVIOUS
<1>1. PairInv /\ StoreInv
  BY PairInvInit, StoreInvInit
<1>2. \A d \in Devices : ~Busy(resolver[d]) /\ resolver[d].pc # "done"
  BY DEF Init, Busy
<1>. QED BY <1>1, <1>2 DEF LinInv, ResolverAt, Linearizable

LEMMA LinInvStep == LinInv /\ [Next]_vars => LinInv'
<1> SUFFICES ASSUME LinInv, [Next]_vars PROVE LinInv'
  OBVIOUS
<1>1. PairInv' /\ StoreInv'
  BY PairInvStep, StoreInvStep DEF LinInv, PairInv
<1>2. \A d \in Devices : ResolverAt(d)'
  BY ResolverStep
<1>. QED BY <1>1, <1>2, LinearizableStep DEF LinInv

\* Every answer of last_uploaded_backup, for every number of devices,
\* versions and clock values, was the right answer at an instant of the
\* call: the rebuilt file name finds exactly the backup the snapshot
\* recorded, however the backup flows and deletions interleave with it.
THEOREM LinearizableHolds == Spec => []Linearizable
<1>1. LinInv => Linearizable
  BY DEF LinInv
<1>. QED BY LinInvInit, LinInvStep, <1>1, PTL DEF Spec


-----------------------------------------------------------------------------
(* Refinement of LastUploadedBackup *)

\* The abstract right answer under the mapping is Correct(d), in a state and
\* in the next one: a stored <<device, version>> pair is a stored backup
\* with that device and version.
LEMMA RightIsCorrect ==
    ASSUME NEW d \in Devices
    PROVE  /\ TypeOK => Status!Right(d) = Correct(d)
           /\ TypeOK' => Status!Right(d)' = Correct(d)'
<1>1. TypeOK => Status!Right(d) = Correct(d)
  BY DEF Status!Right, Correct, StoredPairs, TypeOK
<1>2. TypeOK' => Status!Right(d)' = Correct(d)'
  BY DEF Status!Right, Correct, StoredPairs, TypeOK
<1>. QED BY <1>1, <1>2

\* The history step RecordSeen is the abstract Observe: a mapped call is
\* busy exactly when the resolver is inside its transaction or after it.
LEMMA ObserveStep ==
    ASSUME TypeOK, TypeOK', RecordSeen
    PROVE  Status!Observe
<1>1. \A d \in Devices :
        /\ Status!Busy(d) = Busy(resolver[d])
        /\ Status!Busy(d)' = Busy(resolver'[d])
  BY DEF Status!Busy, CallState, Busy
<1>2. \A d \in Devices : Status!Right(d)' = Correct(d)'
  BY RightIsCorrect
<1>. QED BY <1>1, <1>2 DEF Status!Observe, RecordSeen

\* Each step of the backup flow, the storage, the clock and the resolver is
\* one abstract step: a backup recorded or uploaded, backups lost (or
\* nothing the caller sees), a call begun, returned or abandoned.
LEMMA StepMaps ==
    ASSUME LinInv, LinInv', Next
    PROVE  \/ Status!Lose
           \/ \E d \in Devices :
                 \/ Status!Record(d) \/ Status!Upload(d) \/ Status!Begin(d)
                 \/ Status!Return(d) \/ Status!Abandon(d)
<1>0. /\ TypeOK /\ TypeOK' /\ StoreInv /\ Linearizable'
  BY DEF LinInv, PairInv
<1>1. CASE Tick
  BY <1>1 DEF Tick, Status!Lose, StoredPairs, CallState, Answers
<1>2. CASE DeleteBackup
  <2>1. storage' \subseteq storage
    BY <1>2 DEF DeleteBackup
  <2>. QED BY <1>2, <2>1 DEF DeleteBackup, Status!Lose, StoredPairs,
           CallState, Answers
<1>3. ASSUME NEW d \in Devices, CreateBackup(d) PROVE Status!Record(d)
  BY <1>0, <1>3, NoneAssumption DEF CreateBackup, Status!Record, TypeOK,
     SettingsRow, OptTime, Times, StoredPairs, CallState, Answers
<1>4. ASSUME NEW d \in Devices, UploadBackup(d) PROVE Status!Upload(d)
  <2>1. /\ writer[d].pending.device_id = d
        /\ writer[d].pending.backup_version = settings[d].version
        /\ 1 <= settings[d].version
    BY <1>0, <1>4 DEF UploadBackup, StoreInv, BackupsNamed, PendingLast
  <2>2. StoredPairs' = StoredPairs \cup {<<d, settings[d].version>>}
    BY <1>4, <2>1 DEF UploadBackup, StoredPairs
  <2>. QED BY <1>0, <1>4, <2>1, <2>2 DEF UploadBackup, Status!Upload,
           CallState, Answers, TypeOK, SettingsRow, Versions
<1>5. ASSUME NEW d \in Devices, UploadFails(d) PROVE Status!Lose
  BY <1>5 DEF UploadFails, Status!Lose, StoredPairs, CallState, Answers
<1>6. ASSUME NEW d \in Devices, Crash(d) PROVE Status!Abandon(d)
  <2>1. /\ resolver'[d].pc = "idle"
        /\ resolver'[d].result = resolver[d].result
        /\ \A e \in Devices \ {d} : resolver'[e] = resolver[e]
    BY <1>0, <1>6 DEF Crash, TypeOK
  <2>2. CallState' = [CallState EXCEPT ![d] = "idle"]
    BY <1>0, <2>1 DEF CallState, Busy
  <2>3. Answers' = Answers
    BY <1>0, <2>1 DEF Answers
  <2>. QED BY <1>6, <2>2, <2>3 DEF Crash, Status!Abandon, StoredPairs
<1>7. ASSUME NEW d \in Devices, FetchBackupTimestamp(d) PROVE Status!Begin(d)
  <2>1. /\ resolver'[d].pc = "tx"
        /\ resolver'[d].result = resolver[d].result
        /\ \A e \in Devices \ {d} : resolver'[e] = resolver[e]
    BY <1>0, <1>7 DEF FetchBackupTimestamp, TypeOK
  <2>2. CallState' = [CallState EXCEPT ![d] = "busy"]
    BY <1>0, <2>1 DEF CallState, Busy
  <2>3. Answers' = Answers
    BY <1>0, <2>1 DEF Answers
  <2>4. CallState[d] # "busy"
    BY <1>7 DEF FetchBackupTimestamp, CallState, Busy
  <2>. QED BY <1>7, <2>2, <2>3, <2>4 DEF FetchBackupTimestamp, Status!Begin,
           StoredPairs
<1>8. ASSUME NEW d \in Devices, FetchBackupVersion(d) PROVE Status!Lose
  <2>1. /\ resolver'[d].pc = "read"
        /\ resolver'[d].result = resolver[d].result
        /\ \A e \in Devices \ {d} : resolver'[e] = resolver[e]
    BY <1>0, <1>8 DEF FetchBackupVersion, TypeOK
  <2>2. CallState' = CallState
    BY <1>0, <1>8, <2>1 DEF FetchBackupVersion, CallState, Busy
  <2>3. Answers' = Answers
    BY <1>0, <2>1 DEF Answers
  <2>. QED BY <1>8, <2>2, <2>3 DEF FetchBackupVersion, Status!Lose,
           StoredPairs
<1>9. ASSUME NEW d \in Devices, TransactionFails(d) PROVE Status!Return(d)
  <2>1. /\ resolver'[d].pc = "done"
        /\ resolver'[d].result = Err
        /\ \A e \in Devices \ {d} : resolver'[e] = resolver[e]
    BY <1>0, <1>9 DEF TransactionFails, TypeOK
  <2>2. CallState' = [CallState EXCEPT ![d] = "done"]
    BY <1>0, <2>1 DEF CallState, Busy
  <2>3. Answers' = [Answers EXCEPT ![d] = Answers'[d]]
    BY <1>0, <2>1 DEF Answers
  <2>4. Status!Busy(d) /\ Answers'[d] = Err
    BY <1>9, <2>1 DEF TransactionFails, Status!Busy, CallState, Busy, Answers
  <2>. QED BY <1>9, <2>2, <2>3, <2>4 DEF TransactionFails, Status!Return,
           StoredPairs
<1>10. ASSUME NEW d \in Devices, ResolveUpload(d) PROVE Status!Return(d)
  <2>1. /\ resolver'[d].pc = "done"
        /\ \A e \in Devices \ {d} : resolver'[e] = resolver[e]
    BY <1>0, <1>10 DEF ResolveUpload, TypeOK
  <2>2. CallState' = [CallState EXCEPT ![d] = "done"]
    BY <1>0, <2>1 DEF CallState, Busy
  <2>3. Answers' = [Answers EXCEPT ![d] = Answers'[d]]
    BY <1>0, <2>1 DEF Answers
  <2>4. Answers'[d] \in seen'[d] \cup {Err}
    BY <1>0, <2>1 DEF Linearizable, Answers
  <2>5. Status!Busy(d)
    BY <1>10 DEF ResolveUpload, Status!Busy, CallState, Busy
  <2>. QED BY <1>10, <2>2, <2>3, <2>4, <2>5 DEF ResolveUpload, Status!Return,
           StoredPairs
<1>. QED
  BY <1>1, <1>2, <1>3, <1>4, <1>5, <1>6, <1>7, <1>8, <1>9, <1>10
  DEF Next, Step

\* The resolver implements what last_uploaded_backup promises, for every
\* number of devices, versions and clock values: under the mapping (the
\* settings rows, the stored <<device, version>> pairs, the resolver's pc
\* and result, and seen as the window), every initial state is an abstract
\* initial state and every step of the backup flow, the storage and the
\* call is an abstract step or a stutter.
THEOREM RefinesLastUploadedBackup == Spec => LastUploadedBackupSpec
<1>1. Init => Status!AInit
  BY DEF Init, Status!AInit, StoredPairs, CallState, Answers, Busy
<1>2. LinInv /\ LinInv' /\ [Next]_vars => [Status!ANext]_Status!avars
  <2> SUFFICES ASSUME LinInv, LinInv', [Next]_vars
               PROVE  [Status!ANext]_Status!avars
    OBVIOUS
  <2>1. CASE UNCHANGED vars
    BY <2>1 DEF vars, Status!avars, StoredPairs, CallState, Answers
  <2>2. CASE Next
    <3>1. Status!Observe
      BY <2>2, ObserveStep DEF Next, LinInv, PairInv
    <3>. QED BY <2>2, <3>1, StepMaps DEF Status!ANext
  <2>. QED BY <2>1, <2>2
<1>. QED BY <1>1, <1>2, LinInvInit, LinInvStep, PTL
     DEF Spec, LastUploadedBackupSpec, Status!ASpec

=============================================================================
