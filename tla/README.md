# Verification of SealVault's entity identity and backup status layer

TLA+ models of the Rust code under `src/`:

- `src/core/src/backup/metadata.rs`: backup version, backup metadata, the
  file name codec and `last_uploaded_backup`;
- `src/core/src/db/models/dapp.rs` and `src/core/src/db/models/account_picture.rs`:
  content-addressed entity creation and queries;
- `src/tools/dev-server/src/main.rs`: a development HTTP server. It is not
  modelled (see the end of this file).

The models are checked with TLC on small instances. Type correctness, the
consistency of the resolver's two reads, the linearizability of its answer,
and the entity store's one-row property are proved with TLAPS for every value of the constants.

## The system and how its parts interact

Every persisted entity gets a *deterministic id*: a hash of an entity tag and
the entity's ordered unique columns (`db/deterministic_id.rs`, not under
`src/`). Creating an entity inserts a row keyed by that id. A dapp's unique
column is its *identifier*: the registrable domain of the url's origin, or the
origin itself when there is none. So `https://www.example.com` and
`https://app.example.com` are one dapp. `Dapp::create_if_not_exists` runs
inside a caller's deferred transaction with `ON CONFLICT DO NOTHING`. The
caller links the dapp to a profile through an asymmetric key row.
`list_for_profile` and `fetch_id_for_profile` read the result back.
`AccountPicture::insert_bundled` inserts a bundled picture, keyed by its image
hash, with a plain `INSERT`.

Each device records the version and time of its last backup in its local
settings. It then uploads the archive to cloud storage, which all devices of
a user share. The archive is named
`sealvault_backup_<scheme>_<os>_<timestamp>_<device_id>_<version>.zip` by
`get_backup_file_name`. `MetadataFromFileName::from_str` parses such a name
back. `last_uploaded_backup` runs in two steps:

1. it reads the timestamp and the version in one deferred transaction;
2. outside the transaction, it rebuilds the name and asks the storage whether
   that file is present.

The collaborators are not under `src/`: local settings, the backup flow,
storage, clock, SQLite transactions and locks. They are modelled from
`spec.md` and marked `spec_modelled` in `PROJECT.json`.

## Modules

| Module | Models | Harness |
|---|---|---|
| `BackupStatus` | `last_uploaded_backup` against concurrent backups of several devices | `MCBackupStatus` |
| `LastUploadedBackup` | what `last_uploaded_backup` promises its caller, with no transaction, snapshot or file name: an abstract specification | (through `BackupStatus`'s `Status` instance) |
| `BackupStatusProofs` | TLAPS proofs about `BackupStatus` | (none) |
| `EntityStoreProofs` | TLAPS proofs about `EntityStore` | (none) |
| `DappRegistryProofs` | TLAPS proofs about `DappRegistry` | (none) |
| `DappRegistry` | what the committed dapps and keys promise their readers, with no transactions: an abstract specification | (through `EntityStore`'s `Registry` instance) |
| `EntityStore` | dapp creation in concurrent transactions, bundled picture insertion, the profile queries | `MCEntityStore` |
| `FilenameCodec` | `get_backup_file_name`, the regex, the field parsers, `BackupVersion` | `MCFilenameCodec` |

### BackupStatus

**State.**
- `settings[d]`: device `d`'s local settings, its last backup version and
  timestamp.
- `backups[d]`: the metadata of every backup `d` has created.
- `storage`: the metadata of the archives in cloud storage.
- `writer[d]`: the backup flow; `pending` is the backup being uploaded.
- `resolver[d]`: the `last_uploaded_backup` call:
  - `pc` is `idle`, `tx` (between the two fetches), `read` (transaction done)
    or `done`;
  - `snapshot` is the settings row the deferred transaction sees;
  - `result` is what the call returned.
- `seen[d]`: a history variable. It holds the correct answer of every state
  during the current call.

A file name is the tuple of the five fields that `get_backup_file_name`
formats. That is sound because `FilenameCodec` checks that the formatting
round-trips, and so is injective on those fields.

**Actions.**
- `FetchBackupTimestamp` and `FetchBackupVersion`: lines 184-193. The deferred
  transaction takes its snapshot at the first read, and both reads see it.
- `TransactionFails`: the `?` on the transaction.
- `ResolveUpload`: lines 194-216.
- Environment actions, modelled from the spec:
  - `CreateBackup` records the next version and the current time in settings;
  - `UploadBackup` and `UploadFails` are the two results of `copy_to_storage`;
  - `DeleteBackup` is pruning, or deletion by the user;
  - `Crash` loses the in-memory steps;
  - `Tick` advances the clock.

`Correct(d)` is the right answer in a state:
- the recorded timestamp, if the backup with the recorded device and version
  is in storage;
- otherwise `None`.

### LastUploadedBackup

The abstract specification of the resolver, from spec sections 2, 4.5 and 6.
Each device records backups with versions 1, 2, ... and a timestamp
(`Record`), and uploads the one it last recorded (`Upload`). Stored backups
may disappear (`Lose`, which also covers steps the caller cannot see). A call
begins (`Begin`) and either returns (`Return`) or is abandoned (`Abandon`).
`window[d]` is the set of right answers since `d`'s call began. `Return`
answers `Err` or a member of the window. `Observe` adds the right answer of
each step's end state to the window of a running call.

`BackupStatus` implements it under the mapping `Status`:
- `last` is `settings`;
- `uploaded` is `StoredPairs`, the `<<device_id, backup_version>>` pairs of
  `storage`;
- `call` is `CallState`: `busy` while `pc` is `tx` or `read`, then `done`,
  else `idle`;
- `answer` is `Answers`, the resolvers' `result`;
- `window` is `seen`.

`RefinesLastUploadedBackup` proves this. No run checks
`LastUploadedBackupSpec`: under the mapping the abstract window is `seen`
and the abstract right answer is `Correct`'s formula, so on the resolver's
side its content is `Linearizable`, which `backup_status` checks. The
theorem's worth is that it relates the detailed steps to one abstract
promise.

### EntityStore

**State.**
- `dapps`, `keys`, `pictures`: the committed tables.
- `tx[c]`: each caller's open transaction, with its uncommitted dapp rows,
  keys, and the ids `create_if_not_exists` returned.
- `lock`: SQLite's single write lock. A deferred transaction takes it at its
  first write and keeps it until commit or rollback.
- `results`: what `insert_bundled` returned.

**Actions.**
- `BeginTx`, `CreateDappIfNotExists`, `AddDappKey`, `CommitTx`, `RollbackTx`.
  A failed statement or lock timeout propagates through `?` and ends in
  `RollbackTx`.
- `InsertBundled`, in autocommit mode.

The queries `ListForProfile`, `FetchIdForProfile`, `ListAll` (`list_all`)
and `FetchDappIdentifier` (`fetch_dapp_identifier`, `Err` on a missing row)
are operators on the committed state. Ids are the collision-free tuple `<<entity, columns>>`, which
stands for the hash.

### DappRegistry

The abstract specification of the dapps table and the keys, as their readers
see them. `registry` is the set of listed dapp rows and `links` the set of
profile-to-dapp links. The only step, `Publish(rows, new)`, adds a batch of
rows and links at once:
- a new row is the row of some url, under that url's identifier;
- no two listed rows share an identifier;
- a new link names a profile and the id of a listed row.

Nothing is ever removed or changed. `EntityStore` instantiates it as
`Registry` with `registry <- ListAll`, `links <- keys`, and `Ident` the
identifier `DappEntity::new` derives. `DappRegistrySpec == Registry!ASpec`
is then a property of `EntityStore`, proved by `RefinesRegistry` and not
given to a run: its content is `FirstCreationWins`, `KeysReferenceDapps`
and `ListedIdentifiersUnique`, which the runs check one by one. The refinement hides everything the
readers cannot see: transactions, the lock, uncommitted rows and
rollbacks. A commit is a `Publish`, and every other step is a stutter.

Two properties state what readers rely on. `UniqueIdentifiers`: no two
listed rows share an identifier. `LinksListed`: every link names a listed
row. `EntityStore`'s `ListedIdentifiersUnique` is `UniqueIdentifiers` seen
through the mapping.

### FilenameCodec

Strings are sequences of characters, because the properties are about the
conversion itself.
- The literal segments `sealvault_backup_` and `.zip` are single symbols.
- `NdDigit` is any non-ASCII Unicode decimal digit. The regex crate's `\d`
  accepts it and `i64::from_str` rejects it.
- Integers are `IntWidth`-bit two's complement. The code uses 64 bits; the
  model uses 8, so that a three-digit token overflows.

`Captures` is the regex: anchored literals, and five `_`-separated groups in
their classes. No class contains `_` or `.`, so splitting at `_` is exact.
`MetadataFromFileName` parses the fields in the code's order, and the first
failure decides the error. Three conversions are outside `src/` and modelled
from the spec:
- `From<ParseIntError>` for the timestamp; its kind is the constant
  `ParseIntErrorKind`, `Fatal` per spec 4.4;
- `OperatingSystem::from_str`, which is `Fatal` on an unknown tag;
- `DeviceIdentifier::from_str`, which accepts every token of the class.

The harness is one caller. It formats the name of a backup from `MetaDomain`,
or takes a name from `ListedNames`, and then decodes it.

## Runs

| Run | Checks | Shows |
|---|---|---|
| `backup_status` (`MCBackupStatus.cfg`, pass) | `PairConsistent`, `Linearizable` | The version/timestamp pair a call reads is the pair of one backup really recorded. Every answer was correct at some instant of the call. This holds under concurrent backups, failed uploads, crashes, deletions and two devices with the same OS. |
| `entity_store` (`MCEntityStore.cfg`, pass) | `FetchAgreesWithList`, `FirstCreationWins` | Of concurrent creations of one dapp from two urls, the first committed url stays. `fetch_id_for_profile` finds only dapps that `list_for_profile` lists. |
| `entity_registry` (`MCEntityStoreRegistry.cfg`, pass) | `KeysReferenceDapps`, `ListedIdentifiersUnique` | Every committed key links a dapp that `fetch_dapp_identifier` finds, under any interleaving of commits and rollbacks. `list_all` never shows two dapps with one identifier. |
| `entity_insert_bundled_twice` (`MCEntityStoreIdempotent.cfg`, violation) | `InsertBundledIdempotent` | A second `insert_bundled` of the same picture fails. |
| `filename_codec` (`MCFilenameCodec.cfg`, pass) | `RoundTrip` | Parsing a formatted name never gives back other fields than it was formatted from, and gives them back whenever the timestamp is not negative. A negative timestamp is written with a `-` that `\d+` rejects, so such a file does not parse at all. |
| `filename_errors` (`MCFilenameCodecErrors.cfg`, violation) | `FileNameErrorsFatal` | An overflowing or non-ASCII-digit version token fails with `Error::Retriable`. |

Every property of a passing run has a mutant in `PROJECT.json`: a variant of
one code definition that the run must catch. Examples are a name without the
device id, a live read of the version outside the snapshot, and an upsert instead
of `DO NOTHING`.

The modules' type invariants (`TypeOK`) are not given to runs. No
realistic change of the code breaks one without first breaking a deeper
property: versions and timestamps are `i64`, identifiers are `String`.
Their bounds are the model's own. They stay as the base of the proofs.
`RowAtDerivedId` likewise only restates how `DappId` is derived, and stays
as a conjunct of `EntityStoreProofs`' inductive invariant.

### Findings

1. **metadata.rs:68.** Spec 4.4 says a file name whose fields do not parse
   fails non-retriably. The regex's `\d+` accepts tokens that `i64` cannot
   hold, and non-ASCII digits. `BackupVersion::from_str` turns those into
   `Error::Retriable`. Spec 4.2 itself makes a failed `from_string` parse
   retriable, so the spec disagrees with itself, and the code follows 4.2.
2. **account_picture.rs:80.** Spec 4.1 and 5 describe entity creation as
   insert-or-ignore, and so idempotent. `AccountPictureEntity::create` uses a
   plain `INSERT`, so a second `insert_bundled` of one picture errors.
   Whether callers ever repeat it is outside `src/`.

### Bounds, and why they are enough

- **`MCBackupStatus`**: two devices with the same OS, versions up to 2, clock
  0..1. This is enough for two devices to produce files that agree on every
  name field but the device id. It also lets a device hold an older uploaded
  backup beside a newer unuploaded one, and lets a backup land between the two
  fetches. The bad cases need:
  - two versions, so that an old file is still in storage;
  - two devices, for a collision of names;
  - two times, so that timestamps can be equal or differ.
- **`MCEntityStore`**: two callers, and three urls of which two share a
  registrable domain and one has none. There are two profiles and one
  picture. This is the smallest instance in which two transactions race on
  one id, and in which a key of one profile can be confused with another's.
- **`MCFilenameCodec`**: 8-bit integers, 90 formatted backups (versions 0, 10
  and the maximum; timestamps the minimum, -1, 0, 9 and the maximum), and
  every name of five fields drawn from six kinds of
  token:
  - valid;
  - empty;
  - negative;
  - overflowing;
  - a non-ASCII digit;
  - a letter word.

  There are also names of four and six fields, and names with a wrong prefix
  or no suffix.

Symmetry is used over devices and over callers and profiles, which are
interchangeable model values.

### Fairness

No run assumes fairness, and no liveness property is checked.
`last_uploaded_backup` is straight-line code. Once the transaction has
begun, only the second fetch and `is_uploaded` remain, and both are guarded
by nothing but the call's own progress. A property such as "every call
returns" would then follow from weak fairness on exactly those steps,
whatever the backup flow, the storage and the other devices do. The entity
store's operations are single queries or transactions whose waiting is
SQLite's busy timeout, which is outside `src/`. Deadlock is checked in every
run.

## Proofs

TLAPS checks every proof below. Each holds for every value of the constants.

### `BackupStatusProofs`

- **`TypeCorrect`** (`Spec => []TypeOK`). TypeOK is inductive as it stands.
  The proof has one step per action. It rests on `MaxVersionAssumption`,
  `MaxTimeAssumption` and `OsAssumption`. The writer's state is typed as a
  union: `idle` with no pending backup, or `created` with one.
- **`PairConsistentHolds`** (`Spec => []PairConsistent`). `PairConsistent` is
  not inductive on its own: a call in state `read` needs to know where its
  snapshot came from. The strengthening `PairInv` adds three facts:
  - the settings row of each device always holds the pair of a recorded
    backup, or the initial pair;
  - a running call's snapshot is such a pair, and its timestamp is the one
    the first fetch copied;
  - after the second fetch, the version is the snapshot's.

  The lemma `PairsGrow` says no step forgets a created backup, so a recorded
  pair stays recorded. `PairAtFrame` covers the steps that leave a device's
  settings and resolver alone. The remaining steps are split into the device
  itself and other devices. TLC checked `PairInv` as an invariant of
  `MCBackupStatus` before the proof was written.
- **`LinearizableHolds`** (`Spec => []Linearizable`). The inductive invariant
  is `LinInv == PairInv /\ StoreInv /\ (\A d : ResolverAt(d)) /\ Linearizable`.
  - `StoreInv` is what the backup flow and the storage guarantee. Storage
    holds only created backups. A device's backups carry its own device id,
    OS and scheme. Their versions are distinct, between 1 and the recorded
    version. The pending upload is the last backup recorded.
  - `ResolverAt(d)` holds while a call runs. The version in the snapshot
    is at most the current version. `seen` holds None once the settings
    have moved past the snapshot, or if nothing was recorded. `seen` holds
    the snapshot's timestamp once that backup is in storage. The current
    correct answer is always in `seen`.

  Four facts carry the argument:
  - a call starts with `seen = {Correct}` (`SnapshotStep`, `SeenStep`);
  - a new backup during the call makes `None` correct, because its version
    is not yet in storage (`NewVersionNotStored`);
  - an upload of the snapshot's version is the upload of the snapshot's own
    backup, because versions name backups uniquely (`SnapshotIsSettings`,
    `PairOfVersion`);
  - `ResolveUpload`'s answer is therefore always in `seen`
    (`ResolveUploadAnswer`). A file of the rebuilt name carries the device
    id and the version. If the file is missing while the settings still
    equal the snapshot, the stored backup with that version would have the
    same name, so the correct answer is `None`.

  The proof relies on file names being injective in the five fields.
  `FilenameCodec`'s `RoundTrip` run checks that for the real formatting.
  TLC checked `LinInv` on `MCBackupStatus` before the proof was written.
- **`RefinesLastUploadedBackup`** (`Spec => LastUploadedBackupSpec`). This
  is the refinement of the abstract resolver, proved step by step.
  - The initial states map to `AInit`.
  - Under `LinInv`, every `Next` step maps to an abstract step, by
    `StepMaps`:
    - `CreateBackup` maps to `Record`;
    - `UploadBackup` maps to `Upload`, because `StoreInv` makes the pending
      backup's pair `<<d, settings[d].version>>`, with a version of at
      least 1;
    - `FetchBackupTimestamp` maps to `Begin`;
    - `TransactionFails` and `ResolveUpload` map to `Return`;
    - `Crash` maps to `Abandon`;
    - `Tick`, `DeleteBackup`, `UploadFails` and `FetchBackupVersion` map
      to `Lose`.
  - `RecordSeen` is `Observe` (`ObserveStep`), since the abstract right
    answer is `Correct` (`RightIsCorrect`).
  - A stutter maps to a stutter.

  The answer of `ResolveUpload` lies in the window because `Linearizable`
  holds in the step's end state. So the theorem rests on the same inductive
  invariant `LinInv`.

### `EntityStoreProofs`

- **`TypeCorrect`** (`Spec => []TypeOK`). It uses `UrlAssumption` (the
  identifier of a url is an identifier).
- **`FirstCreationWinsHolds`** (`Spec => FirstCreationWins`, an action
  property). It rests on the inductive invariant
  `Inv == TypeOK /\ WriteInv /\ RowAtDerivedId`. `WriteInv` says an
  uncommitted dapp row:
  - belongs to the caller that holds SQLite's write lock;
  - sits at an id with no committed row;
  - sits at the id derived from its own identifier.

  So a commit only fills empty ids, and never overwrites a row. The lemma-like
  theorem `RowAtDerivedIdHolds` states the third conjunct on its own. The lemma
  `OnlyHolderWrites` states the exclusion the lock gives. The lemma
  `CommittedRowsStay` (no step changes a committed row) is cited by
  `FirstCreationWinsHolds`, by `RInvStep` and by `CommitPublishes`. The proof needs
  `None \notin Callers` from `SentinelAssumption`.
- **`KeysReferenceDappsHolds`** (`Spec => []KeysReferenceDapps`) and
  **`RefinesRegistry`** (`Spec => DappRegistrySpec`). Both rest on
  `RInv == Inv /\ RowsFromUrls /\ TxKeysCreated /\ KeysCommitted`:
  - committed and uncommitted rows are rows of urls;
  - a transaction's keys link only ids `create_if_not_exists` returned in
    it, and each such id has a row the transaction sees;
  - committed keys link committed rows.

  A commit keeps `KeysCommitted` because the committed rows only grow. The
  refinement follows the standard form: `Init` maps to `AInit`, and each
  step maps to a stutter or to `Publish(ListAll', tx[c].keys)`
  (`CommitPublishes`, `CommitWithinRegistry`). Identifiers in a batch are
  distinct because `RowAtDerivedId` holds after the step. The proof uses two
  more conjuncts of `SentinelAssumption`: `NoRow` is no row, and `Err` is no
  identifier.
- **`ListedIdentifiersUniqueHolds`** (`Spec => []ListedIdentifiersUnique`).
  This is proved through the refinement, not from the implementation's
  invariant. `RefinesRegistry` gives `Spec => DappRegistrySpec`, and
  the lemma `RegistryInvHolds` of `DappRegistryProofs` proves the
  registry's invariant for every behaviour
  of the abstract spec. The instance `RegistryProofs`, under the same
  mapping, turns that theorem into one about `ListAll` and `keys`. The
  steps show that the two instances' specifications coincide, then combine
  the results by PTL.
- **`FetchAgreesWithListHolds`** (`Spec => []FetchAgreesWithList`). This
  follows from the same invariant. The row at a url's derived id carries
  an identifier whose derived id is that id. Derived ids are injective, so
  the identifier is the url's.

### `DappRegistryProofs`

This module holds lemmas about the abstract registry alone. They say
nothing about the code until `ListedIdentifiersUniqueHolds` carries them
over through the refinement.

- **`RegistryInvHolds`**, a lemma (`ASpec => []RegistryInv`, with
  `RegistryInv == UniqueIdentifiers /\ LinksListed`). The invariant is
  inductive as it stands, and needs no typing. A batch's guard compares
  each new row with every listed and new row, so a pair of rows with one
  identifier has either both rows old (the invariant) or one new (the
  guard). New links name rows listed afterwards, and old rows stay listed.

### Only model-checked

- Everything in `FilenameCodec`, that is `RoundTrip` and the error run. The decimal
  formatting is a `RECURSIVE` operator. `ParseInt` folds with `FoldLeft`,
  which `Folds` defines recursively. A module that reaches either cannot
  hold theorems. Even with both rewritten as recursive functions, the
  results are about what a recursion computes on every string: that
  parsing inverts the decimal formatting. That needs induction over data, which the
  installed provers cannot do. TLC checks them exhaustively on 8-bit
  integers.

Liveness, `ENABLED`, and induction over data are beyond TLAPS here. The
project checks no liveness property (see Fairness).

## Not modelled

- The dev server (`src/tools/dev-server/src/main.rs`). It holds no state of
  its own: each request is served from files on disk, or handed to the
  core's in-page provider on a blocking thread. Its callbacks only log. It
  is pure I/O: HTTP routing, static files, the User-Agent rewrite of the
  HTML, and header parsing (which panics on a non-ASCII header). Its
  `CoreBackupStorageMock` answers `false` everywhere, so under it
  `last_uploaded_backup` always returns `None`.
- `canonical_json`: byte-exact JSON through `olpc_cjson`.
- The public suffix algorithm. `RegistrableDomain` is a constant function.
- The hash of the deterministic id, and encryption.
- Formatting of timestamps as RFC 3339 in settings. The model keeps the unix
  time that the resolver parses back.
- `list_dapp_ids_desc`, which only orders `list_all`'s ids, and
  `fetch_image`, which reads a column the model abstracts away.
