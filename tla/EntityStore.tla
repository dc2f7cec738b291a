---------------------------- MODULE EntityStore ----------------------------
(***************************************************************************)
(* Content-addressed entity creation on the SQLite store:                 *)
(*   - Dapp::create_if_not_exists (src/core/src/db/models/dapp.rs), run   *)
(*     inside a caller's deferred transaction, deriving the id from the   *)
(*     dapp identifier and inserting with ON CONFLICT DO NOTHING;         *)
(*   - AccountPicture::insert_bundled                                    *)
(*     (src/core/src/db/models/account_picture.rs), a plain INSERT keyed  *)
(*     by the id derived from the image hash;                              *)
(*   - the read queries fetch_id_for_profile and list_for_profile.        *)
(* The callers' transactions (begin, the asymmetric key that links a dapp *)
(* to a profile, commit, rollback) and SQLite's single write lock are not *)
(* under src/ and are modelled from the spec (sections 4.1, 5, 9).        *)
(***************************************************************************)
EXTENDS Naturals, FiniteSets

CONSTANTS
    Callers,            \* threads that hold a connection of the pool
    Urls,               \* dapp URLs the callers present
    RegistrableDomain,  \* public_suffix_list.registrable_domain(origin)
    Origin,             \* url.origin().ascii_serialization()
    Identifiers,        \* human-readable dapp identifiers (domains, origins)
    Hashes,             \* image hashes
    Profiles,           \* profile ids
    ImageNames,         \* names of the bundled account pictures
    ImageHash,          \* blake3_hash(load_profile_pic(name))
    NoRow,              \* absence of a row
    None,               \* Option::None
    Err                 \* the Err(..) of a failed statement

ASSUME UrlAssumption ==
    /\ Origin \in [Urls -> Identifiers]
    /\ RegistrableDomain \in [Urls -> Identifiers \cup {None}]
    /\ None \notin Identifiers
ASSUME ImageAssumption == ImageHash \in [ImageNames -> Hashes]
ASSUME SentinelAssumption ==
    /\ NoRow # None /\ None # Err /\ NoRow # Err /\ None \notin Callers
    /\ NoRow \notin [identifier: Identifiers, url: Urls]  \* absence is no row
    /\ Err \notin Identifiers  \* an Err(..) is never a column value

VARIABLES
    dapps,     \* committed dapps table: deterministic id -> row or NoRow
    keys,      \* committed asymmetric_keys rows linking a profile to a dapp
    pictures,  \* committed profile_pictures table: id -> row or NoRow
    lock,      \* the caller holding SQLite's write lock, or None
    tx,        \* each caller's open transaction
    results    \* history: what insert_bundled returned, per image name

vars == <<dapps, keys, pictures, lock, tx, results>>

-----------------------------------------------------------------------------
(* Deterministic ids (db/deterministic_id.rs): a collision-free function  *)
(* of the entity name and the ordered unique columns.                      *)

DeterministicId(entity, columns) == <<entity, columns>>

\* DappEntity::new: the registrable domain of the origin, else the origin.
DappIdentifier(url) ==
    IF RegistrableDomain[url] = None THEN Origin[url]
    ELSE RegistrableDomain[url]

\* Variant of DappId hashing the url's origin instead of the identifier.
DappIdOfOrigin(url) == DeterministicId("Dapp", <<Origin[url]>>)

\* DeriveDeterministicId for DappEntity: entity Dapp, columns [identifier].
DappId(url) == DeterministicId("Dapp", <<DappIdentifier(url)>>)

\* DeriveDeterministicId for AccountPictureEntity: columns [image_hash].
PictureId(name) == DeterministicId("AccountPicture", <<ImageHash[name]>>)

DappIds == {DappId(u) : u \in Urls}
PictureIds == {PictureId(n) : n \in ImageNames}

DappRow == [identifier: Identifiers, url: Urls]
PictureRow == [image_name: ImageNames]
KeyRow == [profile_id: Profiles, dapp_id: DappIds]

TxState == [open: BOOLEAN, dapps: [DappIds -> DappRow \cup {NoRow}],
            keys: SUBSET KeyRow, created: SUBSET DappIds]

IdleTx == [open |-> FALSE, dapps |-> [i \in DappIds |-> NoRow],
           keys |-> {}, created |-> {}]

\* What caller c reads: the committed rows overlaid by its own writes.
View(c) == [i \in DappIds |-> IF tx[c].dapps[i] # NoRow THEN tx[c].dapps[i]
                              ELSE dapps[i]]

\* Caller c may write: nobody else holds the write lock.
CanWrite(c) == lock \in {None, c}

-----------------------------------------------------------------------------

Init ==
    /\ dapps = [i \in DappIds |-> NoRow]
    /\ keys = {}
    /\ pictures = [i \in PictureIds |-> NoRow]
    /\ lock = None
    /\ tx = [c \in Callers |-> IdleTx]
    /\ results = [n \in ImageNames |-> {}]

\* The caller opens a deferred transaction (no lock until its first write).
BeginTx(c) ==
    /\ ~tx[c].open
    /\ tx' = [tx EXCEPT ![c].open = TRUE]
    /\ UNCHANGED <<dapps, keys, pictures, lock, results>>

\* Variant of CreateDappIfNotExists with ON CONFLICT DO UPDATE (upsert).
CreateDappIfNotExistsUpsert(c, url) ==
    LET id == DappId(url) IN
    /\ tx[c].open
    /\ CanWrite(c)
    /\ lock' = c
    /\ tx' = [tx EXCEPT ![c].dapps[id] =
                  [identifier |-> DappIdentifier(url), url |-> url],
                        ![c].created = @ \cup {id}]
    /\ UNCHANGED <<dapps, keys, pictures, results>>

\* Dapp::create_if_not_exists: derive the id, INSERT ... ON CONFLICT DO
\* NOTHING (the first write takes the write lock), return the id.
CreateDappIfNotExists(c, url) ==
    LET id == DappId(url) IN
    /\ tx[c].open
    /\ CanWrite(c)
    /\ lock' = c
    /\ tx' = [tx EXCEPT ![c].dapps[id] =
                  IF View(c)[id] = NoRow
                  THEN [identifier |-> DappIdentifier(url), url |-> url]
                  ELSE @,
                        ![c].created = @ \cup {id}]
    /\ UNCHANGED <<dapps, keys, pictures, results>>

\* Variant of AddDappKey linking any dapp id, not one that
\* create_if_not_exists returned in this transaction.
AddDappKeyAnyDapp(c, p) ==
    /\ tx[c].open
    /\ CanWrite(c)
    /\ \E id \in DappIds :
          /\ lock' = c
          /\ tx' = [tx EXCEPT ![c].keys = @ \cup {[profile_id |-> p,
                                                    dapp_id |-> id]}]
    /\ UNCHANGED <<dapps, keys, pictures, results>>

\* The caller links the dapp whose id it was returned to a profile.
AddDappKey(c, p) ==
    /\ tx[c].open
    /\ CanWrite(c)
    /\ \E id \in tx[c].created :
          /\ lock' = c
          /\ tx' = [tx EXCEPT ![c].keys = @ \cup {[profile_id |-> p,
                                                    dapp_id |-> id]}]
    /\ UNCHANGED <<dapps, keys, pictures, results>>

\* COMMIT: the transaction's writes become visible, the lock is released.
CommitTx(c) ==
    /\ tx[c].open
    /\ dapps' = View(c)
    /\ keys' = keys \cup tx[c].keys
    /\ lock' = IF lock = c THEN None ELSE lock
    /\ tx' = [tx EXCEPT ![c] = IdleTx]
    /\ UNCHANGED <<pictures, results>>

\* ROLLBACK, after an error propagated with `?` inside the transaction.
RollbackTx(c) ==
    /\ tx[c].open
    /\ lock' = IF lock = c THEN None ELSE lock
    /\ tx' = [tx EXCEPT ![c] = IdleTx]
    /\ UNCHANGED <<dapps, keys, pictures, results>>

\* AccountPicture::insert_bundled on its own connection (autocommit): a
\* plain INSERT, which fails on the primary key if the row exists.
InsertBundled(c, name) ==
    LET id == PictureId(name) IN
    /\ ~tx[c].open
    /\ lock = None
    /\ IF pictures[id] = NoRow
       THEN /\ pictures' = [pictures EXCEPT ![id] = [image_name |-> name]]
            /\ results' = [results EXCEPT ![name] = @ \cup {id}]
       ELSE /\ results' = [results EXCEPT ![name] = @ \cup {Err}]
            /\ UNCHANGED pictures
    /\ UNCHANGED <<dapps, keys, lock, tx>>

Next ==
    \E c \in Callers :
        \/ BeginTx(c)
        \/ \E u \in Urls : CreateDappIfNotExists(c, u)
        \/ \E p \in Profiles : AddDappKey(c, p)
        \/ CommitTx(c)
        \/ RollbackTx(c)
        \/ \E n \in ImageNames : InsertBundled(c, n)

Spec == Init /\ [][Next]_vars

-----------------------------------------------------------------------------
(* Read queries on the committed tables *)

\* Dapp::list_for_profile: dapps joined with the profile's keys.
ListForProfile(p) ==
    {dapps[i] : i \in {i \in DappIds : /\ dapps[i] # NoRow
                                       /\ \E k \in keys : /\ k.profile_id = p
                                                          /\ k.dapp_id = i}}

\* Dapp::list_all: every committed dapp row.
ListAll == {dapps[i] : i \in {i \in DappIds : dapps[i] # NoRow}}

\* Dapp::fetch_dapp_identifier: the identifier of the row with that id;
\* `.first(conn)?` turns a missing row into an error.
FetchDappIdentifier(id) == IF dapps[id] # NoRow THEN dapps[id].identifier
                           ELSE Err

\* Variant of FetchIdForProfile that forgets the profile filter.
FetchIdForProfileAnyProfile(p, url) ==
    LET id == DappId(url) IN
    IF \E k \in keys : k.dapp_id = id /\ dapps[id] # NoRow THEN id ELSE None

\* DappEntity::fetch_id_for_profile: the url's dapp id if a key joins that
\* dapp to the profile, else None.
FetchIdForProfile(p, url) ==
    LET id == DappId(url) IN
    IF \E k \in keys : /\ k.profile_id = p /\ k.dapp_id = id
                       /\ dapps[id] # NoRow
    THEN id ELSE None

-----------------------------------------------------------------------------
(* Properties *)

TypeOK ==
    /\ dapps \in [DappIds -> DappRow \cup {NoRow}]
    /\ keys \subseteq KeyRow
    /\ pictures \in [PictureIds -> PictureRow \cup {NoRow}]
    /\ lock \in Callers \cup {None}
    /\ tx \in [Callers -> TxState]
    /\ results \in [ImageNames -> SUBSET (PictureIds \cup {Err})]

\* A dapp row sits at the id derived from its own identifier, so two urls
\* with the same registrable domain, created by concurrent transactions,
\* end in one row and never two.
RowAtDerivedId ==
    \A i \in DappIds :
        dapps[i] # NoRow => i = DeterministicId("Dapp", <<dapps[i].identifier>>)

\* fetch_id_for_profile and list_for_profile agree: a dapp id found for a
\* url and a profile is that of a dapp listed for the profile with the
\* url's identifier.
FetchAgreesWithList ==
    \A p \in Profiles, u \in Urls :
        FetchIdForProfile(p, u) # None =>
            \E row \in ListForProfile(p) : row.identifier = DappIdentifier(u)

\* The first committed creation wins: a committed dapp row never changes,
\* so a later create_if_not_exists with another url of the same dapp does
\* not overwrite the stored url.
FirstCreationWins ==
    [][\A i \in DappIds : dapps[i] # NoRow => dapps'[i] = dapps[i]]_dapps

\* Entity creation is idempotent (spec 4.1): creating the same bundled
\* picture again returns its id and never an error.
InsertBundledIdempotent ==
    \A n \in ImageNames : Err \notin results[n]

\* A dapp linked to a profile can always be looked up: for every committed
\* key, fetch_dapp_identifier finds the dapp's row.  A key and the dapp it
\* links are committed by one transaction or the dapp before it, whatever
\* the other callers commit or roll back in between.
KeysReferenceDapps ==
    \A k \in keys : FetchDappIdentifier(k.dapp_id) # Err

\* The committed tables, as list_all and the keys show them, behave as
\* DappRegistry: rows and links appear in batches, a listed row is never
\* changed or removed, no two rows share an identifier, and links name
\* listed dapps.
Registry == INSTANCE DappRegistry
                WITH registry <- ListAll, links <- keys,
                     Ident <- [u \in Urls |-> DappIdentifier(u)]

DappRegistrySpec == Registry!ASpec

\* One dapp per identifier, as the readers see it: list_all never returns
\* two dapps with the same registrable domain, even when urls of one
\* domain were created by concurrent transactions.
ListedIdentifiersUnique == Registry!UniqueIdentifiers

=============================================================================
