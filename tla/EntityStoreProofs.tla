------------------------- MODULE EntityStoreProofs -------------------------
(***************************************************************************)
(* Proofs about EntityStore for every set of callers, urls and profiles.   *)
(***************************************************************************)
EXTENDS EntityStore, TLAPS

\* The uncommitted dapp rows of a transaction belong to the holder of the
\* write lock, sit at ids that hold no committed row, and sit at the id
\* derived from their identifier.
WriteInv ==
    \A c \in Callers, i \in DappIds :
        tx[c].dapps[i] # NoRow =>
            /\ lock = c
            /\ dapps[i] = NoRow
            /\ i = DeterministicId("Dapp", <<tx[c].dapps[i].identifier>>)

Inv == TypeOK /\ WriteInv /\ RowAtDerivedId

-----------------------------------------------------------------------------
(* Type correctness *)

\* DappEntity::new always yields one of the identifiers.
LEMMA IdentifierType ==
    ASSUME NEW u \in Urls PROVE DappIdentifier(u) \in Identifiers
BY UrlAssumption DEF DappIdentifier

\* TypeOK holds in the initial state.
LEMMA TypeInit == Init => TypeOK
BY DEF Init, TypeOK, IdleTx, TxState

\* Every step of the callers keeps TypeOK.
LEMMA TypeInductive == TypeOK /\ [Next]_vars => TypeOK'
<1> SUFFICES ASSUME TypeOK, [Next]_vars PROVE TypeOK'
  OBVIOUS
<1>1. IdleTx \in TxState
  BY DEF IdleTx, TxState
<1>2. CASE UNCHANGED vars
  BY <1>2 DEF vars, TypeOK
<1>3. ASSUME NEW c \in Callers, BeginTx(c) PROVE TypeOK'
  BY <1>3 DEF BeginTx, TypeOK, TxState
<1>4. ASSUME NEW c \in Callers, NEW u \in Urls, CreateDappIfNotExists(c, u)
      PROVE TypeOK'
  <2>1. [identifier |-> DappIdentifier(u), url |-> u] \in DappRow
    BY IdentifierType DEF DappRow
  <2>2. DappId(u) \in DappIds
    BY DEF DappIds
  <2> DEFINE id == DappId(u)
              row == IF View(c)[id] = NoRow
                     THEN [identifier |-> DappIdentifier(u), url |-> u]
                     ELSE tx[c].dapps[id]
              r1 == [tx[c] EXCEPT !.dapps = [tx[c].dapps EXCEPT ![id] = row]]
              new == [r1 EXCEPT !.created = tx[c].created \cup {id}]
  <2>3. tx' = [tx EXCEPT ![c] = new]
    BY <1>4 DEF CreateDappIfNotExists, TypeOK
  <2>4. row \in DappRow \cup {NoRow}
    BY <2>1, <2>2 DEF TypeOK, TxState
  <2>5. r1 \in TxState
    BY <2>2, <2>4 DEF TypeOK, TxState
  <2>6. new \in TxState
    BY <2>2, <2>5 DEF TypeOK, TxState
  <2>8. tx' \in [Callers -> TxState]
    BY <2>3, <2>6 DEF TypeOK
  <2>7. /\ lock' \in Callers \cup {None}
        /\ UNCHANGED <<dapps, keys, pictures, results>>
    BY <1>4 DEF CreateDappIfNotExists
  <2>. QED BY <2>7, <2>8 DEF TypeOK
<1>5. ASSUME NEW c \in Callers, NEW p \in Profiles, AddDappKey(c, p)
      PROVE TypeOK'
  <2>1. PICK id \in tx[c].created :
            tx' = [tx EXCEPT ![c].keys = @ \cup {[profile_id |-> p,
                                                   dapp_id |-> id]}]
    BY <1>5 DEF AddDappKey
  <2>2. [profile_id |-> p, dapp_id |-> id] \in KeyRow
    BY <2>1 DEF TypeOK, TxState, KeyRow
  <2>. QED BY <1>5, <2>1, <2>2 DEF AddDappKey, TypeOK, TxState, CanWrite
<1>6. ASSUME NEW c \in Callers, CommitTx(c) PROVE TypeOK'
  BY <1>1, <1>6 DEF CommitTx, TypeOK, TxState, View
<1>7. ASSUME NEW c \in Callers, RollbackTx(c) PROVE TypeOK'
  BY <1>1, <1>7 DEF RollbackTx, TypeOK
<1>8. ASSUME NEW c \in Callers, NEW n \in ImageNames, InsertBundled(c, n)
      PROVE TypeOK'
  <2>1. PictureId(n) \in PictureIds
    BY DEF PictureIds
  <2>. QED BY <1>8, <2>1 DEF InsertBundled, TypeOK, PictureRow
<1>. QED BY <1>2, <1>3, <1>4, <1>5, <1>6, <1>7, <1>8 DEF Next

\* TypeOK holds in every reachable state.
THEOREM TypeCorrect == Spec => []TypeOK
BY TypeInit, TypeInductive, PTL DEF Spec

-----------------------------------------------------------------------------
(* One row per dapp identifier, and the first committed creation wins *)

\* A transaction that holds uncommitted rows owns the write lock, so no
\* other caller has any.
LEMMA OnlyHolderWrites ==
    ASSUME TypeOK, WriteInv, NEW c \in Callers, NEW k \in Callers,
           lock \in {None, c}, k # c, NEW i \in DappIds
    PROVE  tx[k].dapps[i] = NoRow
BY SentinelAssumption DEF WriteInv

\* The initial state satisfies Inv.
LEMMA InvInit == Init => Inv
BY TypeInit DEF Init, Inv, WriteInv, RowAtDerivedId, IdleTx

\* Every step keeps Inv.
LEMMA InvStep == Inv /\ [Next]_vars => Inv'
<1> SUFFICES ASSUME Inv, [Next]_vars PROVE Inv'
  OBVIOUS
<1>0. TypeOK /\ WriteInv /\ RowAtDerivedId /\ TypeOK'
  BY TypeInductive DEF Inv
<1>1. CASE UNCHANGED vars
  BY <1>0, <1>1 DEF vars, Inv, WriteInv, RowAtDerivedId
<1>2. ASSUME NEW c \in Callers, BeginTx(c) PROVE Inv'
  <2>1. \A k \in Callers : tx'[k].dapps = tx[k].dapps
    BY <1>0, <1>2 DEF BeginTx, TypeOK, TxState
  <2>. QED BY <1>0, <1>2, <2>1 DEF BeginTx, Inv, WriteInv, RowAtDerivedId
<1>3. ASSUME NEW c \in Callers, NEW u \in Urls, CreateDappIfNotExists(c, u)
      PROVE Inv'
  <2> DEFINE id == DappId(u)
             row == IF View(c)[id] = NoRow
                    THEN [identifier |-> DappIdentifier(u), url |-> u]
                    ELSE tx[c].dapps[id]
  <2>1. /\ lock \in {None, c} /\ lock' = c
        /\ dapps' = dapps
        /\ id \in DappIds
    BY <1>3 DEF CreateDappIfNotExists, CanWrite, DappIds
  <2>2. /\ tx'[c].dapps = [tx[c].dapps EXCEPT ![id] = row]
        /\ \A k \in Callers \ {c} : tx'[k] = tx[k]
    BY <1>0, <1>3 DEF CreateDappIfNotExists, TypeOK, TxState
  <2>3. row # NoRow => dapps[id] = NoRow
    BY <1>0, <2>1 DEF View, WriteInv
  <2>4. row # NoRow => id = DeterministicId("Dapp", <<row.identifier>>)
    BY <1>0, <2>1 DEF WriteInv, DappId
  <2>5. WriteInv'
    <3>1. SUFFICES ASSUME NEW k \in Callers, NEW i \in DappIds,
                          tx'[k].dapps[i] # NoRow
                   PROVE  /\ lock' = k
                          /\ dapps'[i] = NoRow
                          /\ i = DeterministicId("Dapp",
                                                 <<tx'[k].dapps[i].identifier>>)
      BY DEF WriteInv
    <3>2. CASE k # c
      BY <1>0, <2>1, <2>2, <3>1, <3>2, OnlyHolderWrites
    <3>3. CASE k = c /\ i = id
      BY <1>0, <2>1, <2>2, <2>3, <2>4, <3>1, <3>3 DEF TypeOK, TxState
    <3>4. CASE k = c /\ i # id
      BY <1>0, <2>1, <2>2, <3>1, <3>4 DEF WriteInv, TypeOK, TxState
    <3>. QED BY <3>2, <3>3, <3>4
  <2>. QED BY <1>0, <2>1, <2>5 DEF Inv, RowAtDerivedId
<1>4. ASSUME NEW c \in Callers, NEW p \in Profiles, AddDappKey(c, p)
      PROVE Inv'
  <2>1. /\ lock \in {None, c} /\ lock' = c /\ dapps' = dapps
        /\ \A k \in Callers : tx'[k].dapps = tx[k].dapps
    BY <1>0, <1>4 DEF AddDappKey, CanWrite, TypeOK, TxState
  <2>2. WriteInv'
    <3>1. SUFFICES ASSUME NEW k \in Callers, NEW i \in DappIds,
                          tx'[k].dapps[i] # NoRow
                   PROVE  /\ lock' = k
                          /\ dapps'[i] = NoRow
                          /\ i = DeterministicId("Dapp",
                                                 <<tx'[k].dapps[i].identifier>>)
      BY DEF WriteInv
    <3>2. CASE k # c
      BY <1>0, <2>1, <3>1, <3>2, OnlyHolderWrites
    <3>3. CASE k = c
      BY <1>0, <2>1, <3>1, <3>3 DEF WriteInv
    <3>. QED BY <3>2, <3>3
  <2>. QED BY <1>0, <2>1, <2>2 DEF Inv, RowAtDerivedId
<1>5. ASSUME NEW c \in Callers, CommitTx(c) PROVE Inv'
  <2>1. /\ dapps' = View(c)
        /\ lock' = IF lock = c THEN None ELSE lock
        /\ tx'[c] = IdleTx
        /\ \A k \in Callers \ {c} : tx'[k] = tx[k]
    BY <1>0, <1>5 DEF CommitTx, TypeOK
  <2>2. WriteInv'
    <3>1. SUFFICES ASSUME NEW k \in Callers, NEW i \in DappIds,
                          tx'[k].dapps[i] # NoRow
                   PROVE  /\ lock' = k
                          /\ dapps'[i] = NoRow
                          /\ i = DeterministicId("Dapp",
                                                 <<tx'[k].dapps[i].identifier>>)
      BY DEF WriteInv
    <3>2. k # c /\ tx[k].dapps[i] # NoRow
      BY <2>1, <3>1 DEF IdleTx
    <3>3. lock = k /\ lock # c
      BY <1>0, <3>2 DEF WriteInv
    <3>4. tx[c].dapps[i] = NoRow
      BY <1>0, <3>3 DEF WriteInv
    <3>. QED BY <1>0, <2>1, <3>2, <3>3, <3>4 DEF WriteInv, View
  <2>3. RowAtDerivedId'
    BY <1>0, <2>1 DEF RowAtDerivedId, WriteInv, View, TypeOK
  <2>. QED BY <1>0, <2>2, <2>3 DEF Inv
<1>6. ASSUME NEW c \in Callers, RollbackTx(c) PROVE Inv'
  <2>1. /\ dapps' = dapps
        /\ lock' = IF lock = c THEN None ELSE lock
        /\ tx'[c] = IdleTx
        /\ \A k \in Callers \ {c} : tx'[k] = tx[k]
    BY <1>0, <1>6 DEF RollbackTx, TypeOK
  <2>2. WriteInv'
    <3>1. SUFFICES ASSUME NEW k \in Callers, NEW i \in DappIds,
                          tx'[k].dapps[i] # NoRow
                   PROVE  /\ lock' = k
                          /\ dapps'[i] = NoRow
                          /\ i = DeterministicId("Dapp",
                                                 <<tx'[k].dapps[i].identifier>>)
      BY DEF WriteInv
    <3>2. k # c /\ tx[k].dapps[i] # NoRow
      BY <2>1, <3>1 DEF IdleTx
    <3>. QED BY <1>0, <2>1, <3>2 DEF WriteInv
  <2>. QED BY <1>0, <2>1, <2>2 DEF Inv, RowAtDerivedId
<1>7. ASSUME NEW c \in Callers, NEW n \in ImageNames, InsertBundled(c, n)
      PROVE Inv'
  BY <1>0, <1>7 DEF InsertBundled, Inv, WriteInv, RowAtDerivedId
<1>. QED BY <1>1, <1>2, <1>3, <1>4, <1>5, <1>6, <1>7 DEF Next

\* No step changes a committed dapp row: only a commit writes the table,
\* and the committing transaction has no row at an id that holds one.
LEMMA CommittedRowsStay ==
    ASSUME Inv, [Next]_vars, NEW i \in DappIds, dapps[i] # NoRow
    PROVE  dapps'[i] = dapps[i]
<1>1. CASE \E c \in Callers : CommitTx(c)
  <2>1. PICK c \in Callers : CommitTx(c)
    BY <1>1
  <2>2. tx[c].dapps[i] = NoRow
    BY DEF Inv, WriteInv
  <2>. QED BY <2>1, <2>2 DEF CommitTx, View
<1>2. CASE ~\E c \in Callers : CommitTx(c)
  BY <1>2 DEF Next, vars, BeginTx, CreateDappIfNotExists, AddDappKey,
     RollbackTx, InsertBundled
<1>. QED BY <1>1, <1>2

\* Every committed dapp row sits at the id derived from its identifier, so
\* concurrent create_if_not_exists calls for urls of one dapp end in one
\* row, for any number of callers and urls.
THEOREM RowAtDerivedIdHolds == Spec => []RowAtDerivedId
BY InvInit, InvStep, PTL DEF Spec, Inv

\* A committed dapp row is never changed: a later create_if_not_exists
\* with another url of the same dapp leaves the first url in place.
THEOREM FirstCreationWinsHolds == Spec => FirstCreationWins
<1>1. Inv /\ [Next]_vars =>
        [\A i \in DappIds : dapps[i] # NoRow => dapps'[i] = dapps[i]]_dapps
  BY CommittedRowsStay
<1>. QED BY InvInit, InvStep, <1>1, PTL DEF Spec, FirstCreationWins

\* fetch_id_for_profile never reports a dapp for a profile that
\* list_for_profile would not list with the url's identifier: the row at
\* the url's derived id carries that very identifier, since derived ids are
\* injective in the identifier.
THEOREM FetchAgreesWithListHolds == Spec => []FetchAgreesWithList
<1>1. TypeOK /\ RowAtDerivedId => FetchAgreesWithList
  <2> SUFFICES ASSUME TypeOK, RowAtDerivedId, NEW p \in Profiles,
                      NEW u \in Urls, FetchIdForProfile(p, u) # None
               PROVE  \E row \in ListForProfile(p) :
                         row.identifier = DappIdentifier(u)
    BY DEF FetchAgreesWithList
  <2> DEFINE id == DappId(u)
  <2>1. id \in DappIds
    BY DEF DappIds
  <2>2. PICK k \in keys : k.profile_id = p /\ k.dapp_id = id /\ dapps[id] # NoRow
    BY DEF FetchIdForProfile
  <2>3. dapps[id] \in ListForProfile(p)
    BY <2>1, <2>2 DEF ListForProfile
  <2>4. id = DeterministicId("Dapp", <<dapps[id].identifier>>)
    BY <2>1, <2>2 DEF RowAtDerivedId
  <2>5. dapps[id].identifier = DappIdentifier(u)
    BY <2>4 DEF DappId, DeterministicId
  <2>. QED BY <2>3, <2>5
<1>. QED BY InvInit, InvStep, <1>1, PTL DEF Spec, Inv

-----------------------------------------------------------------------------
(* Keys reference dapps; the committed tables refine DappRegistry *)

\* A dapp row holds the identifier DappEntity::new derives from its url.
UrlRowOk(r) == r = [identifier |-> DappIdentifier(r.url), url |-> r.url]

\* Committed and uncommitted dapp rows are rows of urls.
RowsFromUrls ==
    /\ \A i \in DappIds : dapps[i] # NoRow => UrlRowOk(dapps[i])
    /\ \A c \in Callers, i \in DappIds :
          tx[c].dapps[i] # NoRow => UrlRowOk(tx[c].dapps[i])

\* A transaction links only ids create_if_not_exists returned in it, and
\* each such id names a row the transaction sees.
TxKeysCreated ==
    \A c \in Callers :
        /\ \A k \in tx[c].keys : k.dapp_id \in tx[c].created
        /\ \A id \in tx[c].created : View(c)[id] # NoRow

\* Every committed key links a committed dapp row.
KeysCommitted == \A k \in keys : dapps[k.dapp_id] # NoRow

RInv == Inv /\ RowsFromUrls /\ TxKeysCreated /\ KeysCommitted

\* The initial state satisfies RInv.
LEMMA RInvInit == Init => RInv
BY InvInit DEF Init, RInv, RowsFromUrls, TxKeysCreated, KeysCommitted, IdleTx

\* Every step keeps RInv.
LEMMA RInvStep == RInv /\ [Next]_vars => RInv'
<1> SUFFICES ASSUME RInv, [Next]_vars PROVE RInv'
  OBVIOUS
<1>0. /\ TypeOK /\ WriteInv /\ RowsFromUrls /\ TxKeysCreated /\ KeysCommitted
      /\ Inv' /\ TypeOK'
  BY InvStep DEF RInv, Inv
<1>1. CASE UNCHANGED vars
  BY <1>0, <1>1 DEF vars, RInv, RowsFromUrls, TxKeysCreated, KeysCommitted, View
<1>2. ASSUME NEW c \in Callers, BeginTx(c) PROVE RInv'
  <2>1. \A k \in Callers : /\ tx'[k].dapps = tx[k].dapps
                           /\ tx'[k].keys = tx[k].keys
                           /\ tx'[k].created = tx[k].created
    BY <1>0, <1>2 DEF BeginTx, TypeOK, TxState
  <2>2. \A k \in Callers : View(k)' = View(k)
    BY <1>2, <2>1 DEF BeginTx, View
  <2>. QED BY <1>0, <1>2, <2>1, <2>2
           DEF BeginTx, RInv, RowsFromUrls, TxKeysCreated, KeysCommitted
<1>3. ASSUME NEW c \in Callers, NEW u \in Urls, CreateDappIfNotExists(c, u)
      PROVE RInv'
  <2> DEFINE id == DappId(u)
             fresh == [identifier |-> DappIdentifier(u), url |-> u]
             row == IF View(c)[id] = NoRow THEN fresh ELSE tx[c].dapps[id]
  <2>1. /\ dapps' = dapps /\ keys' = keys
        /\ id \in DappIds
    BY <1>3 DEF CreateDappIfNotExists, DappIds
  <2>2. /\ tx'[c].dapps = [tx[c].dapps EXCEPT ![id] = row]
        /\ tx'[c].keys = tx[c].keys
        /\ tx'[c].created = tx[c].created \cup {id}
        /\ \A k \in Callers \ {c} : tx'[k] = tx[k]
    BY <1>0, <1>3 DEF CreateDappIfNotExists, TypeOK, TxState
  <2>3. fresh # NoRow /\ UrlRowOk(fresh)
    BY IdentifierType, SentinelAssumption DEF UrlRowOk
  <2>4. row # NoRow => UrlRowOk(row)
    BY <1>0, <2>1, <2>3 DEF RowsFromUrls
  <2>5. \A i \in DappIds : View(c)[i] # NoRow => View(c)'[i] # NoRow
    <3>1. SUFFICES ASSUME NEW i \in DappIds, View(c)[i] # NoRow
                   PROVE  View(c)'[i] # NoRow
      OBVIOUS
    <3>2. CASE i = id
      BY <2>1, <2>2, <2>3, <3>1, <3>2 DEF View
    <3>3. CASE i # id
      BY <2>1, <2>2, <3>1, <3>3 DEF View
    <3>. QED BY <3>2, <3>3
  <2>6. View(c)'[id] # NoRow
    <3>1. tx'[c].dapps[id] = row
      BY <1>0, <2>1, <2>2 DEF TypeOK, TxState
    <3>2. CASE View(c)[id] = NoRow
      BY <2>1, <2>3, <3>1, <3>2 DEF View
    <3>3. CASE View(c)[id] # NoRow
      BY <2>1, <3>1, <3>3 DEF View
    <3>. QED BY <3>2, <3>3
  <2>7. \A k \in Callers \ {c} : View(k)' = View(k)
    BY <2>1, <2>2 DEF View
  <2>8. RowsFromUrls'
    <3>1. SUFFICES ASSUME NEW k \in Callers, NEW i \in DappIds,
                          tx'[k].dapps[i] # NoRow
                   PROVE  UrlRowOk(tx'[k].dapps[i])
      BY <1>0, <2>1 DEF RowsFromUrls
    <3>2. CASE k = c /\ i = id
      BY <1>0, <2>1, <2>2, <2>4, <3>1, <3>2 DEF TypeOK, TxState
    <3>3. CASE k = c /\ i # id
      BY <1>0, <2>1, <2>2, <3>1, <3>3 DEF TypeOK, TxState, RowsFromUrls
    <3>4. CASE k # c
      BY <1>0, <2>2, <3>1, <3>4 DEF RowsFromUrls
    <3>. QED BY <3>2, <3>3, <3>4
  <2>9. TxKeysCreated'
    <3>1. SUFFICES ASSUME NEW k \in Callers
                   PROVE  /\ \A key \in tx'[k].keys : key.dapp_id \in tx'[k].created
                          /\ \A i \in tx'[k].created : View(k)'[i] # NoRow
      BY DEF TxKeysCreated
    <3>2. CASE k = c
      BY <1>0, <2>2, <2>5, <2>6, <3>2 DEF TxKeysCreated, TypeOK, TxState
    <3>3. CASE k # c
      BY <1>0, <2>2, <2>7, <3>3 DEF TxKeysCreated
    <3>. QED BY <3>2, <3>3
  <2>. QED BY <1>0, <2>1, <2>8, <2>9 DEF RInv, KeysCommitted
<1>4. ASSUME NEW c \in Callers, NEW p \in Profiles, AddDappKey(c, p)
      PROVE RInv'
  <2>1. PICK id \in tx[c].created :
            tx' = [tx EXCEPT ![c].keys = @ \cup {[profile_id |-> p,
                                                   dapp_id |-> id]}]
    BY <1>4 DEF AddDappKey
  <2>2. /\ dapps' = dapps /\ keys' = keys
        /\ \A k \in Callers : /\ tx'[k].dapps = tx[k].dapps
                              /\ tx'[k].created = tx[k].created
        /\ tx'[c].keys = tx[c].keys \cup {[profile_id |-> p, dapp_id |-> id]}
        /\ \A k \in Callers \ {c} : tx'[k].keys = tx[k].keys
    BY <1>0, <1>4, <2>1 DEF AddDappKey, TypeOK, TxState
  <2>3. \A k \in Callers : View(k)' = View(k)
    BY <2>2 DEF View
  <2>. QED BY <1>0, <2>1, <2>2, <2>3
           DEF RInv, RowsFromUrls, TxKeysCreated, KeysCommitted
<1>5. ASSUME NEW c \in Callers, CommitTx(c) PROVE RInv'
  <2>1. /\ dapps' = View(c)
        /\ keys' = keys \cup tx[c].keys
        /\ tx'[c] = IdleTx
        /\ \A k \in Callers \ {c} : tx'[k] = tx[k]
    BY <1>0, <1>5 DEF CommitTx, TypeOK
  <2>2. \A i \in DappIds : dapps[i] # NoRow => dapps'[i] # NoRow
    BY <1>5, CommittedRowsStay DEF RInv, Next
  <2>3. RowsFromUrls'
    <3>1. \A i \in DappIds : dapps'[i] # NoRow => UrlRowOk(dapps'[i])
      BY <1>0, <2>1 DEF View, RowsFromUrls
    <3>2. \A k \in Callers, i \in DappIds :
             tx'[k].dapps[i] # NoRow => UrlRowOk(tx'[k].dapps[i])
      BY <1>0, <2>1 DEF RowsFromUrls, IdleTx
    <3>. QED BY <3>1, <3>2 DEF RowsFromUrls
  <2>4. KeysCommitted'
    <3>1. SUFFICES ASSUME NEW k \in keys' PROVE dapps'[k.dapp_id] # NoRow
      BY DEF KeysCommitted
    <3>2. CASE k \in keys
      BY <1>0, <2>2, <3>2 DEF KeysCommitted, TypeOK, KeyRow
    <3>3. CASE k \in tx[c].keys
      BY <1>0, <2>1, <3>3 DEF TxKeysCreated, TypeOK, TxState, View
    <3>. QED BY <2>1, <3>2, <3>3
  <2>5. TxKeysCreated'
    <3>1. SUFFICES ASSUME NEW k \in Callers
                   PROVE  /\ \A key \in tx'[k].keys : key.dapp_id \in tx'[k].created
                          /\ \A i \in tx'[k].created : View(k)'[i] # NoRow
      BY DEF TxKeysCreated
    <3>2. CASE k = c
      BY <2>1, <3>2 DEF IdleTx
    <3>3. CASE k # c
      <4>1. \A i \in tx[k].created : View(k)[i] # NoRow
        BY <1>0 DEF TxKeysCreated
      <4>2. \A i \in tx[k].created : View(k)'[i] # NoRow
        BY <1>0, <2>1, <2>2, <3>3, <4>1 DEF View, TypeOK, TxState
      <4>. QED BY <1>0, <2>1, <3>3, <4>2 DEF TxKeysCreated
    <3>. QED BY <3>2, <3>3
  <2>. QED BY <1>0, <2>3, <2>4, <2>5 DEF RInv
<1>6. ASSUME NEW c \in Callers, RollbackTx(c) PROVE RInv'
  <2>1. /\ dapps' = dapps /\ keys' = keys
        /\ tx'[c] = IdleTx
        /\ \A k \in Callers \ {c} : tx'[k] = tx[k]
    BY <1>0, <1>6 DEF RollbackTx, TypeOK
  <2>2. \A k \in Callers \ {c} : View(k)' = View(k)
    BY <2>1 DEF View
  <2>. QED BY <1>0, <2>1, <2>2
           DEF RInv, RowsFromUrls, TxKeysCreated, KeysCommitted, IdleTx
<1>7. ASSUME NEW c \in Callers, NEW n \in ImageNames, InsertBundled(c, n)
      PROVE RInv'
  <2>1. dapps' = dapps /\ keys' = keys /\ tx' = tx
    BY <1>7 DEF InsertBundled
  <2>. QED BY <1>0, <2>1
           DEF RInv, RowsFromUrls, TxKeysCreated, KeysCommitted, View
<1>. QED BY <1>1, <1>2, <1>3, <1>4, <1>5, <1>6, <1>7 DEF Next

\* Every key a committed transaction linked to a profile names a dapp row
\* that fetch_dapp_identifier finds, whatever the other callers commit or
\* roll back: a key commits with or after the dapp it links.
THEOREM KeysReferenceDappsHolds == Spec => []KeysReferenceDapps
<1>1. RInv => KeysReferenceDapps
  <2> SUFFICES ASSUME RInv, NEW k \in keys
               PROVE  FetchDappIdentifier(k.dapp_id) # Err
    BY DEF KeysReferenceDapps
  <2>1. k.dapp_id \in DappIds /\ dapps[k.dapp_id] # NoRow
    BY DEF RInv, Inv, TypeOK, KeyRow, KeysCommitted
  <2>2. dapps[k.dapp_id].identifier \in Identifiers
    BY <2>1 DEF RInv, Inv, TypeOK, DappRow
  <2>. QED BY <2>1, <2>2, SentinelAssumption DEF FetchDappIdentifier
<1>. QED BY RInvInit, RInvStep, <1>1, PTL DEF Spec

\* A commit publishes the batch of its transaction: the rows list_all shows
\* afterwards, none sharing an identifier, and the transaction's keys.
LEMMA CommitPublishes ==
    ASSUME RInv, RInv', NEW c \in Callers, CommitTx(c)
    PROVE  Registry!Publish(ListAll', tx[c].keys)
<1>0. /\ dapps' = View(c) /\ keys' = keys \cup tx[c].keys
      /\ TypeOK /\ TypeOK' /\ RowAtDerivedId'
  BY DEF CommitTx, RInv, Inv
<1>1. ListAll \subseteq ListAll'
  <2>1. \A i \in DappIds : dapps[i] # NoRow => dapps'[i] = dapps[i]
    BY CommittedRowsStay DEF RInv, Next
  <2>. QED BY <2>1 DEF ListAll
<1>2. \A r \in ListAll' : \A r2 \in ListAll \cup ListAll' :
         r2.identifier = r.identifier => r2 = r
  <2> SUFFICES ASSUME NEW i \in DappIds, dapps'[i] # NoRow,
                      NEW j \in DappIds, dapps'[j] # NoRow,
                      dapps'[j].identifier = dapps'[i].identifier
               PROVE  dapps'[j] = dapps'[i]
    BY <1>1 DEF ListAll
  <2>1. i = DeterministicId("Dapp", <<dapps'[i].identifier>>)
        /\ j = DeterministicId("Dapp", <<dapps'[j].identifier>>)
    BY <1>0 DEF RowAtDerivedId
  <2>. QED BY <2>1
<1>3. \A l \in tx[c].keys : \E r \in ListAll \cup ListAll' :
         Registry!RowId(r) = l.dapp_id
  <2> SUFFICES ASSUME NEW l \in tx[c].keys
               PROVE  \E r \in ListAll' : Registry!RowId(r) = l.dapp_id
    OBVIOUS
  <2>1. l.dapp_id \in DappIds /\ dapps'[l.dapp_id] # NoRow
    BY <1>0 DEF RInv, TxKeysCreated, TypeOK, TxState
  <2>2. l.dapp_id = DeterministicId("Dapp", <<dapps'[l.dapp_id].identifier>>)
    BY <1>0, <2>1 DEF RowAtDerivedId
  <2>. QED BY <2>1, <2>2 DEF ListAll, Registry!RowId, DeterministicId
<1>. QED BY <1>0, <1>1, <1>2, <1>3 DEF Registry!Publish

\* The rows list_all shows are rows of urls, and the keys of a transaction
\* link profiles to ids of such rows.
LEMMA CommitWithinRegistry ==
    ASSUME RInv, RInv', NEW c \in Callers
    PROVE  /\ ListAll' \in SUBSET Registry!Rows
           /\ tx[c].keys \in SUBSET Registry!Links
<1>1. ListAll' \in SUBSET Registry!Rows
  <2> SUFFICES ASSUME NEW i \in DappIds, dapps'[i] # NoRow
               PROVE  dapps'[i] \in Registry!Rows
    BY DEF ListAll
  <2>1. dapps'[i].url \in Urls /\ UrlRowOk(dapps'[i])
    BY DEF RInv, Inv, TypeOK, DappRow, RowsFromUrls
  <2>. QED BY <2>1 DEF UrlRowOk, Registry!Rows, Registry!UrlRow
<1>2. DappIds \subseteq {Registry!RowId(r) : r \in Registry!Rows}
  <2> SUFFICES ASSUME NEW u \in Urls
               PROVE  DappId(u) \in {Registry!RowId(r) : r \in Registry!Rows}
    BY DEF DappIds
  <2>1. Registry!UrlRow(u) \in Registry!Rows
    BY DEF Registry!Rows
  <2>2. DappId(u) = Registry!RowId(Registry!UrlRow(u))
    BY DEF DappId, DeterministicId, Registry!RowId, Registry!UrlRow
  <2>. QED BY <2>1, <2>2
<1>3. tx[c].keys \in SUBSET Registry!Links
  BY <1>2 DEF RInv, Inv, TypeOK, TxState, KeyRow, Registry!Links
<1>. QED BY <1>1, <1>3

\* The committed dapps and keys, as list_all and the keys show them,
\* implement DappRegistry: every step of the callers either leaves them
\* alone or, at a commit, publishes a batch of rows and links.
THEOREM RefinesRegistry == Spec => DappRegistrySpec
<1>1. Spec => []RInv
  BY RInvInit, RInvStep, PTL DEF Spec
<1>2. Init => Registry!AInit
  BY DEF Init, Registry!AInit, ListAll
<1>3. RInv /\ RInv' /\ [Next]_vars => [Registry!ANext]_<<ListAll, keys>>
  <2> SUFFICES ASSUME RInv, RInv', [Next]_vars
               PROVE  [Registry!ANext]_<<ListAll, keys>>
    OBVIOUS
  <2>1. CASE dapps' = dapps /\ keys' = keys
    BY <2>1 DEF ListAll
  <2>2. ASSUME NEW c \in Callers, CommitTx(c) PROVE Registry!ANext
    BY <2>2, CommitPublishes, CommitWithinRegistry DEF Registry!ANext
  <2>3. QED
    BY <2>1, <2>2 DEF Next, vars, BeginTx, CreateDappIfNotExists, AddDappKey,
                      RollbackTx, InsertBundled
<1>. QED BY <1>1, <1>2, <1>3, PTL DEF Spec, DappRegistrySpec, Registry!ASpec,
                                      Registry!avars

\* The registry's own results, seen through the refinement mapping.
RegistryProofs == INSTANCE DappRegistryProofs
                      WITH registry <- ListAll, links <- keys,
                           Ident <- [u \in Urls |-> DappIdentifier(u)]

\* list_all never shows two dapps with one identifier: EntityStore
\* implements the registry, and every behaviour of the registry keeps its
\* identifiers unique.
THEOREM ListedIdentifiersUniqueHolds == Spec => []ListedIdentifiersUnique
<1>1. DappRegistrySpec => RegistryProofs!ASpec
  <2>1. Registry!AInit <=> RegistryProofs!AInit
    BY DEF Registry!AInit, RegistryProofs!AInit
  <2>2. [Registry!ANext]_Registry!avars
          <=> [RegistryProofs!ANext]_RegistryProofs!avars
    BY DEF Registry!ANext, RegistryProofs!ANext, Registry!avars,
           RegistryProofs!avars, Registry!Publish, RegistryProofs!Publish,
           Registry!Rows, RegistryProofs!Rows, Registry!Links,
           RegistryProofs!Links, Registry!RowId, RegistryProofs!RowId,
           Registry!UrlRow, RegistryProofs!UrlRow
  <2>. QED BY <2>1, <2>2, PTL
           DEF DappRegistrySpec, Registry!ASpec, RegistryProofs!ASpec
<1>2. RegistryProofs!ASpec => []RegistryProofs!RegistryInv
  BY RegistryProofs!RegistryInvHolds
<1>3. RegistryProofs!RegistryInv => ListedIdentifiersUnique
  BY DEF RegistryProofs!RegistryInv, ListedIdentifiersUnique,
         Registry!UniqueIdentifiers, RegistryProofs!UniqueIdentifiers
<1>. QED BY RefinesRegistry, <1>1, <1>2, <1>3, PTL

=============================================================================
