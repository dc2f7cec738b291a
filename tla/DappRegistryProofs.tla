------------------------- MODULE DappRegistryProofs -------------------------
(***************************************************************************)
(* What the abstract dapp registry guarantees, proved once for every set  *)
(* of urls, profiles and identifiers.  EntityStoreProofs carries these    *)
(* results over to the committed SQLite tables through the refinement.   *)
(***************************************************************************)
EXTENDS DappRegistry, TLAPS

RegistryInv == UniqueIdentifiers /\ LinksListed

\* The empty registry satisfies RegistryInv.
LEMMA RegistryInvInit == AInit => RegistryInv
BY DEF AInit, RegistryInv, UniqueIdentifiers, LinksListed

\* A published batch keeps identifiers unique and links named: the new rows
\* share no identifier with any listed or new row, and the new links name
\* rows listed afterwards.
LEMMA RegistryInvStep == RegistryInv /\ [ANext]_avars => RegistryInv'
<1> SUFFICES ASSUME RegistryInv, [ANext]_avars PROVE RegistryInv'
  OBVIOUS
<1>1. CASE UNCHANGED avars
  BY <1>1 DEF avars, RegistryInv, UniqueIdentifiers, LinksListed
<1>2. ASSUME NEW rows \in SUBSET Rows, NEW new \in SUBSET Links,
             Publish(rows, new)
      PROVE  RegistryInv'
  <2>1. registry' = registry \cup rows /\ links' = links \cup new
    BY <1>2 DEF Publish
  <2>2. UniqueIdentifiers'
    <3> SUFFICES ASSUME NEW r1 \in registry', NEW r2 \in registry',
                        r1.identifier = r2.identifier
                 PROVE  r1 = r2
      BY DEF UniqueIdentifiers
    <3>1. CASE r1 \in registry /\ r2 \in registry
      BY <3>1 DEF RegistryInv, UniqueIdentifiers
    <3>2. CASE r1 \in rows
      BY <1>2, <2>1, <3>2 DEF Publish
    <3>3. CASE r2 \in rows
      BY <1>2, <2>1, <3>3 DEF Publish
    <3>. QED BY <2>1, <3>1, <3>2, <3>3
  <2>3. LinksListed'
    <3> SUFFICES ASSUME NEW l \in links'
                 PROVE  \E r \in registry' : RowId(r) = l.dapp_id
      BY DEF LinksListed
    <3>1. CASE l \in links
      BY <2>1, <3>1 DEF RegistryInv, LinksListed
    <3>2. CASE l \in new
      BY <1>2, <2>1, <3>2 DEF Publish
    <3>. QED BY <2>1, <3>1, <3>2
  <2>. QED BY <2>2, <2>3 DEF RegistryInv
<1>. QED BY <1>1, <1>2 DEF ANext

\* Every behaviour of the abstract registry keeps one row per identifier and
\* links that name listed rows.  This is a step of EntityStoreProofs'
\* ListedIdentifiersUniqueHolds, which carries it to the SQLite tables.
LEMMA RegistryInvHolds == ASpec => []RegistryInv
BY RegistryInvInit, RegistryInvStep, PTL DEF ASpec

=============================================================================
