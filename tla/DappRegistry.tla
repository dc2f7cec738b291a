---------------------------- MODULE DappRegistry ----------------------------
(***************************************************************************)
(* What the dapps table and the keys that link dapps to profiles promise  *)
(* their readers (spec sections 4.1 and 5), with no transactions, locks   *)
(* or ids in flight: the committed state only ever grows by a batch of    *)
(* dapp rows and links published at once.                                  *)
(*   - a dapp row is the row of some url, under that url's identifier;    *)
(*   - there is at most one row per identifier, and a row once listed     *)
(*     stays listed unchanged (creating it again is a no-op);             *)
(*   - a link names a profile and the id of a listed dapp.                *)
(***************************************************************************)
CONSTANTS
    Urls,      \* dapp URLs
    Profiles,  \* profile ids
    Ident      \* the human-readable identifier of each url

VARIABLES
    registry,  \* the set of listed dapp rows
    links      \* the set of profile-to-dapp links

avars == <<registry, links>>

\* The id a dapp row is known by: derived from its identifier alone.
RowId(r) == <<"Dapp", <<r.identifier>>>>

\* The row that creating the dapp of url u writes.
UrlRow(u) == [identifier |-> Ident[u], url |-> u]

Rows == {UrlRow(u) : u \in Urls}
Links == [profile_id: Profiles, dapp_id: {RowId(r) : r \in Rows}]

AInit ==
    /\ registry = {}
    /\ links = {}

\* A batch of new rows, none sharing an identifier with another listed or
\* new row, and of new links to rows listed afterwards, becomes visible.
Publish(rows, new) ==
    /\ \A r \in rows : \A r2 \in registry \cup rows :
          r2.identifier = r.identifier => r2 = r
    /\ \A l \in new : \E r \in registry \cup rows : RowId(r) = l.dapp_id
    /\ registry' = registry \cup rows
    /\ links' = links \cup new

ANext == \E rows \in SUBSET Rows, new \in SUBSET Links : Publish(rows, new)

ASpec == AInit /\ [][ANext]_avars

-----------------------------------------------------------------------------
(* What the readers may rely on *)

\* One dapp per identifier: list_all never shows two rows with the same
\* registrable domain (or origin), whatever urls they were created from.
UniqueIdentifiers ==
    \A r1, r2 \in registry : r1.identifier = r2.identifier => r1 = r2

\* Every link names the id of a listed dapp, so a profile's dapps can
\* always be looked up.
LinksListed == \A l \in links : \E r \in registry : RowId(r) = l.dapp_id

=============================================================================
