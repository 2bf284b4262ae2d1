---------------------------- MODULE StoreConformance ----------------------------
(***************************************************************************)
(* The two implementations of the SessionStore protocol, and the lookup of *)
(* a session in the history API, which reads one of them.  Both stores are *)
(* given the same calls, in any order, on the same clock: what one answers *)
(* can be compared with what the other does.                               *)
(*                                                                         *)
(* The lookup runs SessionService over the SQLite store.  Its answer is an *)
(* operator over the tables; what it changes is what the verification of   *)
(* the owner and the read change, which is Access.                         *)
(***************************************************************************)
EXTENDS SessionStore, FiniteSets

VARIABLE memory   \* the records of the in-memory store

Memory == INSTANCE InMemorySessionStore

bothVars == <<storeVars, memory>>

-----------------------------------------------------------------------------
(* The session history API.                                                *)

NotFound == [found |-> FALSE, named |-> FALSE, mapping_count |-> 0]

\* get_session_metadata: an aggregate without GROUP BY has one row, always.
\* Without live mappings the row's session_id and expires_at are NULL.
GetSessionMetadata(s) ==
    IF IsExpired(s) THEN NotFound
    ELSE LET live == {m \in sessionMappings : m.session = s /\ m.expires_at > clock} IN
         [found |-> TRUE, named |-> live # {}, mapping_count |-> Cardinality(live)]

\* GET /sessions/{id}: 404 unless the owner's; SessionMetadata(**) needs a name.
GetSession(s, owner) == IF OwnerVerifies(s, owner) THEN GetSessionMetadata(s) ELSE NotFound

-----------------------------------------------------------------------------
(* Every call is made on both stores.                                      *)

BothInit == StoreInit /\ Memory!MemoryInit

BothNext ==
    \/ clock < MaxClock /\ Tick /\ UNCHANGED memory
    \/ CleanupExpiredSessions /\ Memory!CleanupExpiredSessions
    \/ \E s \in Sessions :
          \/ \E id \in MappingIds : FreshId(s, id) /\ SaveMapping(s, id) /\ Memory!SaveMapping(s, id)
          \/ \E h \in Hashes : SaveRestoreTokenHash(s, h) /\ Memory!SaveRestoreTokenHash(s, h)
          \/ \E h \in Hashes : SaveOwnerHash(s, h) /\ Memory!SaveOwnerHash(s, h)
          \/ Access(s) /\ Memory!Access(s)
          \/ Clear(s) /\ Memory!Clear(s)

BothSpec == BothInit /\ [][BothNext]_bothVars

-----------------------------------------------------------------------------
(* Properties.                                                             *)

\* Whatever is called, and whenever clean-up runs, the two stores hold the same
\* mappings for a session: four tables with four expiries and one record with a
\* single one come to the same contents.
SameMappings == \A s \in Sessions : StoredIds(s) = Memory!StoredIds(s)

\* The SQLite store never lets a caller in whom the in-memory store would turn
\* away.  (The converse fails: a late save renews the token and the owner of the
\* record, while the rows of the two tables keep their own expiry.)
NoWiderAccess ==
    \A s \in Sessions, h \in Hashes :
        /\ TokenVerifies(s, h) => Memory!TokenVerifies(s, h)
        /\ OwnerVerifies(s, h) => Memory!OwnerVerifies(s, h)

\* The in-memory store implements the vault.
MemoryImplementsVault == Memory!Vault!VaultSpec

\* docs/development/41-session-history-api.md:123-125 has the operator create a
\* session and then look it up under GET /sessions/{id}.  Once a preview has
\* stored its owner and its token, found mappings or not, that answer names the
\* session.
LiveSessionFound ==
    \A s \in Sessions, owner \in Hashes, token \in Hashes :
        OwnerVerifies(s, owner) /\ TokenVerifies(s, token) => GetSession(s, owner).named
=============================================================================
