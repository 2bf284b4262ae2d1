-------------------------- MODULE InMemorySessionStore --------------------------
(***************************************************************************)
(* InMemorySessionStore of engine/src/session_store.py: one record per     *)
(* session, whose mappings, token hash and owner hash share one expiry.    *)
(* Every operation holds the store's RLock and is one step; any save       *)
(* renews the whole record.  A session without a record has the record     *)
(* NoRecord.                                                               *)
(***************************************************************************)
EXTENDS Integers

CONSTANTS
    Sessions,    \* session identifiers
    Hashes,      \* restore-token and owner hashes
    MappingIds,  \* identities of mappings within a session
    NoHash,      \* None
    TTL,         \* ttl_seconds
    MaxClock     \* bound on the clock, for model checking

VARIABLES
    clock,   \* self._clock(), in ticks
    memory   \* self._store

Absent == -1
NoRecord == [mappings |-> {}, expires_at |-> Absent, token |-> NoHash, owner |-> NoHash]

SessionRecord == [mappings : SUBSET MappingIds, expires_at : Nat \cup {Absent},
                  token : Hashes \cup {NoHash}, owner : Hashes \cup {NoHash}]

IsExpired(s) == memory[s].expires_at # Absent /\ memory[s].expires_at <= clock

\* _cleanup_expired_sessions_locked.
Kept == [s \in Sessions |-> IF IsExpired(s) THEN NoRecord ELSE memory[s]]

\* Mutant: a save finds the record of an earlier life.
GetOrCreateRecordStale(s) == memory[s]

\* _get_or_create_record_locked, after the clean-up of the same save.
GetOrCreateRecord(s) == Kept[s]

\* Mutant: only the first save sets the expiry.
RenewOnce(record) ==
    IF record.expires_at = Absent THEN [record EXCEPT !.expires_at = clock + TTL] ELSE record

Renew(record) == [record EXCEPT !.expires_at = clock + TTL]

SaveRecord(s, record) == memory' = [Kept EXCEPT ![s] = Renew(record)]

SaveMapping(s, id) == SaveRecord(s, [GetOrCreateRecord(s) EXCEPT !.mappings = @ \cup {id}])
SaveRestoreTokenHash(s, h) == SaveRecord(s, [GetOrCreateRecord(s) EXCEPT !.token = h])
SaveOwnerHash(s, h) == SaveRecord(s, [GetOrCreateRecord(s) EXCEPT !.owner = h])

Clear(s) == memory' = [memory EXCEPT ![s] = NoRecord]
CleanupExpiredSessions == memory' = Kept

\* What the three reading operations begin with.
Access(s) == IF IsExpired(s) THEN Clear(s) ELSE UNCHANGED memory

TokenVerifies(s, h) == ~IsExpired(s) /\ memory[s].token = h
OwnerVerifies(s, h) == ~IsExpired(s) /\ memory[s].owner = h
StoredIds(s) == IF IsExpired(s) THEN {} ELSE memory[s].mappings

MemoryInit == memory = [s \in Sessions |-> NoRecord]

\* The memory store, too, is a vault: see StoreConformance.
Open(s) == memory[s].expires_at > clock

Vault == INSTANCE MappingVault WITH
    contents <- [s \in Sessions |-> IF Open(s) THEN StoredIds(s) ELSE {}],
    deadline <- [s \in Sessions |-> IF Open(s) THEN memory[s].expires_at ELSE -1]
=============================================================================
