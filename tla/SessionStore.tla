------------------------------ MODULE SessionStore ------------------------------
(***************************************************************************)
(* SQLiteSessionStore of engine/src/session_store.py: four tables and a    *)
(* clock, one action per public operation.                                 *)
(*                                                                         *)
(* An operation holds the store's RLock and commits one transaction, so it *)
(* is one atomic step here.  session_mappings is a set of rows; the three  *)
(* tables keyed by session_id are functions, with an absent row written as *)
(* the expiry Absent.  Time advances only between operations.              *)
(***************************************************************************)
EXTENDS Integers

CONSTANTS
    Sessions,    \* session identifiers
    Hashes,      \* restore-token and owner hashes
    MappingIds,  \* rowids of session_mappings, within a session
    NoHash,      \* the hash of an absent credential row
    TTL,         \* ttl_seconds
    MaxClock     \* bound on the clock, for model checking

ASSUME TTLAssumption == TTL \in Nat \ {0}
ASSUME NoHashAssumption == NoHash \notin Hashes

VARIABLES
    clock,                 \* self._clock(), in ticks
    sessionMappings,       \* table session_mappings
    sessionExpirations,    \* table session_expirations
    sessionRestoreTokens,  \* table session_restore_tokens
    sessionOwners          \* table session_owners

tables == <<sessionMappings, sessionExpirations, sessionRestoreTokens, sessionOwners>>
storeVars == <<clock, tables>>

Absent == -1
Expiry == Nat \cup {Absent}
MappingRow == [session : Sessions, id : MappingIds, expires_at : Nat]
CredentialRow == [hash : Hashes \cup {NoHash}, expires_at : Expiry]
NoRow == [hash |-> NoHash, expires_at |-> Absent]

-----------------------------------------------------------------------------
(* Helpers of the store.                                                   *)

\* Mutant: the lifetime has the wrong sign.
BuildExpirationBackwards == clock - TTL

BuildExpiration == clock + TTL

\* Mutant: a session still lives at its own deadline.
IsExpiredLate(s) == sessionExpirations[s] # Absent /\ sessionExpirations[s] < clock

\* A session without an expiration row is not expired: the code returns False.
IsExpired(s) == sessionExpirations[s] # Absent /\ sessionExpirations[s] <= clock

ExpiredIds == {s \in Sessions : IsExpired(s)}

\* DELETE ... WHERE session_id = ?, for every session of dead.
MappingsWithout(dead) == {row \in sessionMappings : row.session \notin dead}

ExpirationsWithout(dead) ==
    [s \in Sessions |-> IF s \in dead THEN Absent ELSE sessionExpirations[s]]

CredentialsWithout(table, dead) ==
    [s \in Sessions |-> IF s \in dead THEN NoRow ELSE table[s]]

\* What a clean-up leaves in a credential table: the rows of the sessions in
\* dead go, and so does every row past its own expiry.
Swept(table, dead, now) ==
    [s \in Sessions |->
        IF s \in dead \/ table[s].expires_at <= now THEN NoRow ELSE table[s]]

\* The deletions of _cleanup_expired_sessions_locked, once it has read the
\* clock and selected the expired sessions.
DeleteExpired(dead, now) ==
    /\ sessionMappings' = MappingsWithout(dead)
    /\ sessionExpirations' = ExpirationsWithout(dead)
    /\ sessionRestoreTokens' = Swept(sessionRestoreTokens, dead, now)
    /\ sessionOwners' = Swept(sessionOwners, dead, now)
    /\ UNCHANGED clock

\* Mutant: a save adds to the time that is left.
ExtendExpiration(s) ==
    sessionExpirations' = [ExpirationsWithout(ExpiredIds) EXCEPT ![s] =
        IF @ = Absent THEN BuildExpiration ELSE @ + TTL]

UpsertExpiration(s) ==
    sessionExpirations' = [ExpirationsWithout(ExpiredIds) EXCEPT ![s] = BuildExpiration]

SweptNow(table) == Swept(table, ExpiredIds, clock)

UpsertCredential(table, s, h) ==
    [SweptNow(table) EXCEPT ![s] = [hash |-> h, expires_at |-> BuildExpiration]]

-----------------------------------------------------------------------------
(* Operations that write.  Each save first cleans up expired sessions.     *)

\* Mutant: a mapping is saved without cleaning up first.
SaveMappingUncleaned(s, id) ==
    /\ sessionMappings' = sessionMappings \cup
          {[session |-> s, id |-> id, expires_at |-> BuildExpiration]}
    /\ sessionExpirations' = [sessionExpirations EXCEPT ![s] = BuildExpiration]
    /\ UNCHANGED <<clock, sessionRestoreTokens, sessionOwners>>

\* Mutant: the credentials are renewed with the session, lapsed or not.
SaveMappingRenewing(s, id) ==
    /\ sessionMappings' = MappingsWithout(ExpiredIds) \cup
          {[session |-> s, id |-> id, expires_at |-> BuildExpiration]}
    /\ UpsertExpiration(s)
    /\ sessionRestoreTokens' = [SweptNow(sessionRestoreTokens) EXCEPT ![s] =
          [hash |-> sessionRestoreTokens[s].hash, expires_at |-> BuildExpiration]]
    /\ sessionOwners' = [SweptNow(sessionOwners) EXCEPT ![s] =
          [hash |-> sessionOwners[s].hash, expires_at |-> BuildExpiration]]
    /\ UNCHANGED clock

SaveMapping(s, id) ==
    /\ sessionMappings' = MappingsWithout(ExpiredIds) \cup
          {[session |-> s, id |-> id, expires_at |-> BuildExpiration]}
    /\ UpsertExpiration(s)
    /\ sessionRestoreTokens' = SweptNow(sessionRestoreTokens)
    /\ sessionOwners' = SweptNow(sessionOwners)
    /\ UNCHANGED clock

SaveRestoreTokenHash(s, h) ==
    /\ sessionMappings' = MappingsWithout(ExpiredIds)
    /\ UpsertExpiration(s)
    /\ sessionRestoreTokens' = UpsertCredential(sessionRestoreTokens, s, h)
    /\ sessionOwners' = SweptNow(sessionOwners)
    /\ UNCHANGED clock

SaveOwnerHash(s, h) ==
    /\ sessionMappings' = MappingsWithout(ExpiredIds)
    /\ UpsertExpiration(s)
    /\ sessionRestoreTokens' = SweptNow(sessionRestoreTokens)
    /\ sessionOwners' = UpsertCredential(sessionOwners, s, h)
    /\ UNCHANGED clock

\* Mutant: the credential tables are forgotten.
ClearKeepsCredentials(dead) ==
    /\ sessionMappings' = MappingsWithout(dead)
    /\ sessionExpirations' = ExpirationsWithout(dead)
    /\ UNCHANGED <<clock, sessionRestoreTokens, sessionOwners>>

\* Deletes every row of the sessions in dead, from the four tables.
ClearAll(dead) ==
    /\ sessionMappings' = MappingsWithout(dead)
    /\ sessionExpirations' = ExpirationsWithout(dead)
    /\ sessionRestoreTokens' = CredentialsWithout(sessionRestoreTokens, dead)
    /\ sessionOwners' = CredentialsWithout(sessionOwners, dead)
    /\ UNCHANGED clock

Clear(s) == ClearAll({s})

CleanupExpiredSessions == DeleteExpired(ExpiredIds, clock)

-----------------------------------------------------------------------------
(* Operations that read.  Reading an expired session clears it first.      *)

Access(s) == IF IsExpired(s) THEN Clear(s) ELSE UNCHANGED storeVars

RowLive(table, s) == table[s].expires_at > clock

TokenVerifies(s, h) ==
    /\ ~IsExpired(s)
    /\ RowLive(sessionRestoreTokens, s)
    /\ sessionRestoreTokens[s].hash = h

\* Mutant: any owner will do.
OwnerRowExists(s, h) == ~IsExpired(s) /\ RowLive(sessionOwners, s)

OwnerVerifies(s, h) ==
    /\ ~IsExpired(s)
    /\ RowLive(sessionOwners, s)
    /\ sessionOwners[s].hash = h

\* The three reading operations differ in what they return, not in what they
\* change: TokenVerifies, OwnerVerifies and StoredIds are their results.
VerifyRestoreTokenHash(s) == Access(s)
VerifyOwnerHash(s) == Access(s)
GetMappings(s) == Access(s)

\* The rows get_mappings returns: all of the session's, its own expiry aside.
StoredIds(s) ==
    IF IsExpired(s) THEN {} ELSE {row.id : row \in {m \in sessionMappings : m.session = s}}

-----------------------------------------------------------------------------
Tick == clock' = clock + 1 /\ UNCHANGED tables

StoreInit ==
    /\ clock = 0
    /\ sessionMappings = {}
    /\ sessionExpirations = [s \in Sessions |-> Absent]
    /\ sessionRestoreTokens = [s \in Sessions |-> NoRow]
    /\ sessionOwners = [s \in Sessions |-> NoRow]

\* SQLite hands out a rowid no row of the table has.
FreshId(s, id) == \A row \in sessionMappings : row.session = s => row.id # id

\* Any caller may call any operation on any session, in any order.
StoreNext ==
    \/ clock < MaxClock /\ Tick
    \/ CleanupExpiredSessions
    \/ \E s \in Sessions :
          \/ \E id \in MappingIds : FreshId(s, id) /\ SaveMapping(s, id)
          \/ \E h \in Hashes : SaveRestoreTokenHash(s, h) \/ SaveOwnerHash(s, h)
          \/ VerifyRestoreTokenHash(s)
          \/ VerifyOwnerHash(s)
          \/ GetMappings(s)
          \/ Clear(s)

StoreSpec == StoreInit /\ [][StoreNext]_storeVars

-----------------------------------------------------------------------------
(* Properties.                                                             *)

\* The columns of the four tables hold what their schema says.
StoreTypeOK ==
    /\ clock \in Nat
    /\ sessionMappings \subseteq MappingRow
    /\ sessionExpirations \in [Sessions -> Expiry]
    /\ sessionRestoreTokens \in [Sessions -> CredentialRow]
    /\ sessionOwners \in [Sessions -> CredentialRow]

\* No row outlives its session.  The four tables carry their own expiry and
\* no foreign key ties them; every row of a session still has an expiration
\* row whose deadline is at least its own.  The clean-up chooses sessions from
\* session_expirations alone, so a row without one would never be erased, and a
\* credential that outlived it would authorise a session that is gone.
RowsWithinSession ==
    /\ \A row \in sessionMappings : row.expires_at <= sessionExpirations[row.session]
    /\ \A s \in Sessions :
          /\ sessionRestoreTokens[s].expires_at <= sessionExpirations[s]
          /\ sessionOwners[s].expires_at <= sessionExpirations[s]

\* No save, and no sequence of saves, lets a session live longer than TTL from
\* now: a deadline is set anew, never added to.
LifetimeBounded == \A s \in Sessions : sessionExpirations[s] <= clock + TTL

\* The inductive invariant behind both.
StoreInv == StoreTypeOK /\ RowsWithinSession /\ LifetimeBounded

\* cleanup_expired_sessions leaves no original text of an expired session: after
\* it, every row of session_mappings belongs to a session whose expiration row
\* lies ahead, although it looks for expired sessions in another table.
ErasedByCleanup ==
    \A row \in sessionMappings' : sessionExpirations'[row.session] > clock

CleanupErasesExpired == [][CleanupExpiredSessions => ErasedByCleanup]_storeVars

\* The store implements the vault: a session is what its expiration row says
\* while that lies ahead, and empty from then on, whenever clean-up runs.
Open(s) == sessionExpirations[s] > clock

Vault == INSTANCE MappingVault WITH
    contents <- [s \in Sessions |-> IF Open(s) THEN StoredIds(s) ELSE {}],
    deadline <- [s \in Sessions |-> IF Open(s) THEN sessionExpirations[s] ELSE -1]

ImplementsVault == Vault!VaultSpec
=============================================================================
