---------------------------- MODULE ConformanceProofs ----------------------------
(***************************************************************************)
(* The two session stores, given the same calls in the same order, hold    *)
(* the same mappings at any time, for any sessions, hashes, mappings and   *)
(* lifetime; the SQLite store lets nobody in whom the other would not.     *)
(***************************************************************************)
EXTENDS StoreConformance, SessionStoreProofs

-----------------------------------------------------------------------------
(* The invariant: one deadline, one set of mappings, and no credential row *)
(* with another hash than the record's.                                    *)

RowAgrees(row, hash) == row = NoRow \/ row.hash = hash

Agrees(s, record, deadline, ids, token, owner) ==
    /\ record.expires_at = deadline
    /\ record.mappings = ids
    /\ RowAgrees(token, record.token)
    /\ RowAgrees(owner, record.owner)

StoresAgree ==
    \A s \in Sessions :
        Agrees(s, memory[s], sessionExpirations[s], RowsOf(sessionMappings, s),
               sessionRestoreTokens[s], sessionOwners[s])

MemoryTyped == memory \in [Sessions -> Memory!SessionRecord]

BothInv == StoreInv /\ MemoryTyped /\ StoresAgree

LEMMA NoRecordFacts ==
    /\ Memory!NoRecord \in Memory!SessionRecord
    /\ Memory!NoRecord.expires_at = -1
    /\ Memory!NoRecord.mappings = {}
  BY DEF Memory!NoRecord, Memory!SessionRecord, Memory!Absent

\* Both stores find the same sessions expired.
LEMMA ExpiredInBoth ==
    ASSUME BothInv, NEW s \in Sessions
    PROVE  /\ Memory!IsExpired(s) <=> s \in ExpiredIds
           /\ IsExpired(s) <=> s \in ExpiredIds
  BY DEF BothInv, StoresAgree, Agrees, Memory!IsExpired, Memory!Absent, ExpiredIds, IsExpired, Absent

-----------------------------------------------------------------------------
(* Cleaning up.                                                            *)

\* The two stores after the clean-up a save begins with.
LEMMA KeptAgrees ==
    ASSUME BothInv
    PROVE  /\ Memory!Kept \in [Sessions -> Memory!SessionRecord]
           /\ \A s \in Sessions :
                 Agrees(s, Memory!Kept[s], ExpirationsWithout(ExpiredIds)[s],
                        RowsOf(MappingsWithout(ExpiredIds), s),
                        SweptNow(sessionRestoreTokens)[s], SweptNow(sessionOwners)[s])
  <1>1. /\ StoreTypeOK /\ StoresAgree
        /\ sessionRestoreTokens \in [Sessions -> CredentialRow]
        /\ sessionOwners \in [Sessions -> CredentialRow]
    BY DEF BothInv, StoreInv, StoreTypeOK
  <1>2. Memory!Kept = [s \in Sessions |-> IF s \in ExpiredIds THEN Memory!NoRecord ELSE memory[s]]
    BY ExpiredInBoth DEF Memory!Kept
  <1>3. Memory!Kept \in [Sessions -> Memory!SessionRecord]
    BY <1>2, NoRecordFacts DEF BothInv, MemoryTyped
  <1>4. ASSUME NEW s \in Sessions, s \in ExpiredIds
        PROVE  Agrees(s, Memory!Kept[s], ExpirationsWithout(ExpiredIds)[s],
                      RowsOf(MappingsWithout(ExpiredIds), s),
                      SweptNow(sessionRestoreTokens)[s], SweptNow(sessionOwners)[s])
    <2>1. Memory!Kept[s] = Memory!NoRecord
      BY <1>2, <1>4
    <2>2. SweptNow(sessionRestoreTokens)[s] = NoRow /\ SweptNow(sessionOwners)[s] = NoRow
      BY <1>1, <1>4, SweptFacts DEF SweptNow
    <2> QED BY <1>1, <1>4, <2>1, <2>2, NoRecordFacts, ExpirationsWithoutFacts, RowsGone
            DEF Agrees, RowAgrees
  <1>5. ASSUME NEW s \in Sessions, s \notin ExpiredIds
        PROVE  Agrees(s, Memory!Kept[s], ExpirationsWithout(ExpiredIds)[s],
                      RowsOf(MappingsWithout(ExpiredIds), s),
                      SweptNow(sessionRestoreTokens)[s], SweptNow(sessionOwners)[s])
    <2>1. Memory!Kept[s] = memory[s]
      BY <1>2, <1>5
    <2>2. /\ SweptNow(sessionRestoreTokens)[s] \in {sessionRestoreTokens[s], NoRow}
          /\ SweptNow(sessionOwners)[s] \in {sessionOwners[s], NoRow}
      BY <1>1, SweptFacts DEF SweptNow
    <2> QED BY <1>1, <1>5, <2>1, <2>2, ExpirationsWithoutFacts, RowsKept
            DEF StoresAgree, Agrees, RowAgrees
  <1> QED BY <1>3, <1>4, <1>5

-----------------------------------------------------------------------------
(* Every pair of calls keeps the stores in agreement.                      *)

\* A save into s: other sessions are as the clean-up left them.
LEMMA SaveAgrees ==
    ASSUME BothInv, NEW s \in Sessions, UpsertExpiration(s), UNCHANGED clock,
           NEW record \in Memory!SessionRecord, Memory!SaveRecord(s, record),
           RowsOf(sessionMappings', s) = record.mappings,
           RowAgrees(sessionRestoreTokens'[s], record.token),
           RowAgrees(sessionOwners'[s], record.owner),
           \A t \in Sessions : t # s =>
              /\ RowsOf(sessionMappings', t) = RowsOf(MappingsWithout(ExpiredIds), t)
              /\ sessionRestoreTokens'[t] = SweptNow(sessionRestoreTokens)[t]
              /\ sessionOwners'[t] = SweptNow(sessionOwners)[t]
    PROVE  MemoryTyped' /\ StoresAgree'
  <1>1. memory' = [Memory!Kept EXCEPT ![s] = Memory!Renew(record)]
    BY DEF Memory!SaveRecord
  <1>2. /\ StoreTypeOK
        /\ Memory!Kept \in [Sessions -> Memory!SessionRecord]
    BY KeptAgrees DEF BothInv, StoreInv
  <1>3. BuildExpiration \in Nat /\ BuildExpiration = clock + TTL
    BY <1>2, BuildExpirationFacts DEF BuildExpiration, StoreTypeOK
  <1>4. /\ Memory!Renew(record) \in Memory!SessionRecord
        /\ Memory!Renew(record).expires_at = BuildExpiration
        /\ Memory!Renew(record).mappings = record.mappings
        /\ Memory!Renew(record).token = record.token
        /\ Memory!Renew(record).owner = record.owner
    BY <1>3 DEF Memory!Renew, Memory!SessionRecord
  <1>5. MemoryTyped'
    BY <1>1, <1>2, <1>4 DEF MemoryTyped
  <1>6. Agrees(s, memory'[s], sessionExpirations'[s], RowsOf(sessionMappings', s),
               sessionRestoreTokens'[s], sessionOwners'[s])
    <2>1. memory'[s] = Memory!Renew(record)
      BY <1>1, <1>2
    <2>2. sessionExpirations'[s] = BuildExpiration
      BY <1>2, UpsertExpirationFacts
    <2> QED BY <1>4, <2>1, <2>2 DEF Agrees
  <1>7. ASSUME NEW t \in Sessions, t # s
        PROVE  Agrees(t, memory'[t], sessionExpirations'[t], RowsOf(sessionMappings', t),
                      sessionRestoreTokens'[t], sessionOwners'[t])
    <2>1. memory'[t] = Memory!Kept[t]
      BY <1>1, <1>2, <1>7
    <2>2. sessionExpirations'[t] = ExpirationsWithout(ExpiredIds)[t]
      BY <1>2, <1>7, ExpirationsWithoutFacts DEF UpsertExpiration
    <2> QED BY <1>7, <2>1, <2>2, KeptAgrees
  <1> QED BY <1>5, <1>6, <1>7 DEF StoresAgree, RowsOf

LEMMA SaveMappingAgrees ==
    ASSUME BothInv, NEW s \in Sessions, NEW id \in MappingIds,
           SaveMapping(s, id), Memory!SaveMapping(s, id)
    PROVE  MemoryTyped' /\ StoresAgree'
  <1> DEFINE kept == Memory!GetOrCreateRecord(s)
             record == [kept EXCEPT !.mappings = @ \cup {id}]
             row == [session |-> s, id |-> id, expires_at |-> BuildExpiration]
  <1>1. /\ kept = Memory!Kept[s] /\ kept \in Memory!SessionRecord
        /\ kept.mappings = RowsOf(MappingsWithout(ExpiredIds), s)
        /\ RowAgrees(SweptNow(sessionRestoreTokens)[s], kept.token)
        /\ RowAgrees(SweptNow(sessionOwners)[s], kept.owner)
    BY KeptAgrees DEF Memory!GetOrCreateRecord, Agrees
  <1>2. Memory!SaveRecord(s, record)
    BY DEF Memory!SaveMapping
  <1>3. /\ record \in Memory!SessionRecord
        /\ record.mappings = kept.mappings \cup {id}
        /\ record.token = kept.token /\ record.owner = kept.owner
    BY <1>1 DEF Memory!SessionRecord
  <1>4. /\ UpsertExpiration(s) /\ UNCHANGED clock
        /\ sessionMappings' = MappingsWithout(ExpiredIds) \cup {row}
        /\ sessionRestoreTokens' = SweptNow(sessionRestoreTokens)
        /\ sessionOwners' = SweptNow(sessionOwners)
    BY DEF SaveMapping
  <1>5. row.session = s /\ row.id = id
    OBVIOUS
  <1> HIDE DEF row, record, kept
  <1>6. /\ RowsOf(sessionMappings', s) = RowsOf(MappingsWithout(ExpiredIds), s) \cup {id}
        /\ \A t \in Sessions : t # s =>
              RowsOf(sessionMappings', t) = RowsOf(MappingsWithout(ExpiredIds), t)
    BY <1>4, <1>5 DEF RowsOf
  <1> QED BY <1>1, <1>2, <1>3, <1>4, <1>6, SaveAgrees

\* A save of a credential; which of the two tables it is in, both hashes say.
LEMMA SaveTokenAgrees ==
    ASSUME BothInv, NEW s \in Sessions, NEW h \in Hashes,
           SaveRestoreTokenHash(s, h), Memory!SaveRestoreTokenHash(s, h)
    PROVE  MemoryTyped' /\ StoresAgree'
  <1> DEFINE kept == Memory!GetOrCreateRecord(s)
             record == [kept EXCEPT !.token = h]
  <1>1. /\ kept = Memory!Kept[s] /\ kept \in Memory!SessionRecord
        /\ kept.mappings = RowsOf(MappingsWithout(ExpiredIds), s)
        /\ RowAgrees(SweptNow(sessionOwners)[s], kept.owner)
    BY KeptAgrees DEF Memory!GetOrCreateRecord, Agrees
  <1>2. Memory!SaveRecord(s, record)
    BY DEF Memory!SaveRestoreTokenHash
  <1>3. /\ record \in Memory!SessionRecord
        /\ record.mappings = kept.mappings
        /\ record.token = h /\ record.owner = kept.owner
    BY <1>1 DEF Memory!SessionRecord
  <1>4. /\ UpsertExpiration(s) /\ UNCHANGED clock
        /\ sessionMappings' = MappingsWithout(ExpiredIds)
        /\ sessionRestoreTokens' = UpsertCredential(sessionRestoreTokens, s, h)
        /\ sessionOwners' = SweptNow(sessionOwners)
    BY DEF SaveRestoreTokenHash
  <1>5. SweptNow(sessionRestoreTokens) \in [Sessions -> CredentialRow]
    BY SweptFacts DEF SweptNow, BothInv, StoreInv, StoreTypeOK
  <1>6. /\ sessionRestoreTokens'[s].hash = h
        /\ \A t \in Sessions : t # s => sessionRestoreTokens'[t] = SweptNow(sessionRestoreTokens)[t]
    BY <1>4, <1>5 DEF UpsertCredential
  <1> HIDE DEF record, kept
  <1> QED BY <1>1, <1>2, <1>3, <1>4, <1>6, SaveAgrees DEF RowAgrees

LEMMA SaveOwnerAgrees ==
    ASSUME BothInv, NEW s \in Sessions, NEW h \in Hashes,
           SaveOwnerHash(s, h), Memory!SaveOwnerHash(s, h)
    PROVE  MemoryTyped' /\ StoresAgree'
  <1> DEFINE kept == Memory!GetOrCreateRecord(s)
             record == [kept EXCEPT !.owner = h]
  <1>1. /\ kept = Memory!Kept[s] /\ kept \in Memory!SessionRecord
        /\ kept.mappings = RowsOf(MappingsWithout(ExpiredIds), s)
        /\ RowAgrees(SweptNow(sessionRestoreTokens)[s], kept.token)
    BY KeptAgrees DEF Memory!GetOrCreateRecord, Agrees
  <1>2. Memory!SaveRecord(s, record)
    BY DEF Memory!SaveOwnerHash
  <1>3. /\ record \in Memory!SessionRecord
        /\ record.mappings = kept.mappings
        /\ record.token = kept.token /\ record.owner = h
    BY <1>1 DEF Memory!SessionRecord
  <1>4. /\ UpsertExpiration(s) /\ UNCHANGED clock
        /\ sessionMappings' = MappingsWithout(ExpiredIds)
        /\ sessionRestoreTokens' = SweptNow(sessionRestoreTokens)
        /\ sessionOwners' = UpsertCredential(sessionOwners, s, h)
    BY DEF SaveOwnerHash
  <1>5. SweptNow(sessionOwners) \in [Sessions -> CredentialRow]
    BY SweptFacts DEF SweptNow, BothInv, StoreInv, StoreTypeOK
  <1>6. /\ sessionOwners'[s].hash = h
        /\ \A t \in Sessions : t # s => sessionOwners'[t] = SweptNow(sessionOwners)[t]
    BY <1>4, <1>5 DEF UpsertCredential
  <1> HIDE DEF record, kept
  <1> QED BY <1>1, <1>2, <1>3, <1>4, <1>6, SaveAgrees DEF RowAgrees

LEMMA ClearAgrees ==
    ASSUME BothInv, NEW s \in Sessions, Clear(s), Memory!Clear(s)
    PROVE  MemoryTyped' /\ StoresAgree'
  <1>1. memory' = [memory EXCEPT ![s] = Memory!NoRecord] /\ MemoryTyped /\ StoresAgree /\ StoreTypeOK
    BY DEF Memory!Clear, BothInv, StoreInv
  <1>2. MemoryTyped'
    BY <1>1, NoRecordFacts DEF MemoryTyped
  <1>3. /\ sessionMappings' = MappingsWithout({s})
        /\ sessionExpirations' = ExpirationsWithout({s})
        /\ sessionRestoreTokens' = CredentialsWithout(sessionRestoreTokens, {s})
        /\ sessionOwners' = CredentialsWithout(sessionOwners, {s})
    BY DEF Clear, ClearAll
  <1>4. Agrees(s, memory'[s], sessionExpirations'[s], RowsOf(sessionMappings', s),
               sessionRestoreTokens'[s], sessionOwners'[s])
    <2>1. memory'[s] = Memory!NoRecord
      BY <1>1 DEF MemoryTyped
    <2>2. sessionRestoreTokens'[s] = NoRow /\ sessionOwners'[s] = NoRow
      BY <1>1, <1>3, CredentialsWithoutFacts DEF StoreTypeOK
    <2> QED BY <1>1, <1>3, <2>1, <2>2, NoRecordFacts, ExpirationsWithoutFacts, RowsGone
            DEF Agrees, RowAgrees
  <1>5. ASSUME NEW t \in Sessions, t # s
        PROVE  Agrees(t, memory'[t], sessionExpirations'[t], RowsOf(sessionMappings', t),
                      sessionRestoreTokens'[t], sessionOwners'[t])
    <2>1. memory'[t] = memory[t]
      BY <1>1, <1>5 DEF MemoryTyped
    <2>2. sessionRestoreTokens'[t] = sessionRestoreTokens[t] /\ sessionOwners'[t] = sessionOwners[t]
      BY <1>1, <1>3, <1>5, CredentialsWithoutFacts DEF StoreTypeOK
    <2> QED BY <1>1, <1>3, <1>5, <2>1, <2>2, ExpirationsWithoutFacts, RowsKept DEF StoresAgree
  <1> QED BY <1>2, <1>4, <1>5 DEF StoresAgree, RowsOf

LEMMA CleanupAgrees ==
    ASSUME BothInv, CleanupExpiredSessions, Memory!CleanupExpiredSessions
    PROVE  MemoryTyped' /\ StoresAgree'
  <1>1. /\ memory' = Memory!Kept
        /\ sessionMappings' = MappingsWithout(ExpiredIds)
        /\ sessionExpirations' = ExpirationsWithout(ExpiredIds)
        /\ sessionRestoreTokens' = SweptNow(sessionRestoreTokens)
        /\ sessionOwners' = SweptNow(sessionOwners)
    BY DEF CleanupExpiredSessions, DeleteExpired, SweptNow, Memory!CleanupExpiredSessions
  <1> QED BY <1>1, KeptAgrees DEF MemoryTyped, StoresAgree, RowsOf

LEMMA UnchangedAgrees ==
    ASSUME BothInv, UNCHANGED tables, UNCHANGED memory
    PROVE  MemoryTyped' /\ StoresAgree'
  BY DEF BothInv, MemoryTyped, StoresAgree, Agrees, RowAgrees, RowsOf, tables,
         Memory!SessionRecord, NoRow

LEMMA AccessAgrees ==
    ASSUME BothInv, NEW s \in Sessions, Access(s), Memory!Access(s)
    PROVE  MemoryTyped' /\ StoresAgree'
  <1>1. CASE s \in ExpiredIds
    BY <1>1, ExpiredInBoth, ClearAgrees DEF Access, Memory!Access
  <1>2. CASE s \notin ExpiredIds
    BY <1>2, ExpiredInBoth, UnchangedAgrees DEF Access, Memory!Access, storeVars
  <1> QED BY <1>1, <1>2

-----------------------------------------------------------------------------
(* The invariant holds.                                                    *)

LEMMA BothInitInv == BothInit => BothInv
  <1> SUFFICES ASSUME BothInit
               PROVE  BothInv
    OBVIOUS
  <1>1. StoreInv /\ MemoryTyped
    BY InitInv, NoRecordFacts DEF BothInit, Memory!MemoryInit, MemoryTyped
  <1>2. StoresAgree
    BY NoRecordFacts
       DEF BothInit, StoreInit, Memory!MemoryInit, StoresAgree, Agrees, RowAgrees, RowsOf, Absent
  <1> QED BY <1>1, <1>2 DEF BothInv

\* For the SQLite store the pair is an environment like any other.
LEMMA BothStepIsStoreStep == [BothNext]_bothVars => [StoreNext]_storeVars
  BY DEF BothNext, StoreNext, bothVars, GetMappings

LEMMA BothStepInv == BothInv /\ [BothNext]_bothVars => BothInv'
  <1> SUFFICES ASSUME BothInv, [BothNext]_bothVars
               PROVE  BothInv'
    OBVIOUS
  <1>1. StoreInv'
    BY BothStepIsStoreStep, StepInv DEF BothInv
  <1>2. ASSUME UNCHANGED bothVars
        PROVE  MemoryTyped' /\ StoresAgree'
    BY <1>2, UnchangedAgrees DEF bothVars, storeVars
  <1>3. ASSUME Tick, UNCHANGED memory
        PROVE  MemoryTyped' /\ StoresAgree'
    BY <1>3, UnchangedAgrees DEF Tick
  <1>4. MemoryTyped' /\ StoresAgree'
    BY <1>2, <1>3, CleanupAgrees, SaveMappingAgrees, SaveTokenAgrees,
       SaveOwnerAgrees, AccessAgrees, ClearAgrees DEF BothNext
  <1> QED BY <1>1, <1>4 DEF BothInv

LEMMA BothInvHolds == BothSpec => []BothInv
  BY BothInitInv, BothStepInv, PTL DEF BothSpec

\* What is proved of the SQLite store alone holds beside the other one.
LEMMA BothImplementStore == BothSpec => StoreSpec
  <1>1. BothInit => StoreInit
    BY DEF BothInit
  <1> QED BY <1>1, BothStepIsStoreStep, PTL DEF BothSpec, StoreSpec

-----------------------------------------------------------------------------

\* Code that is tested with the in-memory store finds the same mappings when it
\* runs on SQLite, whatever the order of the calls and of the clean-ups.
THEOREM StoresHoldTheSame == BothSpec => []SameMappings
  <1>1. BothInv => SameMappings
    <2> SUFFICES ASSUME BothInv, NEW s \in Sessions
                 PROVE  StoredIds(s) = Memory!StoredIds(s)
      BY DEF SameMappings
    <2>1. memory[s].mappings = RowsOf(sessionMappings, s)
      BY DEF BothInv, StoresAgree, Agrees
    <2> QED BY <2>1, ExpiredInBoth DEF StoredIds, Memory!StoredIds, RowsOf
  <1> QED BY <1>1, BothInvHolds, PTL

\* A token or an owner that the SQLite store accepts the in-memory store accepts
\* too: the four tables never widen access.
THEOREM NobodyElseLetIn == BothSpec => []NoWiderAccess
  <1>1. BothInv => NoWiderAccess
    <2> SUFFICES ASSUME BothInv, NEW s \in Sessions, NEW h \in Hashes
                 PROVE  /\ TokenVerifies(s, h) => Memory!TokenVerifies(s, h)
                        /\ OwnerVerifies(s, h) => Memory!OwnerVerifies(s, h)
      BY DEF NoWiderAccess
    <2>1. clock \in Nat
      BY DEF BothInv, StoreInv, StoreTypeOK
    <2>2. /\ RowAgrees(sessionRestoreTokens[s], memory[s].token)
          /\ RowAgrees(sessionOwners[s], memory[s].owner)
      BY DEF BothInv, StoresAgree, Agrees
    <2>3. TokenVerifies(s, h) => sessionRestoreTokens[s] # NoRow
      BY <2>1, NoRowFacts DEF TokenVerifies, RowLive
    <2>4. OwnerVerifies(s, h) => sessionOwners[s] # NoRow
      BY <2>1, NoRowFacts DEF OwnerVerifies, RowLive
    <2> QED BY <2>2, <2>3, <2>4, ExpiredInBoth
            DEF TokenVerifies, OwnerVerifies, Memory!TokenVerifies, Memory!OwnerVerifies, RowAgrees
  <1> QED BY <1>1, BothInvHolds, PTL

\* What the vault sees of the in-memory store, and that it is what it sees of
\* the other one.
contentsOfMemory == [s \in Sessions |-> IF Memory!Open(s) THEN Memory!StoredIds(s) ELSE {}]
deadlineOfMemory == [s \in Sessions |-> IF Memory!Open(s) THEN memory[s].expires_at ELSE -1]

SameView == contentsOfMemory = contentsBar /\ deadlineOfMemory = deadlineBar

LEMMA BothShowTheSame == BothInv => SameView
  <1> SUFFICES ASSUME BothInv, NEW s \in Sessions
               PROVE  /\ (IF Memory!Open(s) THEN Memory!StoredIds(s) ELSE {}) = Shown(s)
                      /\ (IF Memory!Open(s) THEN memory[s].expires_at ELSE -1) = Until(s)
    BY DEF SameView, contentsOfMemory, deadlineOfMemory, contentsBar, deadlineBar
  <1>1. /\ memory[s].mappings = RowsOf(sessionMappings, s)
        /\ memory[s].expires_at = sessionExpirations[s]
    BY DEF BothInv, StoresAgree, Agrees
  <1> QED BY <1>1, ExpiredInBoth
          DEF Shown, Until, Open, Memory!Open, StoredIds, Memory!StoredIds, RowsOf

LEMMA BothShowTheSameNext == BothInv' => SameView'
  BY BothShowTheSame, PTL

\* The in-memory store, too, empties a session at its deadline and keeps it
\* until then: what the vault sees of the two stores is the same.
THEOREM MemoryIsVault == BothSpec => MemoryImplementsVault
  <1>1. BothInit => Memory!Vault!VaultInit
    BY NoRecordFacts DEF BothInit, StoreInit, Memory!MemoryInit, Memory!Vault!VaultInit, Memory!Open,
       Memory!Vault!NoDeadline
  <1>2. BothInv /\ BothInv' /\ [BothNext]_bothVars => [Memory!Vault!VaultNext]_(Memory!Vault!vaultVars)
    <2> SUFFICES ASSUME BothInv, BothInv', [BothNext]_bothVars
                 PROVE  [Memory!Vault!VaultNext]_(Memory!Vault!vaultVars)
      OBVIOUS
    <2>1. /\ contentsOfMemory = contentsBar /\ deadlineOfMemory = deadlineBar
          /\ contentsOfMemory' = contentsBar' /\ deadlineOfMemory' = deadlineBar'
      BY BothShowTheSame, BothShowTheSameNext DEF SameView
    <2>2. \/ LapseBar
          \/ \E s \in Sessions :
                TouchBar(s) \/ DropBar(s) \/ \E id \in MappingIds : PutBar(s, id)
          \/ UNCHANGED vaultBar
      BY BothStepIsStoreStep, StepMaps DEF BothInv
    <2>3. LapseBar => Memory!Vault!Lapse
      BY <2>1 DEF LapseBar, Memory!Vault!Lapse, Memory!Vault!NoDeadline, contentsOfMemory, deadlineOfMemory
    <2>4. \A s \in Sessions : TouchBar(s) => Memory!Vault!Touch(s)
      BY <2>1 DEF TouchBar, Memory!Vault!Touch, contentsOfMemory, deadlineOfMemory
    <2>5. \A s \in Sessions : DropBar(s) => Memory!Vault!Drop(s)
      BY <2>1 DEF DropBar, Memory!Vault!Drop, Memory!Vault!NoDeadline, contentsOfMemory, deadlineOfMemory
    <2>6. \A s \in Sessions : \A id \in MappingIds : PutBar(s, id) => Memory!Vault!Put(s, id)
      BY <2>1 DEF PutBar, Memory!Vault!Put, contentsOfMemory, deadlineOfMemory
    <2>7. UNCHANGED vaultBar => UNCHANGED Memory!Vault!vaultVars
      BY <2>1 DEF vaultBar, Memory!Vault!vaultVars, contentsOfMemory, deadlineOfMemory
    <2> QED BY <2>2, <2>3, <2>4, <2>5, <2>6, <2>7 DEF Memory!Vault!VaultNext
  <1> QED BY <1>1, <1>2, BothInvHolds, PTL DEF BothSpec, MemoryImplementsVault, Memory!Vault!VaultSpec
=================================================================================
