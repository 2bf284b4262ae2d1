------------------------------ MODULE SessionStoreProofs ------------------------------
(***************************************************************************)
(* What holds of the SQLite session store for any sessions, hashes,        *)
(* mappings and lifetime, in whatever order its operations are called.     *)
(***************************************************************************)
EXTENDS SessionStore, TLAPS

-----------------------------------------------------------------------------
(* What the helpers return.                                                *)

LEMMA NoRowFacts ==
    /\ NoRow \in CredentialRow
    /\ NoRow.expires_at = -1
    /\ NoRow.hash = NoHash
BY DEF NoRow, CredentialRow, Expiry, Absent

\* A deadline is in the future of any clock: saving never shortens a life.
LEMMA BuildExpirationFacts ==
    ASSUME clock \in Nat
    PROVE  /\ BuildExpiration \in Nat
           /\ BuildExpiration \in Expiry
           /\ BuildExpiration > clock
BY TTLAssumption DEF BuildExpiration, Expiry

LEMMA ExpirationsWithoutFacts ==
    ASSUME StoreTypeOK, NEW dead
    PROVE  /\ ExpirationsWithout(dead) \in [Sessions -> Expiry]
           /\ \A s \in Sessions : s \in dead => ExpirationsWithout(dead)[s] = -1
           /\ \A s \in Sessions : s \notin dead =>
                 ExpirationsWithout(dead)[s] = sessionExpirations[s]
BY DEF ExpirationsWithout, StoreTypeOK, Expiry, Absent

\* Sweeping a credential table keeps a row or removes it, nothing else.
LEMMA SweptFacts ==
    ASSUME NEW table \in [Sessions -> CredentialRow], NEW dead, NEW now
    PROVE  /\ Swept(table, dead, now) \in [Sessions -> CredentialRow]
           /\ \A s \in Sessions : s \in dead => Swept(table, dead, now)[s] = NoRow
           /\ \A s \in Sessions :
                 Swept(table, dead, now)[s] = table[s] \/ Swept(table, dead, now)[s] = NoRow
BY NoRowFacts DEF Swept

LEMMA CredentialsWithoutFacts ==
    ASSUME NEW table \in [Sessions -> CredentialRow], NEW dead
    PROVE  /\ CredentialsWithout(table, dead) \in [Sessions -> CredentialRow]
           /\ \A s \in Sessions : s \in dead => CredentialsWithout(table, dead)[s] = NoRow
           /\ \A s \in Sessions : s \notin dead => CredentialsWithout(table, dead)[s] = table[s]
BY NoRowFacts DEF CredentialsWithout

\* An expiration that was extended is no earlier than before, and is live.
LEMMA UpsertExpirationFacts ==
    ASSUME StoreTypeOK, NEW s \in Sessions, UpsertExpiration(s)
    PROVE  /\ sessionExpirations' \in [Sessions -> Expiry]
           /\ sessionExpirations'[s] = BuildExpiration
           /\ \A t \in Sessions : t \in ExpiredIds /\ t # s => sessionExpirations'[t] = -1
           /\ \A t \in Sessions : t \notin ExpiredIds /\ t # s =>
                 sessionExpirations'[t] = sessionExpirations[t]
BY ExpirationsWithoutFacts, BuildExpirationFacts DEF UpsertExpiration, StoreTypeOK

\* A session that is not expired has no row past the deadline of a save now.
LEMMA LiveOrExpired ==
    ASSUME StoreTypeOK, NEW s \in Sessions
    PROVE  /\ s \in ExpiredIds <=> sessionExpirations[s] # -1 /\ sessionExpirations[s] <= clock
           /\ sessionExpirations[s] \in Int
BY DEF ExpiredIds, IsExpired, Absent, StoreTypeOK, Expiry

-----------------------------------------------------------------------------
(* Every operation preserves the invariant.                                *)

LEMMA InitInv == StoreInit => StoreInv
BY NoRowFacts, TTLAssumption
   DEF StoreInit, StoreInv, StoreTypeOK, RowsWithinSession, LifetimeBounded, Expiry, Absent

\* A deletion leaves rows as they were and removes those of the sessions in
\* dead from every table, so what is left keeps the deadline it had.
LEMMA DeleteExpiredInv ==
    ASSUME StoreInv, NEW dead, NEW now, DeleteExpired(dead, now)
    PROVE  StoreInv'
<1>1. StoreTypeOK'
  BY SweptFacts, ExpirationsWithoutFacts
     DEF StoreInv, StoreTypeOK, DeleteExpired, MappingsWithout
<1>2. RowsWithinSession'
  <2>1. \A row \in sessionMappings' : row.expires_at <= sessionExpirations'[row.session]
    BY ExpirationsWithoutFacts
       DEF StoreInv, StoreTypeOK, RowsWithinSession, DeleteExpired, MappingsWithout, MappingRow
  <2>2. ASSUME NEW table \in [Sessions -> CredentialRow], NEW s \in Sessions,
               table[s].expires_at <= sessionExpirations[s]
        PROVE  Swept(table, dead, now)[s].expires_at <= sessionExpirations'[s]
    <3>1. sessionExpirations'[s] = ExpirationsWithout(dead)[s]
      BY DEF DeleteExpired
    <3>2. sessionExpirations[s] \in Expiry
      BY DEF StoreInv, StoreTypeOK
    <3>3. CASE s \in dead
      BY <3>1, <3>3, SweptFacts, NoRowFacts, ExpirationsWithoutFacts DEF StoreInv
    <3>4. CASE s \notin dead
      <4>1. sessionExpirations'[s] = sessionExpirations[s]
        BY <3>1, <3>4, ExpirationsWithoutFacts DEF StoreInv
      <4>2. Swept(table, dead, now)[s] = table[s] \/ Swept(table, dead, now)[s] = NoRow
        BY SweptFacts
      <4>3. QED
        BY <2>2, <3>2, <4>1, <4>2, NoRowFacts DEF Expiry, Absent
    <3>5. QED
      BY <3>3, <3>4
  <2>3. QED
    BY <2>1, <2>2 DEF StoreInv, StoreTypeOK, RowsWithinSession, DeleteExpired
<1>3. LifetimeBounded'
  BY ExpirationsWithoutFacts, TTLAssumption
     DEF StoreInv, StoreTypeOK, LifetimeBounded, DeleteExpired, Expiry, Absent
<1>4. QED
  BY <1>1, <1>2, <1>3 DEF StoreInv

LEMMA ClearAllInv ==
    ASSUME StoreInv, NEW dead, ClearAll(dead)
    PROVE  StoreInv'
<1>1. StoreTypeOK'
  BY CredentialsWithoutFacts, ExpirationsWithoutFacts
     DEF StoreInv, StoreTypeOK, ClearAll, MappingsWithout
<1>2. RowsWithinSession'
  <2>1. \A row \in sessionMappings' : row.expires_at <= sessionExpirations'[row.session]
    BY ExpirationsWithoutFacts
       DEF StoreInv, StoreTypeOK, RowsWithinSession, ClearAll, MappingsWithout, MappingRow
  <2>2. ASSUME NEW table \in [Sessions -> CredentialRow], NEW s \in Sessions,
               table[s].expires_at <= sessionExpirations[s]
        PROVE  CredentialsWithout(table, dead)[s].expires_at <= sessionExpirations'[s]
    <3>1. sessionExpirations'[s] = ExpirationsWithout(dead)[s]
      BY DEF ClearAll
    <3>2. CASE s \in dead
      BY <3>1, <3>2, CredentialsWithoutFacts, NoRowFacts, ExpirationsWithoutFacts DEF StoreInv
    <3>3. CASE s \notin dead
      BY <2>2, <3>1, <3>3, CredentialsWithoutFacts, ExpirationsWithoutFacts DEF StoreInv
    <3>4. QED
      BY <3>2, <3>3
  <2>3. QED
    BY <2>1, <2>2 DEF StoreInv, StoreTypeOK, RowsWithinSession, ClearAll
<1>3. LifetimeBounded'
  BY ExpirationsWithoutFacts, TTLAssumption
     DEF StoreInv, StoreTypeOK, LifetimeBounded, ClearAll, Expiry, Absent
<1>4. QED
  BY <1>1, <1>2, <1>3 DEF StoreInv

LEMMA AccessInv ==
    ASSUME StoreInv, NEW s, Access(s)
    PROVE  StoreInv'
<1>1. CASE Clear(s)
  BY <1>1, ClearAllInv DEF Clear
<1>2. CASE UNCHANGED storeVars
  BY <1>2 DEF StoreInv, StoreTypeOK, RowsWithinSession, LifetimeBounded, storeVars, tables
<1>3. QED
  BY <1>1, <1>2 DEF Access

LEMMA TickInv ==
    ASSUME StoreInv, Tick
    PROVE  StoreInv'
BY TTLAssumption
   DEF StoreInv, StoreTypeOK, RowsWithinSession, LifetimeBounded, Tick, tables, Expiry, Absent

\* The renewed deadline of the saved session covers every row it keeps: rows of
\* a live session are at most TTL away, those of an expired one are removed.
LEMMA UpsertInv ==
    ASSUME StoreInv, NEW s \in Sessions, UpsertExpiration(s), UNCHANGED clock
    PROVE  /\ LifetimeBounded'
           /\ \A t \in Sessions : t \notin ExpiredIds =>
                 sessionExpirations[t] <= sessionExpirations'[t]
           /\ \A t \in Sessions : sessionExpirations'[t] \in Int /\ sessionExpirations'[t] >= -1
           /\ sessionExpirations' \in [Sessions -> Expiry]
<1>1. StoreTypeOK /\ LifetimeBounded
  BY DEF StoreInv
<1>2. /\ sessionExpirations' \in [Sessions -> Expiry]
      /\ sessionExpirations'[s] = BuildExpiration
      /\ \A t \in Sessions : t \in ExpiredIds /\ t # s => sessionExpirations'[t] = -1
      /\ \A t \in Sessions : t \notin ExpiredIds /\ t # s =>
            sessionExpirations'[t] = sessionExpirations[t]
  BY <1>1, UpsertExpirationFacts
<1>3. LifetimeBounded'
  BY <1>1, <1>2, TTLAssumption DEF LifetimeBounded, BuildExpiration, StoreTypeOK, Expiry, Absent
<1>4. \A t \in Sessions : t \notin ExpiredIds => sessionExpirations[t] <= sessionExpirations'[t]
  BY <1>1, <1>2, TTLAssumption DEF LifetimeBounded, BuildExpiration, StoreTypeOK, Expiry, Absent
<1>5. QED
  BY <1>2, <1>3, <1>4 DEF Expiry, Absent

\* A credential table after a save, whether or not s got a new row in it.
LEMMA SweptNowWithin ==
    ASSUME StoreInv, NEW s \in Sessions, UpsertExpiration(s), UNCHANGED clock,
           NEW table \in [Sessions -> CredentialRow],
           \A t \in Sessions : table[t].expires_at <= sessionExpirations[t]
    PROVE  \A t \in Sessions : SweptNow(table)[t].expires_at <= sessionExpirations'[t]
<1> SUFFICES ASSUME NEW t \in Sessions
             PROVE  SweptNow(table)[t].expires_at <= sessionExpirations'[t]
  OBVIOUS
<1>1. sessionExpirations'[t] \in Int /\ sessionExpirations'[t] >= -1
  BY UpsertInv
<1>2. CASE SweptNow(table)[t] = NoRow
  BY <1>1, <1>2, NoRowFacts
<1>3. CASE SweptNow(table)[t] # NoRow
  <2>1. SweptNow(table)[t] = table[t] /\ t \notin ExpiredIds
    BY <1>3, SweptFacts DEF SweptNow
  <2>2. sessionExpirations[t] <= sessionExpirations'[t]
    BY <2>1, UpsertInv
  <2>3. table[t].expires_at \in Int /\ sessionExpirations[t] \in Int
    BY DEF StoreInv, StoreTypeOK, CredentialRow, Expiry, Absent
  <2>4. QED
    BY <1>1, <2>1, <2>2, <2>3
<1>4. QED
  BY <1>2, <1>3

\* The row of the saved session lives exactly as long as the session.
LEMMA UpsertCredentialWithin ==
    ASSUME StoreInv, NEW s \in Sessions, NEW h \in Hashes, UpsertExpiration(s), UNCHANGED clock,
           NEW table \in [Sessions -> CredentialRow],
           \A t \in Sessions : table[t].expires_at <= sessionExpirations[t]
    PROVE  /\ UpsertCredential(table, s, h) \in [Sessions -> CredentialRow]
           /\ \A t \in Sessions :
                 UpsertCredential(table, s, h)[t].expires_at <= sessionExpirations'[t]
<1> DEFINE row == [hash |-> h, expires_at |-> BuildExpiration]
<1>1. row \in CredentialRow /\ row.expires_at = BuildExpiration
  BY BuildExpirationFacts DEF CredentialRow, StoreInv, StoreTypeOK
<1>2. SweptNow(table) \in [Sessions -> CredentialRow]
  BY SweptFacts DEF SweptNow
<1>3. \A t \in Sessions : SweptNow(table)[t].expires_at <= sessionExpirations'[t]
  BY SweptNowWithin
<1>4. sessionExpirations'[s] = BuildExpiration /\ BuildExpiration \in Nat
  BY UpsertExpirationFacts, BuildExpirationFacts DEF StoreInv, StoreTypeOK
<1>5. UpsertCredential(table, s, h) = [SweptNow(table) EXCEPT ![s] = row]
  BY DEF UpsertCredential
<1> HIDE DEF row
<1>6. UpsertCredential(table, s, h) \in [Sessions -> CredentialRow]
  BY <1>1, <1>2, <1>5
<1>7. ASSUME NEW t \in Sessions
      PROVE  UpsertCredential(table, s, h)[t].expires_at <= sessionExpirations'[t]
  <2>1. CASE t = s
    BY <1>1, <1>2, <1>4, <1>5, <2>1
  <2>2. CASE t # s
    BY <1>2, <1>3, <1>5, <2>2
  <2>3. QED
    BY <2>1, <2>2
<1>8. QED
  BY <1>6, <1>7

\* What the clean-up of a save leaves of session_mappings lies within the
\* renewed deadlines.
LEMMA MappingsKeptWithin ==
    ASSUME StoreInv, NEW s \in Sessions, UpsertExpiration(s), UNCHANGED clock
    PROVE  \A row \in MappingsWithout(ExpiredIds) :
              /\ row \in MappingRow
              /\ row.expires_at <= sessionExpirations'[row.session]
<1> SUFFICES ASSUME NEW row \in sessionMappings, row.session \notin ExpiredIds
             PROVE  row \in MappingRow /\ row.expires_at <= sessionExpirations'[row.session]
  BY DEF MappingsWithout
<1>1. row \in MappingRow /\ row.session \in Sessions /\ row.expires_at \in Nat
  BY DEF StoreInv, StoreTypeOK, MappingRow
<1>2. row.expires_at <= sessionExpirations[row.session]
  BY DEF StoreInv, RowsWithinSession
<1>3. sessionExpirations[row.session] <= sessionExpirations'[row.session]
  BY <1>1, UpsertInv
<1>4. sessionExpirations[row.session] \in Int /\ sessionExpirations'[row.session] \in Int
  BY <1>1, UpsertInv, LiveOrExpired DEF StoreInv
<1>5. QED
  BY <1>1, <1>2, <1>3, <1>4

LEMMA SaveMappingInv ==
    ASSUME StoreInv, NEW s \in Sessions, NEW id \in MappingIds, SaveMapping(s, id)
    PROVE  StoreInv'
<1> DEFINE row == [session |-> s, id |-> id, expires_at |-> BuildExpiration]
<1>1. UpsertExpiration(s) /\ UNCHANGED clock
  BY DEF SaveMapping
<1>2. sessionMappings' = MappingsWithout(ExpiredIds) \cup {row}
  BY DEF SaveMapping
<1>3. sessionExpirations'[s] = BuildExpiration /\ BuildExpiration \in Nat
  BY <1>1, UpsertExpirationFacts, BuildExpirationFacts DEF StoreInv, StoreTypeOK
<1>4. row \in MappingRow /\ row.expires_at <= sessionExpirations'[row.session]
  BY <1>3 DEF MappingRow
<1> HIDE DEF row
<1>5. \A m \in sessionMappings' : m \in MappingRow /\ m.expires_at <= sessionExpirations'[m.session]
  BY <1>1, <1>2, <1>4, MappingsKeptWithin
<1>6. /\ sessionRestoreTokens' \in [Sessions -> CredentialRow]
      /\ \A t \in Sessions : sessionRestoreTokens'[t].expires_at <= sessionExpirations'[t]
  BY <1>1, SweptFacts, SweptNowWithin
     DEF StoreInv, StoreTypeOK, RowsWithinSession, SaveMapping, SweptNow
<1>7. /\ sessionOwners' \in [Sessions -> CredentialRow]
      /\ \A t \in Sessions : sessionOwners'[t].expires_at <= sessionExpirations'[t]
  BY <1>1, SweptFacts, SweptNowWithin
     DEF StoreInv, StoreTypeOK, RowsWithinSession, SaveMapping, SweptNow
<1>8. LifetimeBounded' /\ sessionExpirations' \in [Sessions -> Expiry] /\ clock' \in Nat
  BY <1>1, UpsertInv DEF StoreInv, StoreTypeOK
<1>9. QED
  BY <1>5, <1>6, <1>7, <1>8 DEF StoreInv, StoreTypeOK, RowsWithinSession

LEMMA SaveRestoreTokenHashInv ==
    ASSUME StoreInv, NEW s \in Sessions, NEW h \in Hashes, SaveRestoreTokenHash(s, h)
    PROVE  StoreInv'
<1>1. UpsertExpiration(s) /\ UNCHANGED clock
  BY DEF SaveRestoreTokenHash
<1>2. \A m \in sessionMappings' : m \in MappingRow /\ m.expires_at <= sessionExpirations'[m.session]
  BY <1>1, MappingsKeptWithin DEF SaveRestoreTokenHash
<1>3. /\ sessionRestoreTokens' \in [Sessions -> CredentialRow]
      /\ \A t \in Sessions : sessionRestoreTokens'[t].expires_at <= sessionExpirations'[t]
  BY <1>1, UpsertCredentialWithin
     DEF StoreInv, StoreTypeOK, RowsWithinSession, SaveRestoreTokenHash
<1>4. /\ sessionOwners' \in [Sessions -> CredentialRow]
      /\ \A t \in Sessions : sessionOwners'[t].expires_at <= sessionExpirations'[t]
  BY <1>1, SweptFacts, SweptNowWithin
     DEF StoreInv, StoreTypeOK, RowsWithinSession, SaveRestoreTokenHash, SweptNow
<1>5. LifetimeBounded' /\ sessionExpirations' \in [Sessions -> Expiry] /\ clock' \in Nat
  BY <1>1, UpsertInv DEF StoreInv, StoreTypeOK
<1>6. QED
  BY <1>2, <1>3, <1>4, <1>5 DEF StoreInv, StoreTypeOK, RowsWithinSession

LEMMA SaveOwnerHashInv ==
    ASSUME StoreInv, NEW s \in Sessions, NEW h \in Hashes, SaveOwnerHash(s, h)
    PROVE  StoreInv'
<1>1. UpsertExpiration(s) /\ UNCHANGED clock
  BY DEF SaveOwnerHash
<1>2. \A m \in sessionMappings' : m \in MappingRow /\ m.expires_at <= sessionExpirations'[m.session]
  BY <1>1, MappingsKeptWithin DEF SaveOwnerHash
<1>3. /\ sessionOwners' \in [Sessions -> CredentialRow]
      /\ \A t \in Sessions : sessionOwners'[t].expires_at <= sessionExpirations'[t]
  BY <1>1, UpsertCredentialWithin DEF StoreInv, StoreTypeOK, RowsWithinSession, SaveOwnerHash
<1>4. /\ sessionRestoreTokens' \in [Sessions -> CredentialRow]
      /\ \A t \in Sessions : sessionRestoreTokens'[t].expires_at <= sessionExpirations'[t]
  BY <1>1, SweptFacts, SweptNowWithin
     DEF StoreInv, StoreTypeOK, RowsWithinSession, SaveOwnerHash, SweptNow
<1>5. LifetimeBounded' /\ sessionExpirations' \in [Sessions -> Expiry] /\ clock' \in Nat
  BY <1>1, UpsertInv DEF StoreInv, StoreTypeOK
<1>6. QED
  BY <1>2, <1>3, <1>4, <1>5 DEF StoreInv, StoreTypeOK, RowsWithinSession

-----------------------------------------------------------------------------
(* The invariant, and what follows from it.                                *)

LEMMA StepInv == StoreInv /\ [StoreNext]_storeVars => StoreInv'
<1> SUFFICES ASSUME StoreInv, [StoreNext]_storeVars
             PROVE  StoreInv'
  OBVIOUS
<1>1. CASE Tick
  BY <1>1, TickInv
<1>2. CASE CleanupExpiredSessions
  BY <1>2, DeleteExpiredInv DEF CleanupExpiredSessions
<1>3. ASSUME NEW s \in Sessions, NEW id \in MappingIds, SaveMapping(s, id)
      PROVE  StoreInv'
  BY <1>3, SaveMappingInv
<1>4. ASSUME NEW s \in Sessions, NEW h \in Hashes, SaveRestoreTokenHash(s, h)
      PROVE  StoreInv'
  BY <1>4, SaveRestoreTokenHashInv
<1>5. ASSUME NEW s \in Sessions, NEW h \in Hashes, SaveOwnerHash(s, h)
      PROVE  StoreInv'
  BY <1>5, SaveOwnerHashInv
<1>6. ASSUME NEW s \in Sessions,
             VerifyRestoreTokenHash(s) \/ VerifyOwnerHash(s) \/ GetMappings(s)
      PROVE  StoreInv'
  BY <1>6, AccessInv DEF VerifyRestoreTokenHash, VerifyOwnerHash, GetMappings
<1>7. ASSUME NEW s \in Sessions, Clear(s)
      PROVE  StoreInv'
  BY <1>7, ClearAllInv DEF Clear
<1>8. CASE UNCHANGED storeVars
  BY <1>8 DEF StoreInv, StoreTypeOK, RowsWithinSession, LifetimeBounded, storeVars, tables
<1>9. QED
  BY <1>1, <1>2, <1>3, <1>4, <1>5, <1>6, <1>7, <1>8 DEF StoreNext

LEMMA InvHolds == StoreSpec => []StoreInv
BY InitInv, StepInv, PTL DEF StoreSpec

\* The four tables keep the columns their schema declares.
THEOREM StoreTypeCorrect == StoreSpec => []StoreTypeOK
<1>1. StoreInv => StoreTypeOK
  BY DEF StoreInv
<1>2. QED
  BY <1>1, InvHolds, PTL

\* No mapping, token or owner row outlives the session it belongs to, although
\* nothing but the order of the writes ties the four expiries together.
THEOREM NoRowOutlivesSession == StoreSpec => []RowsWithinSession
<1>1. StoreInv => RowsWithinSession
  BY DEF StoreInv
<1>2. QED
  BY <1>1, InvHolds, PTL

\* No sequence of saves makes a session live longer than TTL from now.
THEOREM NoLongLife == StoreSpec => []LifetimeBounded
<1>1. StoreInv => LifetimeBounded
  BY DEF StoreInv
<1>2. QED
  BY <1>1, InvHolds, PTL

\* After cleanup_expired_sessions no original text of an expired session is
\* stored.  RowsWithinSession is what makes this true: a row whose session had
\* no expiration row would never be selected.
THEOREM CleanupErases == StoreSpec => CleanupErasesExpired
<1>1. StoreInv /\ [StoreNext]_storeVars =>
         [CleanupExpiredSessions => ErasedByCleanup]_storeVars
  <2> SUFFICES ASSUME StoreInv, CleanupExpiredSessions, NEW row \in sessionMappings'
               PROVE  sessionExpirations'[row.session] > clock
    BY DEF ErasedByCleanup
  <2>1. /\ row \in sessionMappings
        /\ row.session \in Sessions
        /\ row.session \notin ExpiredIds
        /\ row.expires_at \in Nat
    BY DEF CleanupExpiredSessions, DeleteExpired, MappingsWithout, StoreInv, StoreTypeOK, MappingRow
  <2>2. sessionExpirations'[row.session] = sessionExpirations[row.session]
    BY <2>1, ExpirationsWithoutFacts DEF CleanupExpiredSessions, DeleteExpired, StoreInv
  <2>3. row.expires_at <= sessionExpirations[row.session]
    BY <2>1 DEF StoreInv, RowsWithinSession
  <2>4. sessionExpirations[row.session] # -1
    BY <2>1, <2>3
  <2>5. QED
    BY <2>1, <2>2, <2>4, LiveOrExpired DEF StoreInv, StoreTypeOK
<1>2. QED
  BY <1>1, InvHolds, PTL DEF StoreSpec, CleanupErasesExpired

-----------------------------------------------------------------------------
(* The store implements MappingVault: whatever clean-up runs and whenever, *)
(* a session shows the mappings saved in it since it was opened, for TTL   *)
(* after its last save, and nothing from then on.                          *)

\* What the vault sees of session s, and until when.
Shown(s) == IF Open(s) THEN StoredIds(s) ELSE {}
Until(s) == IF Open(s) THEN sessionExpirations[s] ELSE -1

contentsBar == [s \in Sessions |-> Shown(s)]
deadlineBar == [s \in Sessions |-> Until(s)]

RowsOf(rows, s) == {row.id : row \in {m \in rows : m.session = s}}

\* An open session shows all its rows; one without an expiration row has none.
LEMMA ShownFacts ==
    ASSUME StoreInv, NEW s \in Sessions
    PROVE  /\ Open(s) => Shown(s) = RowsOf(sessionMappings, s) /\ Until(s) = sessionExpirations[s]
           /\ ~Open(s) => Shown(s) = {} /\ Until(s) = -1
           /\ Open(s) => s \notin ExpiredIds
           /\ s \in ExpiredIds => ~Open(s)
           /\ ~Open(s) /\ s \notin ExpiredIds => RowsOf(sessionMappings, s) = {}
<1>1. /\ s \in ExpiredIds <=> sessionExpirations[s] # -1 /\ sessionExpirations[s] <= clock
      /\ sessionExpirations[s] \in Expiry
      /\ clock \in Nat
  BY LiveOrExpired DEF StoreInv, StoreTypeOK
<1>2. IsExpired(s) <=> s \in ExpiredIds
  BY DEF ExpiredIds
<1>3. ASSUME ~Open(s), s \notin ExpiredIds, NEW m \in sessionMappings, m.session = s
      PROVE  FALSE
  <2>1. sessionExpirations[s] = -1
    BY <1>1, <1>3 DEF Open, Expiry, Absent
  <2>2. m.expires_at \in Nat /\ m.expires_at <= -1
    BY <1>3, <2>1 DEF StoreInv, StoreTypeOK, RowsWithinSession, MappingRow
  <2>3. QED
    BY <2>2
<1>4. QED
  BY <1>1, <1>2, <1>3 DEF Open, Shown, Until, StoredIds, RowsOf, Expiry, Absent

\* Deleting the rows of other sessions leaves those of s alone.
LEMMA RowsKept ==
    ASSUME NEW s, NEW dead, s \notin dead
    PROVE  RowsOf(MappingsWithout(dead), s) = RowsOf(sessionMappings, s)
BY DEF RowsOf, MappingsWithout

LEMMA RowsGone ==
    ASSUME NEW s, NEW dead, s \in dead
    PROVE  RowsOf(MappingsWithout(dead), s) = {}
BY DEF RowsOf, MappingsWithout

ShownByRows ==
    \A s \in Sessions :
        /\ Open(s) => Shown(s) = RowsOf(sessionMappings, s) /\ Until(s) = sessionExpirations[s]
        /\ ~Open(s) => Shown(s) = {} /\ Until(s) = -1

LEMMA ShownByRowsHolds == StoreInv => ShownByRows
BY ShownFacts DEF ShownByRows

LEMMA ShownByRowsNext == StoreInv' => ShownByRows'
BY ShownByRowsHolds, PTL

\* Every save: other sessions look as before, s is open for TTL and shows its
\* rows, those it had if it was open, none of an earlier life.
LEMMA SaveShown ==
    ASSUME StoreInv, StoreInv', NEW s \in Sessions, UpsertExpiration(s), UNCHANGED clock,
           NEW ids,
           RowsOf(sessionMappings', s) = RowsOf(MappingsWithout(ExpiredIds), s) \cup ids,
           \A t \in Sessions : t # s =>
              RowsOf(sessionMappings', t) = RowsOf(MappingsWithout(ExpiredIds), t)
    PROVE  /\ Shown(s)' = Shown(s) \cup ids
           /\ Until(s)' = clock + TTL
           /\ \A t \in Sessions : t # s => Shown(t)' = Shown(t) /\ Until(t)' = Until(t)
<1>1. /\ sessionExpirations'[s] = BuildExpiration
      /\ \A t \in Sessions : t \in ExpiredIds /\ t # s => sessionExpirations'[t] = -1
      /\ \A t \in Sessions : t \notin ExpiredIds /\ t # s =>
            sessionExpirations'[t] = sessionExpirations[t]
  BY UpsertExpirationFacts DEF StoreInv
<1>2. ShownByRows'
  BY ShownByRowsNext
<1>3. BuildExpiration = clock + TTL /\ BuildExpiration > clock /\ clock \in Nat /\ clock' = clock
  BY BuildExpirationFacts DEF BuildExpiration, StoreInv, StoreTypeOK
<1>4. Open(s)'
  BY <1>1, <1>3 DEF Open
<1>5. RowsOf(sessionMappings', s) = RowsOf(MappingsWithout(ExpiredIds), s) \cup ids
  OBVIOUS
<1>6. RowsOf(MappingsWithout(ExpiredIds), s) = Shown(s)
  <2>1. CASE Open(s)
    BY <2>1, ShownFacts, RowsKept
  <2>2. CASE s \in ExpiredIds
    BY <2>2, ShownFacts, RowsGone
  <2>3. CASE ~Open(s) /\ s \notin ExpiredIds
    BY <2>3, ShownFacts, RowsKept
  <2>4. QED
    BY <2>1, <2>2, <2>3
<1>7. Shown(s)' = Shown(s) \cup ids /\ Until(s)' = clock + TTL
  BY <1>1, <1>2, <1>3, <1>4, <1>5, <1>6 DEF ShownByRows
<1>8. ASSUME NEW t \in Sessions, t # s
      PROVE  Shown(t)' = Shown(t) /\ Until(t)' = Until(t)
  <2>1. RowsOf(sessionMappings', t) = RowsOf(MappingsWithout(ExpiredIds), t)
    BY <1>8
  <2>2. CASE t \in ExpiredIds
    <3>1. ~Open(t)' /\ ~Open(t)
      BY <1>1, <1>3, <1>8, <2>2, ShownFacts DEF Open
    <3>2. QED
      BY <1>2, <3>1, ShownFacts DEF ShownByRows
  <2>3. CASE t \notin ExpiredIds
    <3>1. Open(t)' <=> Open(t)
      BY <1>1, <1>3, <1>8, <2>3 DEF Open
    <3>2. RowsOf(sessionMappings', t) = RowsOf(sessionMappings, t)
      BY <2>1, <2>3, RowsKept
    <3>3. sessionExpirations'[t] = sessionExpirations[t]
      BY <1>1, <1>8, <2>3
    <3>4. QED
      BY <1>2, <3>1, <3>2, <3>3, ShownFacts DEF ShownByRows
  <2>4. QED
    BY <2>2, <2>3
<1>9. QED
  BY <1>7, <1>8

\* A deletion: sessions outside dead look as before, those in dead are empty.
LEMMA DeleteShown ==
    ASSUME StoreInv, StoreInv', NEW dead, UNCHANGED clock,
           sessionMappings' = MappingsWithout(dead),
           sessionExpirations' = ExpirationsWithout(dead)
    PROVE  \A t \in Sessions :
              /\ t \in dead => Shown(t)' = {} /\ Until(t)' = -1
              /\ t \notin dead => Shown(t)' = Shown(t) /\ Until(t)' = Until(t)
<1>1. ShownByRows' /\ clock \in Nat
  BY ShownByRowsNext DEF StoreInv, StoreTypeOK
<1>2. ASSUME NEW t \in Sessions, t \in dead
      PROVE  Shown(t)' = {} /\ Until(t)' = -1
  BY <1>1, <1>2, ExpirationsWithoutFacts DEF ShownByRows, Open, StoreInv
<1>3. ASSUME NEW t \in Sessions, t \notin dead
      PROVE  Shown(t)' = Shown(t) /\ Until(t)' = Until(t)
  <2>1. sessionExpirations'[t] = sessionExpirations[t]
    BY <1>3, ExpirationsWithoutFacts DEF StoreInv
  <2>2. Open(t)' <=> Open(t)
    BY <2>1 DEF Open
  <2>3. QED
    BY <1>1, <1>3, <2>1, <2>2, ShownFacts, RowsKept DEF ShownByRows
<1>4. QED
  BY <1>2, <1>3

-----------------------------------------------------------------------------
(* Each operation is a step of the vault, or is invisible to it.           *)

vaultBar == <<clock, contentsBar, deadlineBar>>

PutBar(s, id) ==
    /\ contentsBar' = [contentsBar EXCEPT ![s] = @ \cup {id}]
    /\ deadlineBar' = [deadlineBar EXCEPT ![s] = clock + TTL]
    /\ UNCHANGED clock

TouchBar(s) ==
    /\ deadlineBar' = [deadlineBar EXCEPT ![s] = clock + TTL]
    /\ UNCHANGED <<clock, contentsBar>>

DropBar(s) ==
    /\ contentsBar' = [contentsBar EXCEPT ![s] = {}]
    /\ deadlineBar' = [deadlineBar EXCEPT ![s] = -1]
    /\ UNCHANGED clock

LapseBar ==
    /\ clock < MaxClock
    /\ clock' = clock + 1
    /\ contentsBar' =
          [s \in Sessions |-> IF deadlineBar[s] <= clock' THEN {} ELSE contentsBar[s]]
    /\ deadlineBar' =
          [s \in Sessions |-> IF deadlineBar[s] <= clock' THEN -1 ELSE deadlineBar[s]]

LEMMA SaveMappingPuts ==
    ASSUME StoreInv, StoreInv', NEW s \in Sessions, NEW id \in MappingIds, SaveMapping(s, id)
    PROVE  PutBar(s, id)
<1>1. UpsertExpiration(s) /\ UNCHANGED clock
  BY DEF SaveMapping
<1>2. RowsOf(sessionMappings', s) = RowsOf(MappingsWithout(ExpiredIds), s) \cup {id}
  <2> DEFINE row == [session |-> s, id |-> id, expires_at |-> BuildExpiration]
  <2>1. row.session = s /\ row.id = id
    OBVIOUS
  <2>2. sessionMappings' = MappingsWithout(ExpiredIds) \cup {row}
    BY DEF SaveMapping
  <2> HIDE DEF row
  <2>3. QED
    BY <2>1, <2>2 DEF RowsOf
<1>3. \A t \in Sessions : t # s =>
         RowsOf(sessionMappings', t) = RowsOf(MappingsWithout(ExpiredIds), t)
  BY DEF SaveMapping, RowsOf
<1>4. /\ Shown(s)' = Shown(s) \cup {id}
      /\ Until(s)' = clock + TTL
      /\ \A t \in Sessions : t # s => Shown(t)' = Shown(t) /\ Until(t)' = Until(t)
  BY <1>1, <1>2, <1>3, SaveShown
<1>5. QED
  BY <1>1, <1>4 DEF PutBar, contentsBar, deadlineBar

LEMMA SaveCredentialTouches ==
    ASSUME StoreInv, StoreInv', NEW s \in Sessions, UpsertExpiration(s), UNCHANGED clock,
           sessionMappings' = MappingsWithout(ExpiredIds)
    PROVE  TouchBar(s)
<1>1. RowsOf(sessionMappings', s) = RowsOf(MappingsWithout(ExpiredIds), s) \cup {}
  OBVIOUS
<1>2. /\ Shown(s)' = Shown(s) \cup {}
      /\ Until(s)' = clock + TTL
      /\ \A t \in Sessions : t # s => Shown(t)' = Shown(t) /\ Until(t)' = Until(t)
  BY <1>1, SaveShown
<1>3. Shown(s)' = Shown(s)
  BY <1>2
<1>4. QED
  BY <1>2, <1>3 DEF TouchBar, contentsBar, deadlineBar

LEMMA ClearDrops ==
    ASSUME StoreInv, StoreInv', NEW s \in Sessions, Clear(s)
    PROVE  DropBar(s)
<1>1. /\ UNCHANGED clock
      /\ sessionMappings' = MappingsWithout({s})
      /\ sessionExpirations' = ExpirationsWithout({s})
  BY DEF Clear, ClearAll
<1>2. \A t \in Sessions :
         /\ t \in {s} => Shown(t)' = {} /\ Until(t)' = -1
         /\ t \notin {s} => Shown(t)' = Shown(t) /\ Until(t)' = Until(t)
  BY <1>1, DeleteShown
<1>3. QED
  BY <1>1, <1>2 DEF DropBar, contentsBar, deadlineBar

\* Deleting expired sessions, all of them or one, shows nowhere.
LEMMA DeletingExpiredHidden ==
    ASSUME StoreInv, StoreInv', NEW dead \in SUBSET ExpiredIds, UNCHANGED clock,
           sessionMappings' = MappingsWithout(dead),
           sessionExpirations' = ExpirationsWithout(dead)
    PROVE  UNCHANGED vaultBar
<1>1. \A t \in Sessions : Shown(t)' = Shown(t) /\ Until(t)' = Until(t)
  BY DeleteShown, ShownFacts
<1>2. QED
  BY <1>1 DEF vaultBar, contentsBar, deadlineBar

LEMMA AccessHidden ==
    ASSUME StoreInv, StoreInv', NEW s \in Sessions, Access(s)
    PROVE  UNCHANGED vaultBar
<1>1. CASE IsExpired(s) /\ Clear(s)
  <2>1. {s} \in SUBSET ExpiredIds
    BY <1>1 DEF ExpiredIds
  <2>2. QED
    BY <1>1, <2>1, DeletingExpiredHidden DEF Clear, ClearAll
<1>2. CASE UNCHANGED storeVars
  BY <1>2 DEF storeVars, tables, vaultBar, contentsBar, deadlineBar, Shown, Until, Open,
              StoredIds, IsExpired
<1>3. QED
  BY <1>1, <1>2 DEF Access

\* The tick that reaches a deadline empties the session in the vault at once,
\* although its rows stay in the tables until they are cleaned up.
LEMMA TickLapses ==
    ASSUME StoreInv, StoreInv', clock < MaxClock, Tick
    PROVE  LapseBar
<1>1. clock' = clock + 1 /\ clock \in Nat /\ ShownByRows /\ ShownByRows'
  BY ShownByRowsHolds, ShownByRowsNext DEF Tick, StoreInv, StoreTypeOK
<1>2. ASSUME NEW t \in Sessions
      PROVE  /\ Shown(t)' = IF Until(t) <= clock' THEN {} ELSE Shown(t)
             /\ Until(t)' = IF Until(t) <= clock' THEN -1 ELSE Until(t)
  <2>1. sessionExpirations'[t] = sessionExpirations[t] /\ sessionMappings' = sessionMappings
    BY DEF Tick, tables
  <2>2. sessionExpirations[t] \in Int
    BY LiveOrExpired DEF StoreInv
  <2>3. Open(t)' <=> sessionExpirations[t] > clock + 1
    BY <1>1, <2>1 DEF Open
  <2>4. CASE Open(t)'
    <3>1. Open(t)
      BY <1>1, <2>2, <2>3, <2>4 DEF Open
    <3>2. Shown(t)' = Shown(t) /\ Until(t)' = Until(t) /\ Until(t) > clock'
      BY <1>1, <2>1, <2>2, <2>3, <2>4, <3>1 DEF ShownByRows
    <3>3. QED
      BY <1>1, <2>2, <3>1, <3>2 DEF ShownByRows
  <2>5. CASE ~Open(t)'
    <3>1. Until(t) <= clock'
      BY <1>1, <2>2, <2>3, <2>5 DEF ShownByRows
    <3>2. QED
      BY <1>1, <2>5, <3>1 DEF ShownByRows
  <2>6. QED
    BY <2>4, <2>5
<1>3. QED
  BY <1>1, <1>2 DEF LapseBar, contentsBar, deadlineBar

LEMMA StepMaps ==
    ASSUME StoreInv, StoreInv', [StoreNext]_storeVars
    PROVE  \/ LapseBar
           \/ \E s \in Sessions :
                 TouchBar(s) \/ DropBar(s) \/ \E id \in MappingIds : PutBar(s, id)
           \/ UNCHANGED vaultBar
<1>1. CASE clock < MaxClock /\ Tick
  BY <1>1, TickLapses
<1>2. CASE CleanupExpiredSessions
  BY <1>2, DeletingExpiredHidden DEF CleanupExpiredSessions, DeleteExpired
<1>3. ASSUME NEW s \in Sessions, NEW id \in MappingIds, SaveMapping(s, id)
      PROVE  PutBar(s, id)
  BY <1>3, SaveMappingPuts
<1>4. ASSUME NEW s \in Sessions, NEW h \in Hashes, SaveRestoreTokenHash(s, h)
      PROVE  TouchBar(s)
  BY <1>4, SaveCredentialTouches DEF SaveRestoreTokenHash
<1>5. ASSUME NEW s \in Sessions, NEW h \in Hashes, SaveOwnerHash(s, h)
      PROVE  TouchBar(s)
  BY <1>5, SaveCredentialTouches DEF SaveOwnerHash
<1>6. ASSUME NEW s \in Sessions,
             VerifyRestoreTokenHash(s) \/ VerifyOwnerHash(s) \/ GetMappings(s)
      PROVE  UNCHANGED vaultBar
  BY <1>6, AccessHidden DEF VerifyRestoreTokenHash, VerifyOwnerHash, GetMappings
<1>7. ASSUME NEW s \in Sessions, Clear(s)
      PROVE  DropBar(s)
  BY <1>7, ClearDrops
<1>8. CASE UNCHANGED storeVars
  BY <1>8 DEF storeVars, tables, vaultBar, contentsBar, deadlineBar, Shown, Until, Open,
              StoredIds, IsExpired
<1>9. QED
  BY <1>1, <1>2, <1>3, <1>4, <1>5, <1>6, <1>7, <1>8 DEF StoreNext

\* The store implements the vault, for every number of sessions and mappings
\* and every lifetime.
THEOREM StoreImplementsVault == StoreSpec => ImplementsVault
<1>1. StoreInit => Vault!VaultInit
  BY DEF StoreInit, Vault!VaultInit, Open, Vault!NoDeadline, Absent
<1>2. StoreInv /\ StoreInv' /\ [StoreNext]_storeVars => [Vault!VaultNext]_(Vault!vaultVars)
  <2> SUFFICES ASSUME StoreInv, StoreInv', [StoreNext]_storeVars
               PROVE  [Vault!VaultNext]_(Vault!vaultVars)
    OBVIOUS
  <2>1. LapseBar => Vault!Lapse
    BY DEF LapseBar, Vault!Lapse, Vault!NoDeadline, contentsBar, deadlineBar, Shown, Until
  <2>2. \A s \in Sessions : TouchBar(s) => Vault!Touch(s)
    BY DEF TouchBar, Vault!Touch, contentsBar, deadlineBar, Shown, Until
  <2>3. \A s \in Sessions : DropBar(s) => Vault!Drop(s)
    BY DEF DropBar, Vault!Drop, Vault!NoDeadline, contentsBar, deadlineBar, Shown, Until
  <2>4. \A s \in Sessions : \A id \in MappingIds : PutBar(s, id) => Vault!Put(s, id)
    BY DEF PutBar, Vault!Put, contentsBar, deadlineBar, Shown, Until
  <2>5. UNCHANGED vaultBar => UNCHANGED Vault!vaultVars
    BY DEF vaultBar, Vault!vaultVars, contentsBar, deadlineBar, Shown, Until
  <2>6. QED
    BY <2>1, <2>2, <2>3, <2>4, <2>5, StepMaps DEF Vault!VaultNext
<1>3. QED
  BY <1>1, <1>2, InvHolds, PTL DEF StoreSpec, ImplementsVault, Vault!VaultSpec
=============================================================================
