-------------------------- MODULE PreviewServiceProofs --------------------------
(***************************************************************************)
(* What holds of the preview service for any number of requests, callers,  *)
(* mappings and restarts, any lifetime and any limit.                      *)
(***************************************************************************)
EXTENDS PreviewService, SessionStoreProofs, FiniteSetTheorems

-----------------------------------------------------------------------------
(* What a store operation does to a session: its credentials are kept or   *)
(* removed, and while its owner row is kept so are its mappings.           *)

OwnerFramed(s) == sessionOwners'[s] = sessionOwners[s] \/ sessionOwners'[s] = NoRow

TokenFramed(s) ==
    sessionRestoreTokens'[s] = sessionRestoreTokens[s] \/ sessionRestoreTokens'[s] = NoRow

RowsFramed(s) ==
    /\ RowIds(s)' = RowIds(s) \/ RowIds(s)' = {}
    /\ sessionOwners'[s] # NoRow => RowIds(s)' = RowIds(s)

Framed(s) == OwnerFramed(s) /\ TokenFramed(s) /\ RowsFramed(s)

\* A row that is gone is not live.
LEMMA NoRowDead ==
    ASSUME StoreTypeOK, NEW s \in Sessions, sessionOwners[s].expires_at > clock
    PROVE  sessionOwners[s] # NoRow
BY NoRowFacts DEF StoreTypeOK

LEMMA RowIdsWithout ==
    ASSUME NEW dead, NEW s \in Sessions, sessionMappings' = MappingsWithout(dead)
    PROVE  /\ s \in dead => RowIds(s)' = {}
           /\ s \notin dead => RowIds(s)' = RowIds(s)
BY DEF RowIds, MappingsWithout

LEMMA DeleteExpiredFrames ==
    ASSUME StoreInv, NEW dead, NEW now, DeleteExpired(dead, now)
    PROVE  \A s \in Sessions : Framed(s)
<1> SUFFICES ASSUME NEW s \in Sessions
             PROVE  Framed(s)
  OBVIOUS
<1>1. OwnerFramed(s) /\ TokenFramed(s)
  BY SweptFacts DEF OwnerFramed, TokenFramed, DeleteExpired, StoreInv, StoreTypeOK
<1>2. s \in dead => sessionOwners'[s] = NoRow
  BY SweptFacts DEF DeleteExpired, StoreInv, StoreTypeOK
<1>3. QED
  BY <1>1, <1>2, RowIdsWithout DEF Framed, RowsFramed, DeleteExpired

LEMMA AccessFrames ==
    ASSUME StoreInv, NEW t \in Sessions, Access(t)
    PROVE  \A s \in Sessions : Framed(s)
<1> SUFFICES ASSUME NEW s \in Sessions
             PROVE  Framed(s)
  OBVIOUS
<1>1. CASE Clear(t)
  <2>1. OwnerFramed(s) /\ TokenFramed(s) /\ (s \in {t} => sessionOwners'[s] = NoRow)
    BY <1>1, CredentialsWithoutFacts
       DEF OwnerFramed, TokenFramed, Clear, ClearAll, StoreInv, StoreTypeOK
  <2>2. QED
    BY <1>1, <2>1, RowIdsWithout DEF Framed, RowsFramed, Clear, ClearAll
<1>2. CASE UNCHANGED storeVars
  BY <1>2 DEF storeVars, tables, Framed, OwnerFramed, TokenFramed, RowsFramed, RowIds
<1>3. QED
  BY <1>1, <1>2 DEF Access

LEMMA UnchangedFrames ==
    ASSUME UNCHANGED tables, NEW s \in Sessions
    PROVE  Framed(s)
BY DEF tables, Framed, OwnerFramed, TokenFramed, RowsFramed, RowIds

LEMMA SweptNowFacts ==
    ASSUME NEW table \in [Sessions -> CredentialRow], NEW s \in Sessions
    PROVE  /\ SweptNow(table) \in [Sessions -> CredentialRow]
           /\ s \in ExpiredIds => SweptNow(table)[s] = NoRow
           /\ SweptNow(table)[s] = table[s] \/ SweptNow(table)[s] = NoRow
BY SweptFacts DEF SweptNow

\* Saving the owner of t frames every other session, and leaves no mapping in t
\* that was not there.
LEMMA SaveOwnerHashFrames ==
    ASSUME StoreInv, NEW t \in Sessions, NEW h \in Hashes, SaveOwnerHash(t, h)
    PROVE  /\ \A s \in Sessions : s # t => Framed(s)
           /\ TokenFramed(t)
           /\ RowIds(t)' = RowIds(t) \/ RowIds(t)' = {}
           /\ sessionOwners'[t].hash = h
<1>1. sessionOwners \in [Sessions -> CredentialRow] /\ sessionRestoreTokens \in [Sessions -> CredentialRow]
  BY DEF StoreInv, StoreTypeOK
<1>2. ASSUME NEW s \in Sessions
      PROVE  /\ TokenFramed(s)
             /\ s \in ExpiredIds => RowIds(s)' = {}
             /\ s \notin ExpiredIds => RowIds(s)' = RowIds(s)
  BY <1>1, SweptNowFacts, RowIdsWithout DEF TokenFramed, SaveOwnerHash
<1>3. ASSUME NEW s \in Sessions, s # t
      PROVE  OwnerFramed(s) /\ (s \in ExpiredIds => sessionOwners'[s] = NoRow)
  BY <1>1, <1>3, SweptNowFacts DEF OwnerFramed, SaveOwnerHash, UpsertCredential
<1>4. sessionOwners'[t].hash = h
  BY <1>1, SweptNowFacts DEF SaveOwnerHash, UpsertCredential
<1>5. QED
  BY <1>2, <1>3, <1>4 DEF Framed, RowsFramed

LEMMA SaveRestoreTokenHashFrames ==
    ASSUME StoreInv, NEW t \in Sessions, NEW h \in Hashes, SaveRestoreTokenHash(t, h)
    PROVE  /\ \A s \in Sessions : s # t => Framed(s)
           /\ OwnerFramed(t) /\ RowsFramed(t)
           /\ sessionRestoreTokens'[t].hash = h
<1>1. sessionOwners \in [Sessions -> CredentialRow] /\ sessionRestoreTokens \in [Sessions -> CredentialRow]
  BY DEF StoreInv, StoreTypeOK
<1>2. ASSUME NEW s \in Sessions
      PROVE  /\ OwnerFramed(s)
             /\ s \in ExpiredIds => RowIds(s)' = {} /\ sessionOwners'[s] = NoRow
             /\ s \notin ExpiredIds => RowIds(s)' = RowIds(s)
  BY <1>1, SweptNowFacts, RowIdsWithout DEF OwnerFramed, SaveRestoreTokenHash
<1>3. ASSUME NEW s \in Sessions, s # t
      PROVE  TokenFramed(s)
  BY <1>1, <1>3, SweptNowFacts DEF TokenFramed, SaveRestoreTokenHash, UpsertCredential
<1>4. sessionRestoreTokens'[t].hash = h
  BY <1>1, SweptNowFacts DEF SaveRestoreTokenHash, UpsertCredential
<1>5. QED
  BY <1>2, <1>3, <1>4 DEF Framed, RowsFramed

\* Saving a mapping adds it to what an unexpired session holds.
LEMMA SaveMappingFrames ==
    ASSUME StoreInv, NEW t \in Sessions, NEW id \in MappingIds, SaveMapping(t, id)
    PROVE  /\ \A s \in Sessions : s # t => Framed(s)
           /\ OwnerFramed(t) /\ TokenFramed(t)
           /\ sessionOwners'[t] # NoRow => RowIds(t)' = RowIds(t) \cup {id}
<1> DEFINE row == [session |-> t, id |-> id, expires_at |-> BuildExpiration]
<1>1. sessionOwners \in [Sessions -> CredentialRow] /\ sessionRestoreTokens \in [Sessions -> CredentialRow]
  BY DEF StoreInv, StoreTypeOK
<1>2. ASSUME NEW s \in Sessions
      PROVE  OwnerFramed(s) /\ TokenFramed(s) /\ (s \in ExpiredIds => sessionOwners'[s] = NoRow)
  BY <1>1, SweptNowFacts DEF OwnerFramed, TokenFramed, SaveMapping
<1>3. row.session = t /\ row.id = id
  OBVIOUS
<1>4. sessionMappings' = MappingsWithout(ExpiredIds) \cup {row}
  BY DEF SaveMapping
<1> HIDE DEF row
<1>5. ASSUME NEW s \in Sessions, s # t
      PROVE  /\ s \in ExpiredIds => RowIds(s)' = {}
             /\ s \notin ExpiredIds => RowIds(s)' = RowIds(s)
  BY <1>3, <1>4, <1>5 DEF RowIds, MappingsWithout
<1>6. t \notin ExpiredIds => RowIds(t)' = RowIds(t) \cup {id}
  BY <1>3, <1>4 DEF RowIds, MappingsWithout
<1>7. QED
  BY <1>2, <1>5, <1>6 DEF Framed, RowsFramed


-----------------------------------------------------------------------------
(* The inductive invariant.                                                *)

\* The credential rows of a session are those of its own request.
HashesMatch(s) ==
    /\ sessionOwners[s].hash = NoHash \/ sessionOwners[s].hash = owner[s]
    /\ sessionRestoreTokens[s].hash = NoHash \/ sessionRestoreTokens[s].hash = s

Unstored == {"new", "rejected", "owner"}

\* A request that has stored nothing yet has nothing in the store.
Fresh(s) ==
    pc[s] \in Unstored => saved[s] = {} /\ RowIds(s) = {} /\ sessionOwners[s] = NoRow

\* While the owner row is live no mapping is missing.
CompleteWhileLive(s) == sessionOwners[s].expires_at > clock => RowIds(s) = saved[s]

\* A request that is about to save its owner has one.
OwnerKnown(s) == pc[s] = "owner" => owner[s] \in Owners

SessionInv(s) == HashesMatch(s) /\ Fresh(s) /\ OwnerKnown(s) /\ CompleteWhileLive(s)

TokenChecked == {"service_owner", "engine_owner", "engine_token", "read"}
OwnerChecked == {"engine_owner", "engine_token", "read"}

\* What the checks of a restore have established so far, and what outlives the
\* rows they looked at: the preview is finished, its mappings are all there or
\* all gone.
RestoreInv ==
    /\ restore.step \in RestoreRunning =>
          /\ loop = Restore
          /\ restore.session \in Sessions
          /\ restore.token \in Sessions
          /\ restore.owner \in Owners
          /\ pc[restore.token] = "done"
    /\ restore.step \in TokenChecked => restore.token = restore.session
    /\ restore.step \in OwnerChecked =>
          /\ restore.owner = owner[restore.session]
          /\ RowIds(restore.session) = saved[restore.session] \/ RowIds(restore.session) = {}
    /\ restore.step = "ok" /\ restore.ids # {} =>
          restore.session \in Sessions /\ pc[restore.session] = "done"
    /\ RestoreAllOrNothing

ServiceInv ==
    /\ StoreInv
    /\ ServiceTypeOK
    /\ \A s \in Sessions : SessionInv(s)
    /\ RestoreInv

\* A step that frames a session, apart from issuing its token, and leaves its
\* request what it was or takes it on past its first save, keeps its part of
\* the invariant.
LEMMA SessionKept ==
    ASSUME ServiceTypeOK, StoreTypeOK', NEW s \in Sessions, SessionInv(s),
           OwnerFramed(s), RowsFramed(s), TokenFramed(s) \/ sessionRestoreTokens'[s].hash = s,
           clock' \in Nat, clock' >= clock,
           saved'[s] = saved[s], owner'[s] = owner[s],
           pc'[s] \in Unstored => (pc'[s] = pc[s] \/ (pc[s] = "new" /\ pc'[s] = "rejected"))
    PROVE  SessionInv(s)'
<1>1. clock \in Nat /\ sessionOwners[s].expires_at \in Int
  BY DEF ServiceTypeOK, StoreTypeOK, CredentialRow, Expiry, Absent
<1>2. HashesMatch(s)'
  BY NoRowFacts DEF SessionInv, HashesMatch, OwnerFramed, TokenFramed
<1>3. Fresh(s)'
  BY DEF SessionInv, Fresh, OwnerFramed, RowsFramed, Unstored
<1>4. CompleteWhileLive(s)'
  <2>1. SUFFICES ASSUME sessionOwners'[s].expires_at > clock'
                 PROVE  RowIds(s)' = saved'[s]
    BY DEF CompleteWhileLive
  <2>2. sessionOwners'[s] # NoRow
    BY <2>1, NoRowFacts
  <2>3. sessionOwners[s].expires_at > clock
    BY <1>1, <2>1, <2>2 DEF OwnerFramed
  <2>4. QED
    BY <2>2, <2>3 DEF SessionInv, CompleteWhileLive, RowsFramed
<1>5. OwnerKnown(s)'
  BY DEF SessionInv, OwnerKnown, Unstored
<1>6. QED
  BY <1>2, <1>3, <1>4, <1>5 DEF SessionInv

\* A finished request stays as it is.
DoneKept ==
    \A s \in Sessions :
        pc[s] = "done" => pc'[s] = "done" /\ owner'[s] = owner[s] /\ saved'[s] = saved[s]

\* A step that leaves the restore alone, and frames the store if one is in
\* progress, keeps its part of the invariant.
LEMMA RestoreKept ==
    ASSUME RestoreInv, restore' = restore, DoneKept,
           restore.step \in RestoreRunning => loop' = loop /\ \A s \in Sessions : Framed(s)
    PROVE  RestoreInv'
<1>1. restore.step \in RestoreRunning => loop' = Restore /\ pc'[restore.token] = "done"
  BY DEF RestoreInv, DoneKept
<1>2. TokenChecked \subseteq RestoreRunning /\ OwnerChecked \subseteq TokenChecked
  BY DEF TokenChecked, OwnerChecked, RestoreRunning
<1>3. ASSUME restore.step \in OwnerChecked
      PROVE  /\ restore.owner = owner'[restore.session]
             /\ \/ RowIds(restore.session)' = saved'[restore.session]
                \/ RowIds(restore.session)' = {}
  <2>1. restore.session \in Sessions /\ pc[restore.session] = "done"
    BY <1>2, <1>3 DEF RestoreInv
  <2>2. owner'[restore.session] = owner[restore.session]
        /\ saved'[restore.session] = saved[restore.session]
    BY <2>1 DEF DoneKept
  <2>3. \/ RowIds(restore.session)' = RowIds(restore.session)
        \/ RowIds(restore.session)' = {}
    BY <1>2, <1>3, <2>1 DEF Framed, RowsFramed
  <2>4. QED
    BY <1>3, <2>2, <2>3 DEF RestoreInv
<1>4. restore.step = "ok" /\ restore.ids # {} =>
         /\ pc'[restore.session] = "done"
         /\ owner'[restore.session] = owner[restore.session]
         /\ saved'[restore.session] = saved[restore.session]
  BY DEF RestoreInv, DoneKept
<1>5. QED
  BY <1>1, <1>3, <1>4 DEF RestoreInv, RestoreAllOrNothing, RowIds

-----------------------------------------------------------------------------
(* Preview requests preserve the invariant.                                *)

\* No restore is in progress while a preview holds the loop or nobody does.
LEMMA PreviewLeavesRestore ==
    ASSUME RestoreInv, restore' = restore, DoneKept, loop \in Sessions \cup {Idle}
    PROVE  RestoreInv'
BY RestoreKept, LoopAssumption DEF RestoreInv

\* What the invariant needs of a step that leaves the store alone.
LEMMA StoreAlone ==
    ASSUME ServiceInv, UNCHANGED storeVars
    PROVE  /\ StoreInv' /\ StoreTypeOK' /\ clock' \in Nat /\ clock' >= clock
           /\ \A s \in Sessions : OwnerFramed(s) /\ TokenFramed(s) /\ RowsFramed(s) /\ Framed(s)
<1>1. StoreInv' /\ clock' = clock /\ clock \in Nat /\ UNCHANGED tables
  BY DEF ServiceInv, StoreInv, StoreTypeOK, RowsWithinSession, LifetimeBounded, storeVars, tables
<1>2. QED
  BY <1>1, UnchangedFrames DEF Framed, StoreInv

\* A preview step that leaves the store alone and takes its request from one
\* step to another, past the first save unless it stays before it.
LEMMA GotoInv ==
    ASSUME ServiceInv, NEW s \in Sessions, NEW step \in InFlight \cup Ended,
           UNCHANGED <<storeVars, owner, saved, others>>,
           Goto(s, step), pc[s] # "done", step \in Unstored => step = "rejected" /\ pc[s] = "new",
           loop \in Sessions \cup {Idle}, loop' \in Sessions \cup {Idle}, active' \in Nat
    PROVE  ServiceInv'
<1>1. /\ StoreInv' /\ StoreTypeOK' /\ clock' \in Nat /\ clock' >= clock
      /\ \A t \in Sessions : OwnerFramed(t) /\ TokenFramed(t) /\ RowsFramed(t)
  BY StoreAlone
<1>2. ServiceTypeOK'
  BY <1>1 DEF ServiceInv, ServiceTypeOK, Goto, others
<1>3. ASSUME NEW t \in Sessions
      PROVE  pc'[t] \in Unstored =>
                (pc'[t] = pc[t] \/ (pc[t] = "new" /\ pc'[t] = "rejected"))
  BY DEF ServiceInv, ServiceTypeOK, Goto
<1>4. \A t \in Sessions : SessionInv(t)'
  BY <1>1, <1>3, SessionKept DEF ServiceInv
<1>5. DoneKept
  BY DEF DoneKept, ServiceInv, ServiceTypeOK, Goto
<1>6. RestoreInv'
  BY <1>5, PreviewLeavesRestore DEF ServiceInv, others
<1>7. QED
  BY <1>1, <1>2, <1>4, <1>6 DEF ServiceInv

LEMMA ReleaseType ==
    ASSUME ServiceTypeOK, NEW s, Release(s)
    PROVE  active' \in Nat
BY DEF ServiceTypeOK, Release

LEMMA StartPreviewInv ==
    ASSUME ServiceInv, NEW s \in Sessions, NEW o \in Owners, StartPreview(s, o)
    PROVE  ServiceInv'
<1>1. /\ StoreInv' /\ StoreTypeOK' /\ clock' \in Nat /\ clock' >= clock
      /\ \A t \in Sessions : OwnerFramed(t) /\ TokenFramed(t) /\ RowsFramed(t)
  BY StoreAlone DEF StartPreview
<1>2. ServiceTypeOK'
  BY <1>1 DEF ServiceInv, ServiceTypeOK, StartPreview, Goto, others, InFlight
<1>3. ASSUME NEW t \in Sessions, t # s
      PROVE  SessionInv(t)'
  <2>1. saved'[t] = saved[t] /\ owner'[t] = owner[t] /\ pc'[t] = pc[t]
    BY <1>3 DEF StartPreview, Goto, ServiceInv, ServiceTypeOK
  <2>2. QED
    BY <1>1, <2>1, SessionKept DEF ServiceInv
<1>4. SessionInv(s)'
  <2>1. saved[s] = {} /\ RowIds(s) = {} /\ sessionOwners[s] = NoRow /\ HashesMatch(s)
    BY DEF StartPreview, ServiceInv, SessionInv, Fresh, Unstored
  <2>2. /\ RowIds(s)' = RowIds(s)
        /\ sessionOwners' = sessionOwners
        /\ sessionRestoreTokens' = sessionRestoreTokens
        /\ saved' = saved
        /\ owner'[s] \in Owners
    BY DEF StartPreview, storeVars, tables, RowIds, ServiceInv, ServiceTypeOK
  <2>3. QED
    BY <2>1, <2>2, NoRowFacts
       DEF SessionInv, HashesMatch, Fresh, OwnerKnown, CompleteWhileLive
<1>5. DoneKept
  BY DEF DoneKept, StartPreview, Goto, ServiceInv, ServiceTypeOK
<1>6. RestoreInv'
  BY <1>5, PreviewLeavesRestore DEF ServiceInv, StartPreview, others
<1>7. QED
  BY <1>1, <1>2, <1>3, <1>4, <1>6 DEF ServiceInv

LEMMA RejectUploadInv ==
    ASSUME ServiceInv, NEW s \in Sessions, RejectUpload(s)
    PROVE  ServiceInv'
BY GotoInv DEF RejectUpload, ServiceInv, ServiceTypeOK, Ended, Unstored

LEMMA ParseDoneInv ==
    ASSUME ServiceInv, NEW s \in Sessions, ParseDone(s)
    PROVE  ServiceInv'
BY GotoInv DEF ParseDone, ServiceInv, ServiceTypeOK, InFlight, Unstored

LEMMA ParseFailsInv ==
    ASSUME ServiceInv, NEW s \in Sessions, ParseFails(s)
    PROVE  ServiceInv'
BY GotoInv, ReleaseType DEF ParseFails, ServiceInv, ServiceTypeOK, Ended, Unstored

LEMMA RespondInv ==
    ASSUME ServiceInv, NEW s \in Sessions, Respond(s)
    PROVE  ServiceInv'
BY GotoInv, ReleaseType DEF Respond, ServiceInv, ServiceTypeOK, Ended, Unstored

LEMMA FailInv ==
    ASSUME ServiceInv, NEW s \in Sessions, Fail(s)
    PROVE  ServiceInv'
BY GotoInv, ReleaseType DEF Fail, ServiceInv, ServiceTypeOK, Ended, Unstored

-----------------------------------------------------------------------------
(* So do the steps that save something: only the saving session is not     *)
(* framed, and its part is shown by itself.                                *)

LEMMA SaveOwnerInv ==
    ASSUME ServiceInv, NEW s \in Sessions, SaveOwner(s)
    PROVE  ServiceInv'
<1>1. owner[s] \in Owners /\ owner[s] \in Hashes /\ saved[s] = {} /\ RowIds(s) = {} /\ HashesMatch(s)
  BY HashesAssumption DEF SaveOwner, ServiceInv, SessionInv, OwnerKnown, Fresh, Unstored
<1>2. SaveOwnerHash(s, owner[s]) /\ StoreInv'
  BY <1>1, SaveOwnerHashInv DEF SaveOwner, ServiceInv
<1>3. StoreTypeOK' /\ clock' \in Nat /\ clock' >= clock
  BY <1>2 DEF StoreInv, StoreTypeOK, ServiceInv, SaveOwnerHash
<1>4. /\ \A t \in Sessions : t # s => OwnerFramed(t) /\ TokenFramed(t) /\ RowsFramed(t)
      /\ TokenFramed(s)
      /\ RowIds(s)' = {}
      /\ sessionOwners'[s].hash = owner[s]
  BY <1>1, <1>2, SaveOwnerHashFrames DEF ServiceInv, Framed
<1>5. ServiceTypeOK'
  BY <1>3 DEF SaveOwner, ServiceInv, ServiceTypeOK, Goto, others, InFlight
<1>6. ASSUME NEW t \in Sessions, t # s
      PROVE  SessionInv(t)'
  <2>1. saved'[t] = saved[t] /\ owner'[t] = owner[t] /\ pc'[t] = pc[t]
    BY <1>6 DEF SaveOwner, Goto, ServiceInv, ServiceTypeOK
  <2>2. QED
    BY <1>3, <1>4, <1>6, <2>1, SessionKept DEF ServiceInv
<1>7. SessionInv(s)'
  <2>1. pc'[s] = "token" /\ saved'[s] = {} /\ owner'[s] = owner[s]
    BY <1>1 DEF SaveOwner, Goto, ServiceInv, ServiceTypeOK
  <2>2. HashesMatch(s)'
    BY <1>1, <1>4, <2>1, NoRowFacts DEF HashesMatch, TokenFramed
  <2>3. QED
    BY <1>4, <2>1, <2>2 DEF SessionInv, Fresh, OwnerKnown, CompleteWhileLive, Unstored
<1>8. DoneKept
  BY DEF DoneKept, SaveOwner, Goto, ServiceInv, ServiceTypeOK
<1>9. RestoreInv'
  BY <1>8, PreviewLeavesRestore DEF ServiceInv, SaveOwner, others
<1>10. QED
  BY <1>2, <1>5, <1>6, <1>7, <1>9 DEF ServiceInv

LEMMA CreateRestoreTokenInv ==
    ASSUME ServiceInv, NEW s \in Sessions, CreateRestoreToken(s)
    PROVE  ServiceInv'
<1>1. SaveRestoreTokenHash(s, s) /\ StoreInv' /\ s \in Hashes
  BY HashesAssumption, SaveRestoreTokenHashInv DEF CreateRestoreToken, ServiceInv
<1>2. StoreTypeOK' /\ clock' \in Nat /\ clock' >= clock
  BY <1>1 DEF StoreInv, StoreTypeOK, ServiceInv, SaveRestoreTokenHash
<1>3. ASSUME NEW t \in Sessions
      PROVE  /\ OwnerFramed(t) /\ RowsFramed(t)
             /\ TokenFramed(t) \/ sessionRestoreTokens'[t].hash = t
  BY <1>1, SaveRestoreTokenHashFrames DEF ServiceInv, Framed
<1>4. ServiceTypeOK'
  BY <1>2 DEF CreateRestoreToken, ServiceInv, ServiceTypeOK, Goto, others, InFlight
<1>5. ASSUME NEW t \in Sessions
      PROVE  SessionInv(t)'
  <2>1. /\ saved'[t] = saved[t] /\ owner'[t] = owner[t]
        /\ pc'[t] \in Unstored => pc'[t] = pc[t]
    BY DEF CreateRestoreToken, Goto, ServiceInv, ServiceTypeOK, Unstored
  <2>2. QED
    BY <1>2, <1>3, <2>1, SessionKept DEF ServiceInv
<1>6. DoneKept
  BY DEF DoneKept, CreateRestoreToken, Goto, ServiceInv, ServiceTypeOK
<1>7. RestoreInv'
  BY <1>6, PreviewLeavesRestore DEF ServiceInv, CreateRestoreToken, others
<1>8. QED
  BY <1>1, <1>4, <1>5, <1>7 DEF ServiceInv

LEMMA SaveDetectionInv ==
    ASSUME ServiceInv, NEW s \in Sessions, NEW id \in MappingIds, SaveDetection(s, id)
    PROVE  ServiceInv'
<1>1. SaveMapping(s, id) /\ StoreInv'
  BY SaveMappingInv DEF SaveDetection, ServiceInv
<1>2. StoreTypeOK' /\ clock' \in Nat /\ clock' = clock
  BY <1>1 DEF StoreInv, StoreTypeOK, ServiceInv, SaveMapping
<1>3. /\ \A t \in Sessions : t # s => OwnerFramed(t) /\ TokenFramed(t) /\ RowsFramed(t)
      /\ OwnerFramed(s) /\ TokenFramed(s)
      /\ sessionOwners'[s] # NoRow => RowIds(s)' = RowIds(s) \cup {id}
  BY <1>1, SaveMappingFrames DEF ServiceInv, Framed
<1>4. ServiceTypeOK'
  BY <1>2 DEF SaveDetection, ServiceInv, ServiceTypeOK, others
<1>5. ASSUME NEW t \in Sessions, t # s
      PROVE  SessionInv(t)'
  <2>1. saved'[t] = saved[t] /\ owner'[t] = owner[t] /\ pc'[t] = pc[t] /\ clock' >= clock
    BY <1>2, <1>5 DEF SaveDetection, ServiceInv, ServiceTypeOK
  <2>2. QED
    BY <1>2, <1>3, <1>5, <2>1, SessionKept DEF ServiceInv
<1>6. SessionInv(s)'
  <2>1. /\ saved'[s] = saved[s] \cup {id} /\ owner'[s] = owner[s] /\ pc'[s] = "engine"
        /\ SessionInv(s)
    BY DEF SaveDetection, ServiceInv, ServiceTypeOK
  <2>2. HashesMatch(s)'
    BY <1>3, <2>1, NoRowFacts DEF SessionInv, HashesMatch, OwnerFramed, TokenFramed
  <2>3. CompleteWhileLive(s)'
    <3>1. SUFFICES ASSUME sessionOwners'[s].expires_at > clock'
                   PROVE  RowIds(s)' = saved'[s]
      BY DEF CompleteWhileLive
    <3>2. sessionOwners'[s] # NoRow
      BY <1>2, <3>1, NoRowFacts
    <3>3. RowIds(s) = saved[s]
      BY <1>2, <1>3, <2>1, <3>1, <3>2 DEF SessionInv, CompleteWhileLive, OwnerFramed
    <3>4. QED
      BY <1>3, <2>1, <3>2, <3>3
  <2>4. QED
    BY <2>1, <2>2, <2>3 DEF SessionInv, Fresh, OwnerKnown, Unstored
<1>7. DoneKept
  BY DEF DoneKept, SaveDetection, ServiceInv, ServiceTypeOK
<1>8. RestoreInv'
  BY <1>7, PreviewLeavesRestore DEF ServiceInv, SaveDetection, others
<1>9. QED
  BY <1>1, <1>4, <1>5, <1>6, <1>8 DEF ServiceInv

-----------------------------------------------------------------------------
(* So do the steps of a restore: each reads, and clears an expired session. *)

LEMMA BeginRestoreInv ==
    ASSUME ServiceInv, NEW s \in Sessions, NEW t \in Sessions, NEW o \in Owners,
           BeginRestore(s, t, o)
    PROVE  ServiceInv'
<1>1. /\ StoreInv' /\ StoreTypeOK' /\ clock' \in Nat /\ clock' >= clock
      /\ \A u \in Sessions : OwnerFramed(u) /\ TokenFramed(u) /\ RowsFramed(u)
  BY StoreAlone DEF BeginRestore
<1>2. UNCHANGED <<pc, owner, saved, active, cliIds, cliNow, restarts>>
  BY DEF BeginRestore, request
<1>3. restore' = [step |-> "service_token", session |-> s, token |-> t, owner |-> o, ids |-> {}]
  BY DEF BeginRestore
<1>4. ServiceTypeOK'
  BY <1>1, <1>2, <1>3, HashesAssumption
     DEF BeginRestore, ServiceInv, ServiceTypeOK, RestoreState, RestoreRunning
<1>5. \A u \in Sessions : SessionInv(u)'
  BY <1>1, <1>2, SessionKept DEF ServiceInv
<1>6. RestoreInv'
  BY <1>2, <1>3 DEF BeginRestore, RestoreInv, RestoreAllOrNothing, TokenChecked, OwnerChecked
<1>7. QED
  BY <1>1, <1>4, <1>5, <1>6 DEF ServiceInv

\* What every step of a restore does to the store.
LEMMA RestoreStepStore ==
    ASSUME ServiceInv, restore.step \in RestoreRunning, Access(restore.session),
           UNCHANGED request
    PROVE  /\ StoreInv' /\ StoreTypeOK' /\ clock' = clock /\ clock \in Nat
           /\ \A s \in Sessions : Framed(s) /\ SessionInv(s)'
<1>1. restore.session \in Sessions
  BY DEF ServiceInv, RestoreInv
<1>2. StoreInv' /\ \A s \in Sessions : Framed(s)
  BY <1>1, AccessInv, AccessFrames DEF ServiceInv
<1>3. clock' = clock /\ clock \in Nat
  BY DEF Access, Clear, ClearAll, storeVars, ServiceInv, StoreInv, StoreTypeOK
<1>4. ASSUME NEW s \in Sessions
      PROVE  SessionInv(s)'
  <2>1. /\ OwnerFramed(s) /\ TokenFramed(s) /\ RowsFramed(s) /\ StoreTypeOK'
        /\ saved' = saved /\ owner' = owner /\ pc' = pc /\ clock' \in Nat /\ clock' >= clock
    BY <1>2, <1>3 DEF Framed, StoreInv, request
  <2>2. QED
    BY <2>1, SessionKept DEF ServiceInv
<1>5. QED
  BY <1>2, <1>3, <1>4 DEF StoreInv

LEMMA CheckType ==
    ASSUME ServiceTypeOK, StoreTypeOK', NEW verified,
           NEW next \in RestoreRunning, NEW outcome \in RestoreEnded,
           Check(verified, next, outcome)
    PROVE  /\ ServiceTypeOK'
           /\ restore'.session = restore.session /\ restore'.token = restore.token
           /\ restore'.owner = restore.owner /\ restore'.ids = restore.ids
           /\ verified => restore'.step = next /\ loop' = Restore
           /\ ~verified => restore'.step = outcome
<1>1. restore \in RestoreState /\ UNCHANGED <<pc, owner, saved, active, cliIds, cliNow, restarts>>
  BY DEF ServiceTypeOK, Check, request
<1>2. restore' = [restore EXCEPT !.step = IF verified THEN next ELSE outcome]
  BY DEF Check
<1>3. /\ restore'.step = IF verified THEN next ELSE outcome
      /\ restore'.session = restore.session /\ restore'.token = restore.token
      /\ restore'.owner = restore.owner /\ restore'.ids = restore.ids
  BY <1>1, <1>2 DEF RestoreState
<1>4. restore' \in RestoreState
  BY <1>1, <1>2 DEF RestoreState
<1>5. loop' \in Sessions \cup {Idle, Restore}
  BY DEF Check
<1>6. QED
  BY <1>1, <1>2, <1>3, <1>4, <1>5 DEF ServiceTypeOK, Check

\* A check that only passes on what was known keeps RestoreInv; what a passed
\* check adds has to be shown for the step it leads to.
LEMMA CheckInv ==
    ASSUME ServiceInv, restore.step \in RestoreRunning, Access(restore.session),
           NEW verified, NEW next \in RestoreRunning, NEW outcome \in {"denied", "error"},
           Check(verified, next, outcome),
           verified /\ next \in TokenChecked => restore.token = restore.session,
           verified /\ next \in OwnerChecked =>
              /\ restore.owner = owner[restore.session]
              /\ RowIds(restore.session) = saved[restore.session] \/ RowIds(restore.session) = {}
    PROVE  ServiceInv'
<1>1. UNCHANGED request
  BY DEF Check
<1>2. StoreInv' /\ StoreTypeOK' /\ \A s \in Sessions : Framed(s) /\ SessionInv(s)'
  BY <1>1, RestoreStepStore
<1>3. outcome \in RestoreEnded /\ outcome \notin RestoreRunning /\ outcome # "ok"
  BY DEF RestoreEnded, RestoreRunning
<1>4. /\ ServiceTypeOK'
      /\ restore'.session = restore.session /\ restore'.token = restore.token
      /\ restore'.owner = restore.owner
      /\ verified => restore'.step = next /\ loop' = Restore
      /\ ~verified => restore'.step = outcome
  BY <1>2, <1>3, CheckType DEF ServiceInv
<1>5. restore'.session = restore.session
  BY <1>4
<1>6. TokenChecked \subseteq RestoreRunning /\ OwnerChecked \subseteq RestoreRunning
      /\ "ok" \notin RestoreRunning
  BY DEF TokenChecked, OwnerChecked, RestoreRunning
<1>7. restore.session \in Sessions /\ pc' = pc /\ owner' = owner /\ saved' = saved
  BY <1>1 DEF ServiceInv, RestoreInv, request
<1>8. \/ RowIds(restore.session)' = RowIds(restore.session)
      \/ RowIds(restore.session)' = {}
  BY <1>2, <1>5, <1>7 DEF Framed, RowsFramed, RowIds
<1>9. RestoreInv'
  <2>1. CASE ~verified
    BY <1>3, <1>4, <1>6, <2>1 DEF RestoreInv, RestoreAllOrNothing
  <2>2. CASE verified
    <3>1. restore'.step # "ok"
      BY <1>4, <1>6, <2>2
    <3>2. restore.token \in Sessions /\ restore.owner \in Owners /\ pc[restore.token] = "done"
      BY DEF ServiceInv, RestoreInv
    <3>3. QED
      BY <1>4, <1>7, <1>8, <2>2, <3>1, <3>2 DEF RestoreInv, RestoreAllOrNothing
  <2>3. QED
    BY <2>1, <2>2
<1>10. QED
  BY <1>2, <1>4, <1>9 DEF ServiceInv

LEMMA ServiceVerifiesTokenInv ==
    ASSUME ServiceInv, ServiceVerifiesToken
    PROVE  ServiceInv'
<1>1. restore.step = "service_token" /\ restore.step \in RestoreRunning /\ Access(restore.session)
  BY DEF ServiceVerifiesToken, RestoreAt, RestoreRunning, VerifyRestoreTokenHash
<1>2. ASSUME TokenVerifies(restore.session, restore.token)
      PROVE  restore.token = restore.session
  <2>1. restore.session \in Sessions /\ restore.token \in Hashes
    BY <1>1, HashesAssumption DEF ServiceInv, RestoreInv
  <2>2. QED
    BY <1>2, <2>1, NoHashAssumption DEF ServiceInv, SessionInv, HashesMatch, TokenVerifies
<1>3. "service_owner" \in RestoreRunning /\ "service_owner" \notin OwnerChecked
  BY DEF RestoreRunning, OwnerChecked
<1>4. QED
  BY <1>1, <1>2, <1>3, CheckInv DEF ServiceVerifiesToken

LEMMA ServiceVerifiesOwnerInv ==
    ASSUME ServiceInv, ServiceVerifiesOwner
    PROVE  ServiceInv'
<1>1. /\ restore.step \in RestoreRunning /\ restore.step \in TokenChecked
      /\ Access(restore.session)
  BY DEF ServiceVerifiesOwner, RestoreAt, RestoreRunning, TokenChecked, VerifyOwnerHash
<1>2. ASSUME OwnerVerifies(restore.session, restore.owner)
      PROVE  /\ restore.owner = owner[restore.session]
             /\ RowIds(restore.session) = saved[restore.session]
  <2>1. restore.session \in Sessions /\ restore.owner \in Hashes
    BY <1>1, HashesAssumption DEF ServiceInv, RestoreInv
  <2>2. QED
    BY <1>2, <2>1, NoHashAssumption
       DEF ServiceInv, SessionInv, HashesMatch, CompleteWhileLive, OwnerVerifies, RowLive
<1>3. "engine_owner" \in RestoreRunning
  BY DEF RestoreRunning
<1>4. restore.token = restore.session
  BY <1>1 DEF ServiceInv, RestoreInv
<1>5. QED
  BY <1>1, <1>2, <1>3, <1>4, CheckInv DEF ServiceVerifiesOwner

\* The second verification adds nothing: what it needs is known already.
LEMMA EngineVerifiesInv ==
    ASSUME ServiceInv, EngineVerifiesOwner \/ EngineVerifiesToken
    PROVE  ServiceInv'
<1>1. /\ restore.step \in RestoreRunning /\ restore.step \in TokenChecked
      /\ restore.step \in OwnerChecked /\ Access(restore.session)
  BY DEF EngineVerifiesOwner, EngineVerifiesToken, RestoreAt, RestoreRunning, TokenChecked,
         OwnerChecked, VerifyOwnerHash, VerifyRestoreTokenHash
<1>2. /\ restore.token = restore.session
      /\ restore.owner = owner[restore.session]
      /\ RowIds(restore.session) = saved[restore.session] \/ RowIds(restore.session) = {}
  BY <1>1 DEF ServiceInv, RestoreInv
<1>3. "engine_token" \in RestoreRunning /\ "read" \in RestoreRunning
  BY DEF RestoreRunning
<1>4. CASE EngineVerifiesOwner
  BY <1>1, <1>2, <1>3, <1>4, CheckInv DEF EngineVerifiesOwner
<1>5. CASE EngineVerifiesToken
  BY <1>1, <1>2, <1>3, <1>5, CheckInv DEF EngineVerifiesToken
<1>6. QED
  BY <1>4, <1>5

\* The read returns all the mappings or none, and they are those of the preview.
LEMMA ReadMappingsInv ==
    ASSUME ServiceInv, ReadMappings
    PROVE  ServiceInv'
<1>1. /\ restore.step = "read" /\ restore.step \in RestoreRunning
      /\ restore.step \in TokenChecked /\ restore.step \in OwnerChecked
      /\ Access(restore.session) /\ UNCHANGED request
  BY DEF ReadMappings, RestoreAt, RestoreRunning, TokenChecked, OwnerChecked, GetMappings
<1>2. StoreInv' /\ StoreTypeOK' /\ \A s \in Sessions : SessionInv(s)'
  BY <1>1, RestoreStepStore
<1>3. StoredIds(restore.session) = {} \/ StoredIds(restore.session) = RowIds(restore.session)
  BY DEF StoredIds, RowIds
<1>4. StoredIds(restore.session) \subseteq MappingIds
  BY DEF StoredIds, ServiceInv, StoreInv, StoreTypeOK, MappingRow
<1>5. /\ restore \in RestoreState
      /\ restore' = [restore EXCEPT !.step = "ok", !.ids = StoredIds(restore.session)]
  BY DEF ReadMappings, ServiceInv, ServiceTypeOK
<1>6. /\ restore'.step = "ok" /\ restore'.ids = StoredIds(restore.session)
      /\ restore'.session = restore.session /\ restore'.token = restore.token
      /\ restore'.owner = restore.owner
      /\ restore' \in RestoreState
  BY <1>4, <1>5 DEF RestoreState, RestoreEnded
<1>7. ServiceTypeOK'
  BY <1>1, <1>2, <1>6 DEF ReadMappings, ServiceInv, ServiceTypeOK, request
<1>8. RestoreInv'
  <2>1. /\ restore.token = restore.session /\ restore.session \in Sessions
        /\ pc[restore.session] = "done" /\ restore.owner = owner[restore.session]
        /\ RowIds(restore.session) = saved[restore.session] \/ RowIds(restore.session) = {}
    BY <1>1 DEF ServiceInv, RestoreInv
  <2>2. "ok" \notin RestoreRunning /\ "ok" \notin TokenChecked /\ "ok" \notin OwnerChecked
    BY DEF RestoreRunning, TokenChecked, OwnerChecked
  <2>3. pc' = pc /\ owner' = owner /\ saved' = saved
    BY <1>1 DEF request
  <2>4. QED
    BY <1>3, <1>6, <2>1, <2>2, <2>3 DEF RestoreInv, RestoreAllOrNothing
<1>9. QED
  BY <1>2, <1>7, <1>8 DEF ServiceInv

-----------------------------------------------------------------------------
(* So do clean-up, restarts and time.                                      *)

\* A step that frames every session and touches no request, as the clean-ups
\* do, at whatever point a request or a restore has reached.
LEMMA FramingInv ==
    ASSUME ServiceInv, StoreInv', clock' >= clock, \A s \in Sessions : Framed(s),
           UNCHANGED <<loop, pc, owner, saved, active, restore, restarts>>,
           cliIds' \subseteq Sessions, cliNow' \in Expiry
    PROVE  ServiceInv'
<1>1. StoreTypeOK' /\ clock' \in Nat
  BY DEF StoreInv, StoreTypeOK
<1>2. ServiceTypeOK'
  BY <1>1 DEF ServiceInv, ServiceTypeOK
<1>3. ASSUME NEW s \in Sessions
      PROVE  SessionInv(s)'
  <2>1. OwnerFramed(s) /\ TokenFramed(s) /\ RowsFramed(s)
    BY DEF Framed
  <2>2. QED
    BY <1>1, <2>1, SessionKept DEF ServiceInv
<1>4. RestoreInv'
  BY RestoreKept DEF ServiceInv, DoneKept
<1>5. QED
  BY <1>2, <1>3, <1>4 DEF ServiceInv

LEMMA BackgroundCleanupInv ==
    ASSUME ServiceInv, BackgroundCleanup
    PROVE  ServiceInv'
<1>1. StoreInv' /\ \A s \in Sessions : Framed(s)
  BY DeleteExpiredInv, DeleteExpiredFrames
     DEF BackgroundCleanup, CleanupExpiredSessions, ServiceInv
<1>2. clock' >= clock
  BY DEF BackgroundCleanup, CleanupExpiredSessions, DeleteExpired, ServiceInv, StoreInv, StoreTypeOK
<1>3. QED
  BY <1>1, <1>2, FramingInv DEF BackgroundCleanup, serviceVars, ServiceInv, ServiceTypeOK

LEMMA CliSelectInv ==
    ASSUME ServiceInv, CliSelect
    PROVE  ServiceInv'
<1>1. StoreInv' /\ clock' >= clock /\ \A s \in Sessions : Framed(s)
  BY StoreAlone DEF CliSelect
<1>2. cliIds' \subseteq Sessions /\ cliNow' \in Expiry
  BY DEF CliSelect, ExpiredIds, Expiry, ServiceInv, StoreInv, StoreTypeOK
<1>3. QED
  BY <1>1, <1>2, FramingInv DEF CliSelect

LEMMA CliDeleteInv ==
    ASSUME ServiceInv, CliDelete
    PROVE  ServiceInv'
<1>1. StoreInv' /\ \A s \in Sessions : Framed(s)
  BY DeleteExpiredInv, DeleteExpiredFrames DEF CliDelete, ServiceInv
<1>2. clock' >= clock /\ cliIds' \subseteq Sessions /\ cliNow' \in Expiry
  BY DEF CliDelete, DeleteExpired, Expiry, ServiceInv, StoreInv, StoreTypeOK
<1>3. QED
  BY <1>1, <1>2, FramingInv DEF CliDelete

LEMMA AdvanceClockInv ==
    ASSUME ServiceInv, AdvanceClock
    PROVE  ServiceInv'
<1>1. StoreInv' /\ \A s \in Sessions : Framed(s)
  BY TickInv, UnchangedFrames DEF AdvanceClock, Tick, ServiceInv
<1>2. clock' >= clock
  BY DEF AdvanceClock, Tick, ServiceInv, StoreInv, StoreTypeOK
<1>3. QED
  BY <1>1, <1>2, FramingInv DEF AdvanceClock, serviceVars, ServiceInv, ServiceTypeOK

\* A restart ends every request and every restore in progress; what was
\* answered stays answered.
LEMMA RestartInv ==
    ASSUME ServiceInv, Restart
    PROVE  ServiceInv'
<1>1. /\ StoreInv' /\ StoreTypeOK' /\ clock' \in Nat /\ clock' >= clock
      /\ \A s \in Sessions : OwnerFramed(s) /\ TokenFramed(s) /\ RowsFramed(s)
  BY StoreAlone DEF Restart
<1>2. restore \in RestoreState
      /\ restore' = [restore EXCEPT
            !.step = IF restore.step \in RestoreRunning THEN "none" ELSE restore.step]
  BY DEF Restart, ServiceInv, ServiceTypeOK
<1>3. /\ restore' \in RestoreState
      /\ restore'.step \in RestoreEnded
      /\ restore'.step = "ok" => restore.step = "ok"
      /\ restore'.session = restore.session /\ restore'.token = restore.token
      /\ restore'.owner = restore.owner /\ restore'.ids = restore.ids
  BY <1>2 DEF RestoreState, RestoreEnded
<1>4. ServiceTypeOK'
  BY <1>1, <1>3 DEF Restart, ServiceInv, ServiceTypeOK, Ended, InFlight
<1>5. ASSUME NEW s \in Sessions
      PROVE  SessionInv(s)'
  <2>1. /\ saved'[s] = saved[s] /\ owner'[s] = owner[s]
        /\ pc'[s] \in Unstored => pc'[s] = pc[s]
    BY DEF Restart, Unstored, ServiceInv, ServiceTypeOK
  <2>2. QED
    BY <1>1, <2>1, SessionKept DEF ServiceInv
<1>6. DoneKept
  BY DEF DoneKept, Restart, InFlight, ServiceInv, ServiceTypeOK
<1>7. RestoreInv'
  <2>1. /\ restore'.step \notin RestoreRunning /\ restore'.step \notin TokenChecked
        /\ restore'.step \notin OwnerChecked
    BY <1>3 DEF RestoreEnded, RestoreRunning, TokenChecked, OwnerChecked
  <2>2. QED
    BY <1>3, <1>6, <2>1 DEF DoneKept, ServiceInv, RestoreInv, RestoreAllOrNothing
<1>8. QED
  BY <1>1, <1>4, <1>5, <1>7 DEF ServiceInv

-----------------------------------------------------------------------------
(* The invariant holds.                                                    *)

LEMMA ServiceInitInv == ServiceInit => ServiceInv
<1> SUFFICES ASSUME ServiceInit
             PROVE  ServiceInv
  OBVIOUS
<1>1. StoreInv
  BY InitInv DEF ServiceInit
<1>2. restore = [step |-> "none", session |-> Idle, token |-> NoHash,
                 owner |-> NoHash, ids |-> {}]
  BY DEF ServiceInit
<1>3. ServiceTypeOK
  BY <1>1, <1>2 DEF ServiceInit, ServiceTypeOK, StoreInv, RestoreState, RestoreEnded, Expiry
<1>4. ASSUME NEW s \in Sessions
      PROVE  SessionInv(s)
  BY NoRowFacts
     DEF ServiceInit, StoreInit, SessionInv, HashesMatch, Fresh, OwnerKnown, CompleteWhileLive, RowIds
<1>5. RestoreInv
  BY <1>2 DEF RestoreInv, RestoreAllOrNothing, RestoreRunning, TokenChecked, OwnerChecked
<1>6. QED
  BY <1>1, <1>3, <1>4, <1>5 DEF ServiceInv

LEMMA ServiceStepInv == ServiceInv /\ [ServiceNext]_vars => ServiceInv'
<1> SUFFICES ASSUME ServiceInv, [ServiceNext]_vars
             PROVE  ServiceInv'
  OBVIOUS
<1>1. ASSUME NEW s \in Sessions, NEW o \in Owners, StartPreview(s, o)
      PROVE  ServiceInv'
  BY <1>1, StartPreviewInv
<1>2. ASSUME NEW s \in Sessions, RejectUpload(s) \/ ParseDone(s) \/ ParseFails(s)
      PROVE  ServiceInv'
  BY <1>2, RejectUploadInv, ParseDoneInv, ParseFailsInv
<1>3. ASSUME NEW s \in Sessions, PreviewStep(s)
      PROVE  ServiceInv'
  BY <1>3, SaveOwnerInv, CreateRestoreTokenInv, SaveDetectionInv, RespondInv, FailInv
     DEF PreviewStep
<1>4. ASSUME NEW s \in Sessions, NEW t \in Sessions, NEW o \in Owners, BeginRestore(s, t, o)
      PROVE  ServiceInv'
  BY <1>4, BeginRestoreInv
<1>5. CASE RestoreStep
  BY <1>5, ServiceVerifiesTokenInv, ServiceVerifiesOwnerInv, EngineVerifiesInv, ReadMappingsInv
     DEF RestoreStep
<1>6. CASE BackgroundCleanup \/ CliSelect \/ CliDelete
  BY <1>6, BackgroundCleanupInv, CliSelectInv, CliDeleteInv
<1>7. CASE Restart \/ AdvanceClock
  BY <1>7, RestartInv, AdvanceClockInv
<1>8. CASE UNCHANGED vars
  BY <1>8, StoreAlone, FramingInv DEF vars, serviceVars, ServiceInv, ServiceTypeOK
<1>9. QED
  BY <1>1, <1>2, <1>3, <1>4, <1>5, <1>6, <1>7, <1>8 DEF ServiceNext

LEMMA ServiceInvHolds == ServiceSpec => []ServiceInv
BY ServiceInitInv, ServiceStepInv, PTL DEF ServiceSpec

-----------------------------------------------------------------------------
(* What follows from it.                                                   *)

\* Every variable of the service keeps a value of its kind.
THEOREM ServiceTypeCorrect == ServiceSpec => []ServiceTypeOK
<1>1. ServiceInv => ServiceTypeOK
  BY DEF ServiceInv
<1>2. QED
  BY <1>1, ServiceInvHolds, PTL

\* As long as a preview can be restored, every mapping its request saved is in
\* the store, whatever clean-up, script, restart or other request came between.
THEOREM NothingLostWhileRestorable == ServiceSpec => []CompleteWhileRestorable
<1>1. ServiceInv => CompleteWhileRestorable
  BY DEF ServiceInv, SessionInv, CompleteWhileLive, CompleteWhileRestorable, Restorable,
         OwnerVerifies, RowLive
<1>2. QED
  BY <1>1, ServiceInvHolds, PTL

\* An answered restore gives back all the mappings of the preview or none, and
\* only to the caller who owns it and holds its token, although the rows may
\* expire or be deleted between any two of its four verifications.
THEOREM RestoresWhole == ServiceSpec => []RestoreAllOrNothing
<1>1. ServiceInv => RestoreAllOrNothing
  BY DEF ServiceInv, RestoreInv
<1>2. QED
  BY <1>1, ServiceInvHolds, PTL

-----------------------------------------------------------------------------
(* Credentials that have lapsed stay so: past its first two saves a request *)
(* keeps or loses its token and owner rows and never renews them.           *)

Late == {"parsing", "engine"} \cup Ended

\* What a step must do to a session whose request is past its first saves.
LateFramed(s) ==
    pc[s] \in Late =>
        /\ pc'[s] \in Late
        /\ owner'[s] = owner[s]
        /\ OwnerFramed(s) /\ TokenFramed(s)

LEMMA LapsedKept ==
    ASSUME ServiceInv, ServiceInv', clock' >= clock, NEW s \in Sessions,
           LateFramed(s), Lapsed(s)
    PROVE  Lapsed(s)'
<1>1. /\ pc'[s] \in Late /\ owner'[s] = owner[s]
      /\ OwnerFramed(s) /\ TokenFramed(s) /\ ~Restorable(s)
  BY DEF LateFramed, Lapsed, Late
<1>2. /\ clock \in Nat /\ clock' \in Nat
      /\ sessionOwners[s].expires_at \in Int
      /\ sessionRestoreTokens[s].expires_at \in Int
      /\ sessionExpirations[s] \in Int
      /\ sessionOwners[s].expires_at <= sessionExpirations[s]
  BY DEF ServiceInv, StoreInv, StoreTypeOK, RowsWithinSession, CredentialRow, Expiry, Absent
<1>3. ASSUME Restorable(s)'
      PROVE  FALSE
  <2>1. /\ sessionOwners'[s].expires_at > clock' /\ sessionOwners'[s].hash = owner'[s]
        /\ sessionRestoreTokens'[s].expires_at > clock' /\ sessionRestoreTokens'[s].hash = s
    BY <1>3 DEF Restorable, OwnerVerifies, TokenVerifies, RowLive
  <2>2. sessionOwners'[s] # NoRow /\ sessionRestoreTokens'[s] # NoRow
    BY <1>2, <2>1, NoRowFacts
  <2>3. sessionOwners'[s] = sessionOwners[s] /\ sessionRestoreTokens'[s] = sessionRestoreTokens[s]
    BY <1>1, <2>2 DEF OwnerFramed, TokenFramed
  <2>4. sessionExpirations[s] > clock
    BY <1>2, <2>1, <2>3
  <2>5. Restorable(s)
    BY <1>1, <1>2, <2>1, <2>3, <2>4
       DEF Restorable, OwnerVerifies, TokenVerifies, RowLive, IsExpired
  <2>6. QED
    BY <1>1, <2>5
<1>4. QED
  BY <1>1, <1>3 DEF Lapsed, Late

\* A step that moves one request on, and leaves the store alone.
LEMMA GotoLate ==
    ASSUME ServiceInv, UNCHANGED storeVars, NEW t \in Sessions, NEW step, Goto(t, step),
           pc[t] \in Late => step \in Late /\ owner' = owner,
           \A s \in Sessions : s # t => owner'[s] = owner[s]
    PROVE  clock' >= clock /\ \A s \in Sessions : LateFramed(s)
<1>1. \A s \in Sessions : pc'[s] = IF s = t THEN step ELSE pc[s]
  BY DEF Goto, ServiceInv, ServiceTypeOK
<1>2. QED
  BY <1>1, StoreAlone DEF LateFramed

\* A step that frames every session and leaves the requests alone.
LEMMA RequestsLate ==
    ASSUME pc' = pc, owner' = owner, \A s \in Sessions : OwnerFramed(s) /\ TokenFramed(s)
    PROVE  \A s \in Sessions : LateFramed(s)
BY DEF LateFramed

LEMMA PreviewStepLate ==
    ASSUME ServiceInv, NEW t \in Sessions, PreviewStep(t)
    PROVE  clock' >= clock /\ \A s \in Sessions : LateFramed(s)
<1>0. clock \in Nat
  BY DEF ServiceInv, StoreInv, StoreTypeOK
<1>1. CASE SaveOwner(t)
  <2>1. owner[t] \in Hashes
    BY <1>1, HashesAssumption DEF SaveOwner, ServiceInv, SessionInv, OwnerKnown
  <2>2. SaveOwnerHash(t, owner[t]) /\ pc[t] = "owner" /\ Goto(t, "token") /\ owner' = owner
    BY <1>1 DEF SaveOwner
  <2>3. \A s \in Sessions : s # t => OwnerFramed(s) /\ TokenFramed(s)
    BY <2>1, <2>2, SaveOwnerHashFrames DEF ServiceInv, Framed
  <2>4. pc[t] \notin Late /\ \A s \in Sessions : s # t => pc'[s] = pc[s]
    BY <2>2 DEF Late, Ended, Goto, ServiceInv, ServiceTypeOK
  <2>5. QED
    BY <1>0, <2>2, <2>3, <2>4 DEF LateFramed, SaveOwnerHash
<1>2. CASE CreateRestoreToken(t)
  <2>1. /\ SaveRestoreTokenHash(t, t) /\ t \in Hashes /\ pc[t] = "token" /\ owner' = owner
        /\ Goto(t, IF t \in Uploads THEN "parsing" ELSE "engine")
    BY <1>2, HashesAssumption DEF CreateRestoreToken
  <2>2. \A s \in Sessions : s # t => OwnerFramed(s) /\ TokenFramed(s)
    BY <2>1, SaveRestoreTokenHashFrames DEF ServiceInv, Framed
  <2>3. pc[t] \notin Late /\ \A s \in Sessions : s # t => pc'[s] = pc[s]
    BY <2>1 DEF Late, Ended, Goto, ServiceInv, ServiceTypeOK
  <2>4. QED
    BY <1>0, <2>1, <2>2, <2>3 DEF LateFramed, SaveRestoreTokenHash
<1>3. ASSUME NEW id \in MappingIds, SaveDetection(t, id)
      PROVE  clock' >= clock /\ \A s \in Sessions : LateFramed(s)
  <2>1. \A s \in Sessions : OwnerFramed(s) /\ TokenFramed(s)
    BY <1>3, SaveMappingFrames DEF SaveDetection, ServiceInv, Framed
  <2>2. QED
    BY <1>0, <1>3, <2>1, RequestsLate DEF SaveDetection, SaveMapping
<1>4. CASE Respond(t)
  BY <1>4, GotoLate DEF Respond, Late, Ended
<1>5. CASE Fail(t)
  BY <1>5, GotoLate DEF Fail, Late, Ended
<1>6. QED
  BY <1>1, <1>2, <1>3, <1>4, <1>5 DEF PreviewStep

LEMMA RestoreStepLate ==
    ASSUME ServiceInv, RestoreStep
    PROVE  clock' >= clock /\ \A s \in Sessions : LateFramed(s)
<1>1. restore.step \in RestoreRunning /\ Access(restore.session) /\ UNCHANGED request
  BY DEF RestoreStep, ServiceVerifiesToken, ServiceVerifiesOwner, EngineVerifiesOwner,
         EngineVerifiesToken, ReadMappings, RestoreAt, RestoreRunning, Check,
         VerifyOwnerHash, VerifyRestoreTokenHash, GetMappings
<1>2. clock' >= clock /\ \A s \in Sessions : Framed(s)
  BY <1>1, RestoreStepStore
<1>3. QED
  BY <1>1, <1>2, RequestsLate DEF Framed, request

LEMMA StepLate ==
    ASSUME ServiceInv, [ServiceNext]_vars
    PROVE  clock' >= clock /\ \A s \in Sessions : LateFramed(s)
<1>0. clock \in Nat
  BY DEF ServiceInv, StoreInv, StoreTypeOK
<1>1. ASSUME NEW s \in Sessions, NEW o \in Owners, StartPreview(s, o)
      PROVE  clock' >= clock /\ \A t \in Sessions : LateFramed(t)
  <2>1. pc[s] \notin Late /\ \A t \in Sessions : t # s => owner'[t] = owner[t]
    BY <1>1 DEF StartPreview, Late, Ended, ServiceInv, ServiceTypeOK
  <2>2. QED
    BY <1>1, <2>1, GotoLate DEF StartPreview
<1>2. ASSUME NEW s \in Sessions, RejectUpload(s) \/ ParseDone(s) \/ ParseFails(s)
      PROVE  clock' >= clock /\ \A t \in Sessions : LateFramed(t)
  <2>1. CASE RejectUpload(s)
    BY <2>1, GotoLate DEF RejectUpload, Late, Ended
  <2>2. CASE ParseDone(s)
    BY <2>2, GotoLate DEF ParseDone, Late
  <2>3. CASE ParseFails(s)
    BY <2>3, GotoLate DEF ParseFails, Late, Ended
  <2>4. QED
    BY <1>2, <2>1, <2>2, <2>3
<1>3. ASSUME NEW s \in Sessions, NEW t \in Sessions, NEW o \in Owners, BeginRestore(s, t, o)
      PROVE  clock' >= clock /\ \A u \in Sessions : LateFramed(u)
  BY <1>3, StoreAlone, RequestsLate DEF BeginRestore, request
<1>4. CASE BackgroundCleanup \/ CliDelete
  <2>1. \A s \in Sessions : Framed(s)
    BY <1>4, DeleteExpiredFrames
       DEF BackgroundCleanup, CleanupExpiredSessions, CliDelete, ServiceInv
  <2>2. clock' = clock /\ pc' = pc /\ owner' = owner
    BY <1>4 DEF BackgroundCleanup, CleanupExpiredSessions, CliDelete, DeleteExpired, serviceVars
  <2>3. QED
    BY <1>0, <2>1, <2>2, RequestsLate DEF Framed
<1>5. CASE CliSelect \/ UNCHANGED vars
  BY <1>5, StoreAlone, RequestsLate DEF CliSelect, vars, serviceVars
<1>6. CASE Restart
  <2>1. \A s \in Sessions : pc[s] \in Late => pc'[s] \in Late
    BY <1>6 DEF Restart, Late, Ended, ServiceInv, ServiceTypeOK
  <2>2. QED
    BY <1>6, <2>1, StoreAlone DEF Restart, LateFramed
<1>7. CASE AdvanceClock
  BY <1>0, <1>7, UnchangedFrames, RequestsLate DEF AdvanceClock, Tick, serviceVars, Framed
<1>8. QED
  BY <1>1, <1>2, <1>3, <1>4, <1>5, <1>6, <1>7, PreviewStepLate, RestoreStepLate DEF ServiceNext

\* Once the credentials of a preview have lapsed nothing makes its session
\* restorable again: no later save of the same request, however late its parser
\* returned, no clean-up, script or restart.
THEOREM LapsedCredentialsStayLapsed == ServiceSpec => LapsedForGood
<1>1. ServiceInv /\ ServiceInv' /\ [ServiceNext]_vars
      => [\A s \in Sessions : Lapsed(s) => Lapsed(s)']_vars
  BY StepLate, LapsedKept
<1>2. QED
  BY <1>1, ServiceInvHolds, PTL DEF ServiceSpec, LapsedForGood

-----------------------------------------------------------------------------
(* The limiter.  A slot is taken and given back one at a time, by an upload *)
(* that enters or leaves InFlight in the same step; a restart frees them    *)
(* all.  That the uploads in flight are finitely many is part of it.        *)

UploadsInFlight == {s \in Uploads : pc[s] \in InFlight}

LimiterInv == IsFiniteSet(UploadsInFlight) /\ LimiterExact

\* Only a step that changes who is in flight concerns the limiter.
LEMMA LimiterUntouched ==
    ASSUME LimiterInv, active' = active, UploadsInFlight' = UploadsInFlight
    PROVE  LimiterInv'
BY DEF LimiterInv, LimiterExact, UploadsInFlight

\* Where a step of one request leaves the uploads in flight.
LEMMA GotoInFlight ==
    ASSUME ServiceTypeOK, NEW s \in Sessions, NEW step, Goto(s, step)
    PROVE  /\ step \in InFlight /\ s \in Uploads
                 => UploadsInFlight' = UploadsInFlight \cup {s}
           /\ step \notin InFlight => UploadsInFlight' = UploadsInFlight \ {s}
           /\ s \notin Uploads => UploadsInFlight' = UploadsInFlight
<1>1. \A t \in Uploads : pc'[t] = IF t = s THEN step ELSE pc[t]
  BY UploadsAssumption DEF ServiceTypeOK, Goto
<1>2. QED
  BY <1>1 DEF UploadsInFlight

\* A request that goes on, but not out, keeps its slot.
LEMMA SlotKept ==
    ASSUME ServiceTypeOK, LimiterInv, NEW s \in Sessions, NEW step, Goto(s, step),
           pc[s] \in InFlight <=> step \in InFlight, active' = active
    PROVE  LimiterInv'
<1>1. s \in UploadsInFlight <=> s \in Uploads /\ step \in InFlight
  BY DEF UploadsInFlight
<1>2. UploadsInFlight' = UploadsInFlight
  BY <1>1, GotoInFlight
<1>3. QED
  BY <1>2, LimiterUntouched

LEMMA SlotTaken ==
    ASSUME ServiceTypeOK, LimiterInv, NEW s \in Sessions, NEW o, StartPreview(s, o)
    PROVE  LimiterInv'
<1>1. Goto(s, "owner") /\ "owner" \in InFlight /\ s \notin UploadsInFlight
  BY DEF StartPreview, UploadsInFlight, InFlight
<1>2. CASE s \in Uploads
  <2>1. UploadsInFlight' = UploadsInFlight \cup {s}
    BY <1>1, <1>2, GotoInFlight
  <2>2. /\ IsFiniteSet(UploadsInFlight \cup {s})
        /\ Cardinality(UploadsInFlight \cup {s}) = Cardinality(UploadsInFlight) + 1
    BY <1>1, FS_AddElement DEF LimiterInv
  <2>3. active' = active + 1 /\ active < MaxConcurrency /\ active \in Nat
    BY <1>2 DEF StartPreview, ServiceTypeOK
  <2>4. active = Cardinality(UploadsInFlight)
    BY DEF LimiterInv, LimiterExact, UploadsInFlight
  <2>5. active' = Cardinality(UploadsInFlight') /\ active' <= MaxConcurrency
    BY <2>1, <2>2, <2>3, <2>4, LimitAssumption
  <2>6. QED
    BY <2>1, <2>2, <2>5 DEF LimiterInv, LimiterExact, UploadsInFlight
<1>3. CASE s \notin Uploads
  <2>1. UploadsInFlight' = UploadsInFlight /\ active' = active
    BY <1>1, <1>3, GotoInFlight DEF StartPreview
  <2>2. QED
    BY <2>1, LimiterUntouched
<1>4. QED
  BY <1>2, <1>3

\* release never meets a counter at zero: the slot it returns is counted.
LEMMA SlotGivenBack ==
    ASSUME ServiceTypeOK, LimiterInv, NEW s \in Sessions, pc[s] \in InFlight,
           NEW step, step \notin InFlight, Goto(s, step), Release(s)
    PROVE  LimiterInv'
<1>1. CASE s \in Uploads
  <2>1. UploadsInFlight' = UploadsInFlight \ {s} /\ s \in UploadsInFlight
    BY <1>1, GotoInFlight DEF UploadsInFlight
  <2>2. /\ IsFiniteSet(UploadsInFlight \ {s})
        /\ Cardinality(UploadsInFlight \ {s}) = Cardinality(UploadsInFlight) - 1
        /\ Cardinality(UploadsInFlight \ {s}) \in Nat
    BY <2>1, FS_RemoveElement, FS_CardinalityType DEF LimiterInv
  <2>3. active \in Nat /\ active <= MaxConcurrency /\ active = Cardinality(UploadsInFlight)
    BY DEF ServiceTypeOK, LimiterInv, LimiterExact, UploadsInFlight
  <2>4. active > 0
    BY <2>2, <2>3
  <2>5. active' = active - 1
    BY <1>1, <2>4 DEF Release
  <2>6. active' = Cardinality(UploadsInFlight') /\ active' <= MaxConcurrency
    BY <2>1, <2>2, <2>3, <2>5, LimitAssumption
  <2>7. QED
    BY <2>1, <2>2, <2>6 DEF LimiterInv, LimiterExact, UploadsInFlight
<1>2. CASE s \notin Uploads
  <2>1. UploadsInFlight' = UploadsInFlight /\ active' = active
    BY <1>2, GotoInFlight DEF Release
  <2>2. QED
    BY <2>1, LimiterUntouched
<1>3. QED
  BY <1>1, <1>2

LEMMA NoSlots ==
    ASSUME active' = 0, UploadsInFlight' = {}
    PROVE  LimiterInv'
BY FS_EmptySet, LimitAssumption DEF LimiterInv, LimiterExact, UploadsInFlight

LEMMA PreviewStepLimiter ==
    ASSUME ServiceTypeOK, LimiterInv, NEW s \in Sessions, PreviewStep(s)
    PROVE  LimiterInv'
<1>1. CASE SaveOwner(s)
  BY <1>1, SlotKept DEF SaveOwner, InFlight
<1>2. CASE CreateRestoreToken(s)
  BY <1>2, SlotKept DEF CreateRestoreToken, InFlight
<1>3. ASSUME NEW id \in MappingIds, SaveDetection(s, id)
      PROVE  LimiterInv'
  BY <1>3, LimiterUntouched DEF SaveDetection, UploadsInFlight
<1>4. CASE Respond(s)
  BY <1>4, SlotGivenBack DEF Respond, InFlight
<1>5. CASE Fail(s)
  BY <1>5, SlotGivenBack DEF Fail, InFlight
<1>6. QED
  BY <1>1, <1>2, <1>3, <1>4, <1>5 DEF PreviewStep

LEMMA LimiterStep == ServiceTypeOK /\ LimiterInv /\ [ServiceNext]_vars => LimiterInv'
<1> SUFFICES ASSUME ServiceTypeOK, LimiterInv, [ServiceNext]_vars
             PROVE  LimiterInv'
  OBVIOUS
<1>1. ASSUME NEW s \in Sessions, NEW o \in Owners, StartPreview(s, o)
      PROVE  LimiterInv'
  BY <1>1, SlotTaken
<1>2. ASSUME NEW s \in Sessions, RejectUpload(s)
      PROVE  LimiterInv'
  BY <1>2, SlotKept DEF RejectUpload, InFlight
<1>3. ASSUME NEW s \in Sessions, ParseDone(s)
      PROVE  LimiterInv'
  BY <1>3, SlotKept DEF ParseDone, InFlight
<1>4. ASSUME NEW s \in Sessions, ParseFails(s)
      PROVE  LimiterInv'
  BY <1>4, SlotGivenBack DEF ParseFails, InFlight
<1>5. ASSUME NEW s \in Sessions, NEW t \in Sessions, NEW o \in Owners, BeginRestore(s, t, o)
      PROVE  LimiterInv'
  BY <1>5, LimiterUntouched DEF BeginRestore, request, UploadsInFlight
<1>6. CASE RestoreStep
  BY <1>6, LimiterUntouched
     DEF RestoreStep, ServiceVerifiesToken, ServiceVerifiesOwner, EngineVerifiesOwner,
         EngineVerifiesToken, ReadMappings, Check, request, UploadsInFlight
<1>7. CASE BackgroundCleanup \/ CliSelect \/ CliDelete \/ AdvanceClock \/ UNCHANGED vars
  BY <1>7, LimiterUntouched
     DEF BackgroundCleanup, CliSelect, CliDelete, AdvanceClock, vars, serviceVars, UploadsInFlight
<1>8. CASE Restart
  <2>1. \A s \in Uploads : pc'[s] \notin InFlight
    BY <1>8, UploadsAssumption DEF Restart, InFlight
  <2>2. UploadsInFlight' = {} /\ active' = 0
    BY <1>8, <2>1 DEF Restart, UploadsInFlight
  <2>3. QED
    BY <2>2, NoSlots
<1>9. QED
  BY <1>1, <1>2, <1>3, <1>4, <1>5, <1>6, <1>7, <1>8, PreviewStepLimiter DEF ServiceNext

LEMMA LimiterInit == ServiceInit => LimiterInv
<1> SUFFICES ASSUME ServiceInit
             PROVE  LimiterInv
  OBVIOUS
<1>1. UploadsInFlight = {}
  BY UploadsAssumption DEF ServiceInit, UploadsInFlight, InFlight
<1>2. QED
  BY <1>1, FS_EmptySet, LimitAssumption DEF ServiceInit, LimiterInv, LimiterExact, UploadsInFlight

\* However uploads end, by an answer, a failed parse, a failed store call or a
\* restart, the limiter counts those in progress and admits no more than the
\* limit: no slot is lost and none is returned twice.
THEOREM LimiterCountsExactly == ServiceSpec => []LimiterExact
<1>1. ServiceInv => ServiceTypeOK
  BY DEF ServiceInv
<1>2. LimiterInv => LimiterExact
  BY DEF LimiterInv
<1>3. QED
  BY <1>1, <1>2, ServiceInvHolds, LimiterInit, LimiterStep, PTL DEF ServiceSpec
=============================================================================
