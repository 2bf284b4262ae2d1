------------------------------ MODULE WorkbenchProofs ------------------------------
(***************************************************************************)
(* What holds of the workbench page for any texts, limits and number of    *)
(* comparisons.                                                            *)
(***************************************************************************)
EXTENDS Workbench, Foundations

-----------------------------------------------------------------------------
(* Previews.  The invariant says what the one request under way was made   *)
(* for: a text's is for what the input panel shows, and while an upload's  *)
(* is answered the panel still agrees with the preview on screen.          *)

PanelAgrees ==
    \/ originalText = preview.of
    \/ minimized /\ originalText = Empty /\ preview.text = Empty

Agrees(job) == IF job.kind = "text" THEN job.text = originalText ELSE PanelAgrees

PageInv ==
    /\ isLoading \in BOOLEAN
    /\ isLoading => pending # {}
    /\ \A job, other \in pending : job = other
    /\ \A job \in pending : Agrees(job)
    /\ ~isLoading => pending = {} /\ PanelAgrees

LEMMA PageInit == WorkbenchInit => PageInv
  BY DEF WorkbenchInit, PageInv, Agrees

\* With its only request settled the page agrees with its preview.
LEMMA SettledInv ==
    ASSUME PageInv, NEW job \in pending, Settled(job), PanelAgrees'
    PROVE  PageInv'
  <1>1. \A other \in pending : job = other
    BY DEF PageInv
  <1>2. pending' = {} /\ isLoading' = FALSE
    BY <1>1 DEF Settled
  <1> QED BY <1>2 DEF PageInv

LEMMA PageStep == PageInv /\ [WorkbenchNext]_vars => PageInv'
  <1> SUFFICES ASSUME PageInv, [WorkbenchNext]_vars
               PROVE  PageInv'
    OBVIOUS
  <1>1. ASSUME NEW text, UpdatePreview(text)
        PROVE  PageInv'
    <2> DEFINE job == [kind |-> "text", text |-> text]
    <2>1. pending' = {job} /\ isLoading' = TRUE /\ originalText' = text
      BY <1>1 DEF UpdatePreview, InputEnabled, PageInv
    <2> QED BY <2>1 DEF PageInv, Agrees
  <1>2. ASSUME NEW text, UpdateUploadPreview(text)
        PROVE  PageInv'
    <2> DEFINE job == [kind |-> "upload", text |-> text]
    <2>1. /\ pending' = {job} /\ isLoading' = TRUE /\ PanelAgrees
          /\ originalText' = originalText /\ preview' = preview /\ minimized' = minimized
      BY <1>2 DEF UpdateUploadPreview, InputEnabled, PageInv
    <2> QED BY <2>1 DEF PageInv, Agrees, PanelAgrees
  <1>3. ASSUME NEW job \in pending, TextAnswered(job) \/ TextFailed(job)
        PROVE  PageInv'
    <2>1. job.text = originalText
      BY <1>3 DEF PageInv, Agrees, TextAnswered, TextFailed
    <2>2. Settled(job) /\ originalText' = originalText /\ preview'.of = job.text
      BY <1>3 DEF TextAnswered, TextFailed, Answered, Mock
    <2> QED BY <2>1, <2>2, SettledInv DEF PanelAgrees
  <1>4. ASSUME NEW job \in pending, UploadAnswered(job)
        PROVE  PageInv'
    <2>1. Settled(job) /\ minimized' = minimized /\ originalText' = preview'.text
      BY <1>4 DEF UploadAnswered, Settled
    <2>2. preview'.of = job.text /\ preview'.text = IF minimized THEN Empty ELSE job.text
      BY <1>4 DEF UploadAnswered, Answered
    <2> QED BY <2>1, <2>2, SettledInv DEF PanelAgrees
  <1>5. ASSUME NEW job \in pending, UploadFailed(job)
        PROVE  PageInv'
    <2>1. PanelAgrees
      BY <1>5 DEF PageInv, Agrees, UploadFailed
    <2>2. Settled(job) /\ UNCHANGED <<minimized, originalText, preview>>
      BY <1>5 DEF UploadFailed, Settled
    <2> QED BY <2>1, <2>2, SettledInv DEF PanelAgrees
  <1>6. ASSUME UNCHANGED pageVars
        PROVE  PageInv'
    BY <1>6 DEF PageInv, Agrees, PanelAgrees, pageVars
  <1>7. ASSUME NEW n, ComparisonEnds(n)
        PROVE  UNCHANGED pageVars
    BY <1>7 DEF ComparisonEnds, PolicyEnds
  <1>8. ASSUME NEW which,
               \/ RestoreWithoutToken(which) \/ RestoreTooLong(which)
               \/ SendRestore(which) \/ RestoreEnds(which)
        PROVE  UNCHANGED pageVars
    BY <1>8 DEF RestoreWithoutToken, RestoreTooLong, SendRestore, RestoreEnds
  <1>9. ASSUME LoadComparison \/ ClearComparison \/ Tick \/ UNCHANGED vars
        PROVE  UNCHANGED pageVars
    BY <1>9 DEF LoadComparison, ClearComparison, Tick, vars, pageVars
  <1> QED
    BY <1>1, <1>2, <1>3, <1>4, <1>5, <1>6, <1>7, <1>8, <1>9 DEF WorkbenchNext, PreviewEnds

LEMMA PageInvHolds == WorkbenchSpec => []PageInv
  BY PageInit, PageStep, PTL DEF WorkbenchSpec

\* Whatever fails or is dropped, and whether or not the backend returns the
\* originals, a page that is not loading never shows another text in its input
\* panel than the one its preview was made from.
THEOREM InputIsWhatIsShown == WorkbenchSpec => []ShownMatchesInput
  <1>1. PageInv => ShownMatchesInput
    BY DEF PageInv, PanelAgrees, ShownMatchesInput
  <1> QED BY <1>1, PageInvHolds, PTL

-----------------------------------------------------------------------------
(* Comparisons.                                                            *)

\* What is under way waits for at least one of the two policies.
Jobs == [source : Texts, answered : {0, 1}]

CompareInv ==
    /\ comparing = [n \in DOMAIN comparing |-> comparing[n]]
    /\ \A n \in DOMAIN comparing : comparing[n] \in Jobs
    /\ DOMAIN comparing \subseteq 1 .. MaxComparisons
    /\ comparison \in [loading : BOOLEAN, source : Texts \cup {Empty}, shown : BOOLEAN]
    /\ comparison.loading => \E n \in DOMAIN comparing : comparing[n].source = comparison.source
    /\ preview.text \in Texts \cup {Empty} /\ originalText \in Texts \cup {Empty}
    /\ \A job \in pending : job.text \in Texts \cup {Empty}

LEMMA CompareInit == WorkbenchInit => CompareInv
  BY WorkbenchAssumption DEF WorkbenchInit, CompareInv, NoTokens, NoComparison, Mock

LEMMA PolicyEndsInv ==
    ASSUME CompareInv, NEW n \in DOMAIN comparing, PolicyEnds(n)
    PROVE  CompareInv'
  <1>1. comparing[n] \in Jobs /\ UNCHANGED pageVars
    BY DEF PolicyEnds, CompareInv
  <1>2. CASE comparing[n].answered = 1
    <2>1. /\ comparing' = Restrict(comparing, DOMAIN comparing \ {n})
          /\ comparison' = [loading |-> FALSE, source |-> comparing[n].source, shown |-> TRUE]
      BY <1>2 DEF PolicyEnds
    <2>2. comparing' = [m \in DOMAIN comparing \ {n} |-> comparing[m]]
      BY <2>1 DEF Restrict
    <2> QED BY <1>1, <2>1, <2>2 DEF CompareInv, pageVars, Jobs
  <1>3. CASE comparing[n].answered # 1
    <2>1. comparing' = [comparing EXCEPT ![n].answered = 1] /\ comparison' = comparison
      BY <1>3 DEF PolicyEnds
    <2>2. /\ DOMAIN comparing' = DOMAIN comparing
          /\ \A m \in DOMAIN comparing :
                comparing'[m] \in Jobs /\ comparing'[m].source = comparing[m].source
      BY <2>1 DEF CompareInv, Jobs
    <2>3. comparing' = [m \in DOMAIN comparing' |-> comparing'[m]]
      BY <2>1 DEF CompareInv
    <2> QED BY <1>1, <2>1, <2>2, <2>3 DEF CompareInv, pageVars, Jobs
  <1> QED BY <1>2, <1>3

LEMMA LoadComparisonInv ==
    ASSUME CompareInv, LoadComparison
    PROVE  CompareInv'
  <1> DEFINE started == [source |-> SourceText, answered |-> 0]
  <1>1. PICK n \in 1 .. MaxComparisons \ DOMAIN comparing : comparing' = Put(comparing, n, started)
    BY DEF LoadComparison
  <1>2. /\ comparison' = [loading |-> TRUE, source |-> SourceText, shown |-> FALSE]
        /\ UNCHANGED pageVars /\ SourceText \in Texts
    BY DEF LoadComparison, SourceText, CompareInv
  <1>3. started \in Jobs
    BY <1>2 DEF Jobs
  <1>4. comparing' = [m \in {n} \cup DOMAIN comparing |-> IF m = n THEN started ELSE comparing[m]]
    BY <1>1 DEF Put
  <1>5. comparison'.source = SourceText /\ comparing'[n].source = SourceText /\ n \in DOMAIN comparing'
    BY <1>2, <1>4
  <1> HIDE DEF started
  <1> QED BY <1>2, <1>3, <1>4, <1>5 DEF CompareInv, pageVars, Jobs

LEMMA CompareStep == CompareInv /\ [WorkbenchNext]_vars => CompareInv'
  <1> SUFFICES ASSUME CompareInv, [WorkbenchNext]_vars
               PROVE  CompareInv'
    OBVIOUS
  <1> DEFINE Cleared == comparison' = NoComparison /\ comparing' = comparing
             Kept == UNCHANGED compareVars
             TextsOK == /\ preview.text \in Texts \cup {Empty} /\ originalText \in Texts \cup {Empty}
                        /\ \A job \in pending : job.text \in Texts \cup {Empty}
  <1>1. ASSUME Cleared \/ Kept, TextsOK'
        PROVE  CompareInv'
    <2>1. comparing' = comparing /\ comparison' \in {comparison, NoComparison}
      BY <1>1 DEF compareVars
    <2>2. comparing' = [n \in DOMAIN comparing' |-> comparing'[n]]
      BY <2>1 DEF CompareInv
    <2>3. \A n \in DOMAIN comparing' : comparing'[n] \in Jobs
      BY <2>1 DEF CompareInv
    <2>4. /\ comparison' \in [loading : BOOLEAN, source : Texts \cup {Empty}, shown : BOOLEAN]
          /\ comparison'.loading => \E n \in DOMAIN comparing' : comparing'[n].source = comparison'.source
      <3>1. NoComparison \in [loading : BOOLEAN, source : Texts \cup {Empty}, shown : BOOLEAN]
        BY DEF NoComparison
      <3>2. NoComparison.loading = FALSE
        BY DEF NoComparison
      <3>3. CASE comparison' = comparison
        BY <2>1, <3>3 DEF CompareInv
      <3>4. CASE comparison' = NoComparison
        BY <3>1, <3>2, <3>4
      <3> QED BY <2>1, <3>3, <3>4
    <2> QED BY <1>1, <2>1, <2>2, <2>3, <2>4 DEF CompareInv, Jobs
  <1>2. ASSUME NEW text \in Texts \cup {Empty}, UpdatePreview(text) \/ UpdateUploadPreview(text)
        PROVE  Cleared /\ TextsOK'
    BY <1>2 DEF UpdatePreview, UpdateUploadPreview, CompareInv
  <1>3. ASSUME NEW job \in pending,
               TextAnswered(job) \/ UploadAnswered(job) \/ TextFailed(job) \/ UploadFailed(job)
        PROVE  Kept /\ TextsOK'
    <2>1. job.text \in Texts \cup {Empty}
      BY DEF CompareInv
    <2>2. Kept /\ pending' \subseteq pending
      BY <1>3 DEF TextAnswered, UploadAnswered, TextFailed, UploadFailed, Settled
    <2>3. preview'.text \in Texts \cup {Empty} /\ originalText' \in {originalText, preview'.text}
      BY <1>3, <2>1 DEF TextAnswered, UploadAnswered, TextFailed, UploadFailed, Answered, CompareInv, Mock
    <2> QED BY <2>2, <2>3 DEF CompareInv
  <1>4. ASSUME NEW which,
               \/ RestoreWithoutToken(which) \/ RestoreTooLong(which)
               \/ SendRestore(which) \/ RestoreEnds(which) \/ Tick \/ UNCHANGED vars
        PROVE  Kept /\ TextsOK'
    BY <1>4 DEF RestoreWithoutToken, RestoreTooLong, SendRestore, RestoreEnds, Tick, vars, pageVars,
                compareVars, CompareInv
  <1>5. ASSUME ClearComparison
        PROVE  Cleared /\ TextsOK'
    BY <1>5 DEF ClearComparison, pageVars, CompareInv
  <1>6. ASSUME NEW n \in DOMAIN comparing, ComparisonEnds(n)
        PROVE  CompareInv'
    BY <1>6, PolicyEndsInv DEF ComparisonEnds
  <1> QED
    BY <1>1, <1>2, <1>3, <1>4, <1>5, <1>6, LoadComparisonInv DEF WorkbenchNext, PreviewEnds

LEMMA CompareInvHolds == WorkbenchSpec => []CompareInv
  BY CompareInit, CompareStep, PTL DEF WorkbenchSpec

\* No indicator without its own request, and never two previews at once.
THEOREM IndicatorsHaveRequests == WorkbenchSpec => []BusyMeansPending
  <1>1. PageInv /\ CompareInv => BusyMeansPending
    <2> SUFFICES ASSUME PageInv, CompareInv
                 PROVE  Cardinality(pending) = (IF isLoading THEN 1 ELSE 0)
      BY DEF BusyMeansPending, CompareInv
    <2>1. CASE isLoading
      <3>1. PICK job \in pending : pending = {job}
        BY <2>1 DEF PageInv
      <3> QED BY <2>1, <3>1, FS_Singleton
    <2>2. CASE ~isLoading
      BY <2>2, FS_EmptySet DEF PageInv
    <2> QED BY <2>1, <2>2
  <1> QED BY <1>1, PageInvHolds, CompareInvHolds, PTL

-----------------------------------------------------------------------------
(* Tokens.  The Map knows when a token was issued, whatever has been done   *)
(* with it since.                                                           *)

TokensInv ==
    \A s \in DOMAIN tokens :
        /\ s \in DOMAIN ledger
        /\ tokens[s].storedAt = ledger[s].issued

\* Pruning and trimming only ever take tokens away.
LEMMA PrunedTokens ==
    ASSUME NEW now
    PROVE  /\ DOMAIN Pruned(now) \subseteq DOMAIN tokens
           /\ \A s \in DOMAIN Pruned(now) :
                 Pruned(now)[s] = tokens[s] /\ now - tokens[s].storedAt <= TokenTtl
  BY DEF Pruned, Restrict

LEMMA TrimmedTokens ==
    ASSUME NEW cached
    PROVE  /\ DOMAIN Trimmed(cached) \subseteq DOMAIN cached
           /\ \A s \in DOMAIN Trimmed(cached) : Trimmed(cached)[s] = cached[s]
  BY DEF Trimmed, Restrict

LEMMA RememberInv ==
    ASSUME TokensInv, NEW session, Remember(session)
    PROVE  TokensInv'
  <1> DEFINE row == [storedAt |-> clock, lastAccessAt |-> clock]
             cached == Put(Pruned(clock), session, row)
  <1>1. /\ tokens' = Trimmed(cached)
        /\ ledger' = Put(ledger, session, [issued |-> clock, used |-> clock])
    BY DEF Remember
  <1>2. DOMAIN cached = DOMAIN Pruned(clock) \cup {session}
    BY DEF Put
  <1>3. /\ cached[session].storedAt = clock
        /\ \A s \in DOMAIN Pruned(clock) : s # session => cached[s] = tokens[s]
    BY PrunedTokens DEF Put
  <1>4. /\ DOMAIN ledger' = DOMAIN ledger \cup {session} /\ ledger'[session].issued = clock
        /\ \A s \in DOMAIN ledger : s # session => ledger'[s] = ledger[s]
    BY <1>1 DEF Put
  <1> HIDE DEF cached
  <1>5. /\ DOMAIN tokens' \subseteq DOMAIN cached
        /\ \A s \in DOMAIN tokens' : tokens'[s] = cached[s]
    BY <1>1, TrimmedTokens
  <1> QED BY <1>2, <1>3, <1>4, <1>5, PrunedTokens DEF TokensInv

LEMMA UseTokenInv ==
    ASSUME TokensInv, NEW session, HasToken(session), UseToken(session)
    PROVE  TokensInv'
  <1>1. /\ tokens' = [Pruned(clock) EXCEPT ![session].lastAccessAt = clock]
        /\ ledger' = [ledger EXCEPT ![session].used = clock]
    BY DEF UseToken
  <1>2. DOMAIN tokens' = DOMAIN Pruned(clock) /\ DOMAIN ledger' = DOMAIN ledger
    BY <1>1
  <1>3. ASSUME NEW s \in DOMAIN Pruned(clock)
        PROVE  tokens'[s].storedAt = ledger'[s].issued
    <2>1. s \in DOMAIN tokens /\ Pruned(clock)[s] = tokens[s]
      BY <1>3, PrunedTokens
    <2>2. s \in DOMAIN ledger /\ tokens[s].storedAt = ledger[s].issued
      BY <2>1 DEF TokensInv
    <2>3. tokens'[s].storedAt = Pruned(clock)[s].storedAt
      BY <1>1, <1>3
    <2>4. ledger'[s].issued = ledger[s].issued
      BY <1>1, <2>2
    <2> QED BY <2>1, <2>2, <2>3, <2>4
  <1> QED BY <1>2, <1>3, PrunedTokens DEF TokensInv

LEMMA TokensStep == TokensInv /\ [WorkbenchNext]_vars => TokensInv'
  <1> SUFFICES ASSUME TokensInv, [WorkbenchNext]_vars
               PROVE  TokensInv'
    OBVIOUS
  <1>1. ASSUME UNCHANGED tokenVars
        PROVE  TokensInv'
    BY <1>1 DEF TokensInv, tokenVars
  <1>2. ASSUME NEW text, UpdatePreview(text) \/ UpdateUploadPreview(text)
        PROVE  UNCHANGED tokenVars
    BY <1>2 DEF UpdatePreview, UpdateUploadPreview, tokenVars
  <1>3. ASSUME NEW job, TextAnswered(job) \/ UploadAnswered(job)
        PROVE  TokensInv'
    BY <1>3, RememberInv DEF TextAnswered, UploadAnswered, Answered
  <1>4. ASSUME NEW job, TextFailed(job) \/ UploadFailed(job)
        PROVE  UNCHANGED tokenVars
    BY <1>4 DEF TextFailed, UploadFailed, tokenVars
  <1>5. ASSUME NEW n, ComparisonEnds(n)
        PROVE  TokensInv'
    BY <1>1, <1>5, RememberInv DEF ComparisonEnds
  <1>6. ASSUME NEW which, RestoreWithoutToken(which)
        PROVE  TokensInv'
    BY <1>6, PrunedTokens DEF RestoreWithoutToken, MissToken, TokensInv
  <1>7. ASSUME NEW which, RestoreTooLong(which) \/ SendRestore(which)
        PROVE  TokensInv'
    BY <1>7, UseTokenInv DEF RestoreTooLong, SendRestore
  <1>8. ASSUME NEW which, RestoreEnds(which) \/ LoadComparison \/ ClearComparison \/ Tick \/ UNCHANGED vars
        PROVE  UNCHANGED tokenVars
    BY <1>8 DEF RestoreEnds, LoadComparison, ClearComparison, Tick, vars, tokenVars
  <1> QED
    BY <1>1, <1>2, <1>3, <1>4, <1>5, <1>6, <1>7, <1>8 DEF WorkbenchNext, PreviewEnds

LEMMA TokensInvHolds == WorkbenchSpec => []TokensInv
  <1>1. WorkbenchInit => TokensInv
    BY DEF WorkbenchInit, TokensInit, NoTokens, TokensInv
  <1> QED BY <1>1, TokensStep, PTL DEF WorkbenchSpec

\* A token is sent within its time to live, counted from when it was issued,
\* however often it has been used in between.
THEOREM SentTokensAreFresh == WorkbenchSpec => NoExpiredTokenSent
  <1> DEFINE Fresh == restoring' \ restoring # {} => clock - ledger[preview.session].issued <= TokenTtl
  <1>1. TokensInv /\ [WorkbenchNext]_vars => [Fresh]_vars
    <2> SUFFICES ASSUME TokensInv, WorkbenchNext, restoring' \ restoring # {}
                 PROVE  clock - ledger[preview.session].issued <= TokenTtl
      OBVIOUS
    <2>1. PICK which : SendRestore(which)
      BY DEF WorkbenchNext, UpdatePreview, UpdateUploadPreview, PreviewEnds, TextAnswered,
             UploadAnswered, TextFailed, UploadFailed, Settled, LoadComparison, ClearComparison, ComparisonEnds, PolicyEnds,
             RestoreWithoutToken, RestoreTooLong, RestoreEnds, Tick
    <2>2. preview.session \in DOMAIN Pruned(clock)
      BY <2>1 DEF SendRestore, HasToken
    <2> QED BY <2>2, PrunedTokens DEF TokensInv
  <1> QED BY <1>1, TokensInvHolds, PTL DEF WorkbenchSpec, NoExpiredTokenSent

-----------------------------------------------------------------------------
(* Eviction.  The sessions are numbered without a gap, so that the one that *)
(* is remembered next is new to the ledger; the Map agrees with the ledger  *)
(* on when a token was issued and last used.                                *)

LedgerInv ==
    /\ clock \in Nat
    /\ \E n \in Nat : DOMAIN ledger = 1 .. n
    /\ ledger \in [DOMAIN ledger -> [issued : Nat, used : Nat]]
    /\ \A s \in DOMAIN ledger : ledger[s].used <= clock
    /\ DOMAIN tokens \subseteq DOMAIN ledger
    /\ tokens \in [DOMAIN tokens -> [storedAt : Nat, lastAccessAt : Nat]]
    /\ \A s \in DOMAIN tokens :
          tokens[s].storedAt = ledger[s].issued /\ tokens[s].lastAccessAt = ledger[s].used

KeptInv == LedgerInv /\ TokensKept

LEMMA NextSessionIsNew ==
    ASSUME LedgerInv
    PROVE  /\ IsFiniteSet(DOMAIN ledger) /\ NextSession \notin DOMAIN ledger
           /\ \E n \in Nat : DOMAIN ledger \cup {NextSession} = 1 .. n
  <1>1. PICK n \in Nat : DOMAIN ledger = 1 .. n
    BY DEF LedgerInv
  <1>2. IsFiniteSet(DOMAIN ledger) /\ NextSession = n + 1
    <2>1. IsFiniteSet(1 .. n) /\ Cardinality(1 .. n) = n
      <3>1. /\ IsFiniteSet(1 .. n)
            /\ Cardinality(1 .. n) = IF 1 > n THEN 0 ELSE n - 1 + 1
        BY FS_Interval
      <3> QED BY <3>1
    <2> QED BY <1>1, <2>1 DEF NextSession
  <1>3. DOMAIN ledger \cup {NextSession} = 1 .. (n + 1)
    BY <1>1, <1>2
  <1> QED BY <1>1, <1>2, <1>3

\* A token that is trimmed leaves MaxEntries behind that are not evicted
\* before it.
LEMMA TrimmedLeavesEnough ==
    ASSUME NEW cached, IsFiniteSet(DOMAIN cached),
           NEW s \in DOMAIN cached, s \notin DOMAIN Trimmed(cached)
    PROVE  LET later == {t \in DOMAIN cached \ {s} : ~EvictedBefore(cached, t, s)}
           IN  IsFiniteSet(later) /\ Cardinality(later) >= MaxEntries
  <1> DEFINE D == DOMAIN cached
             before == {t \in D : EvictedBefore(cached, t, s)}
             later == {t \in D \ {s} : ~EvictedBefore(cached, t, s)}
  <1>1. Cardinality(before) < Cardinality(D) - MaxEntries
    <2>1. ~(Cardinality(before) >= Cardinality(D) - MaxEntries)
      BY DEF Trimmed, Restrict
    <2>2. IsFiniteSet(before) /\ Cardinality(before) \in Nat /\ Cardinality(D) \in Nat
      BY FS_Subset, FS_CardinalityType
    <2> QED BY <2>1, <2>2, RestoreTokensAssumption
  <1>2. IsFiniteSet(D \ before) /\ Cardinality(D \ before) = Cardinality(D) - Cardinality(D \cap before)
    BY FS_Difference
  <1>3. D \cap before = before
    OBVIOUS
  <1>4. later = (D \ before) \ {s}
    OBVIOUS
  <1>5. IsFiniteSet(later) /\ Cardinality(later) >= Cardinality(D \ before) - 1
    <2> HIDE DEF later, before
    <2>1. /\ IsFiniteSet((D \ before) \ {s})
          /\ Cardinality((D \ before) \ {s}) =
                IF s \in D \ before THEN Cardinality(D \ before) - 1 ELSE Cardinality(D \ before)
      BY <1>2, FS_RemoveElement
    <2>2. Cardinality(D \ before) \in Nat
      BY <1>2, FS_CardinalityType
    <2> QED BY <1>4, <2>1, <2>2
  <1>6. /\ Cardinality(before) \in Nat /\ Cardinality(D) \in Nat
        /\ Cardinality(later) \in Nat
    BY <1>5, FS_Subset, FS_CardinalityType
  <1> HIDE DEF before, later
  <1>7. Cardinality(later) >= MaxEntries
    BY <1>1, <1>2, <1>3, <1>5, <1>6, RestoreTokensAssumption
  <1> QED BY <1>5, <1>7 DEF later

\* The sessions used at least as recently as s.
Later(s) == {t \in DOMAIN ledger \ {s} : ledger[t].used >= ledger[s].used}

\* When no use is taken back, what has pushed a token out stays as it is.
LEMMA LaterGrows ==
    ASSUME LedgerInv, NEW s \in DOMAIN ledger, IsFiniteSet((DOMAIN ledger)'),
           DOMAIN ledger \subseteq (DOMAIN ledger)', ledger'[s].used = ledger[s].used,
           \A t \in DOMAIN ledger : ledger'[t].used \in Nat /\ ledger'[t].used >= ledger[t].used,
           Cardinality(Later(s)) >= MaxEntries
    PROVE  Cardinality({t \in (DOMAIN ledger)' \ {s} : ledger'[t].used >= ledger'[s].used}) >= MaxEntries
  <1> DEFINE later == {t \in (DOMAIN ledger)' \ {s} : ledger'[t].used >= ledger'[s].used}
  <1>1. Later(s) \subseteq later
    BY DEF Later, LedgerInv
  <1>2. IsFiniteSet(later)
    BY FS_Subset
  <1> HIDE DEF later
  <1>3. IsFiniteSet(Later(s)) /\ Cardinality(Later(s)) <= Cardinality(later)
    BY <1>1, <1>2, FS_Subset
  <1>4. Cardinality(Later(s)) \in Nat /\ Cardinality(later) \in Nat
    BY <1>2, <1>3, FS_CardinalityType
  <1>5. Cardinality(later) >= MaxEntries
    BY <1>3, <1>4, RestoreTokensAssumption
  <1> QED BY <1>5 DEF later

LEMMA RememberKeeps ==
    ASSUME KeptInv, Remember(NextSession), clock' = clock
    PROVE  KeptInv'
  <1> DEFINE new == NextSession
             row == [storedAt |-> clock, lastAccessAt |-> clock]
             cached == Put(Pruned(clock), new, row)
  <1>1. /\ tokens' = Trimmed(cached)
        /\ ledger' = [s \in DOMAIN ledger \cup {new} |->
                         IF s = new THEN [issued |-> clock, used |-> clock] ELSE ledger[s]]
    BY DEF Remember, Put
  <1>2. /\ IsFiniteSet(DOMAIN ledger) /\ new \notin DOMAIN ledger
        /\ \E n \in Nat : DOMAIN ledger \cup {new} = 1 .. n
    BY NextSessionIsNew DEF KeptInv
  <1>3. /\ DOMAIN cached = DOMAIN Pruned(clock) \cup {new} /\ cached[new] = row
        /\ \A s \in DOMAIN Pruned(clock) : cached[s] = tokens[s]
    BY <1>2, PrunedTokens DEF Put, KeptInv, LedgerInv
  <1> HIDE DEF new, cached
  <1>4. /\ DOMAIN tokens' \subseteq DOMAIN cached
        /\ \A s \in DOMAIN tokens' : tokens'[s] = cached[s]
        /\ tokens' = [s \in DOMAIN tokens' |-> tokens'[s]]
    BY <1>1, TrimmedTokens DEF Trimmed, Restrict
  <1>5. \A s \in DOMAIN cached :
           /\ s \in DOMAIN ledger' /\ cached[s] \in [storedAt : Nat, lastAccessAt : Nat]
           /\ cached[s].storedAt = ledger'[s].issued /\ cached[s].lastAccessAt = ledger'[s].used
    BY <1>1, <1>2, <1>3, PrunedTokens DEF KeptInv, LedgerInv
  <1>6. LedgerInv'
    <2>1. \E n \in Nat : DOMAIN ledger' = 1 .. n
      BY <1>1, <1>2
    <2>2. /\ ledger' \in [DOMAIN ledger' -> [issued : Nat, used : Nat]]
          /\ \A s \in DOMAIN ledger' : ledger'[s].used <= clock
      BY <1>1, <1>2 DEF KeptInv, LedgerInv
    <2>3. tokens' \in [DOMAIN tokens' -> [storedAt : Nat, lastAccessAt : Nat]]
      BY <1>4, <1>5
    <2> QED BY <1>4, <1>5, <2>1, <2>2, <2>3 DEF KeptInv, LedgerInv
  <1>7. IsFiniteSet(DOMAIN ledger') /\ DOMAIN ledger' = DOMAIN ledger \cup {new}
    BY <1>1, <1>2, FS_AddElement
  <1>8. ASSUME NEW s \in DOMAIN ledger' \ DOMAIN tokens', clock - ledger'[s].issued <= TokenTtl
        PROVE  Cardinality({t \in DOMAIN ledger' \ {s} : ledger'[t].used >= ledger'[s].used}) >= MaxEntries
    <2>1. CASE s \in DOMAIN cached
      <3> DEFINE later == {t \in DOMAIN cached \ {s} : ~EvictedBefore(cached, t, s)}
                 used == {t \in DOMAIN ledger' \ {s} : ledger'[t].used >= ledger'[s].used}
      <3>1. IsFiniteSet(DOMAIN cached)
        BY <1>5, <1>7, FS_Subset
      <3>2. IsFiniteSet(later) /\ Cardinality(later) >= MaxEntries
        BY <1>1, <2>1, <3>1, TrimmedLeavesEnough
      <3>3. later \subseteq used
        BY <1>5, <2>1 DEF EvictedBefore
      <3>4. IsFiniteSet(used)
        BY <1>7, FS_Subset
      <3> HIDE DEF later, used
      <3>5. Cardinality(later) <= Cardinality(used) /\ Cardinality(later) \in Nat /\ Cardinality(used) \in Nat
        BY <3>2, <3>3, <3>4, FS_Subset, FS_CardinalityType
      <3>6. Cardinality(used) >= MaxEntries
        BY <3>2, <3>5, RestoreTokensAssumption
      <3> QED BY <3>6 DEF used
    <2>2. CASE s \notin DOMAIN cached
      <3>1. s \in DOMAIN ledger /\ s # new /\ s \notin DOMAIN Pruned(clock) /\ ledger'[s] = ledger[s]
        BY <1>1, <1>3, <1>7, <1>8, <2>2
      <3>2. s \notin DOMAIN tokens
        BY <1>8, <3>1 DEF Pruned, Restrict, KeptInv, LedgerInv
      <3>3. Cardinality(Later(s)) >= MaxEntries
        BY <1>8, <3>1, <3>2 DEF KeptInv, TokensKept, Later
      <3>4. \A t \in DOMAIN ledger : ledger'[t].used \in Nat /\ ledger'[t].used >= ledger[t].used
        BY <1>1, <1>2 DEF KeptInv, LedgerInv
      <3> QED BY <1>7, <3>1, <3>3, <3>4, LaterGrows DEF KeptInv
    <2> QED BY <2>1, <2>2
  <1> QED BY <1>6, <1>8 DEF KeptInv, TokensKept

LEMMA UseKeeps ==
    ASSUME KeptInv, NEW session, HasToken(session), UseToken(session), clock' = clock
    PROVE  KeptInv'
  <1>1. /\ tokens' = [Pruned(clock) EXCEPT ![session].lastAccessAt = clock]
        /\ ledger' = [ledger EXCEPT ![session].used = clock]
        /\ session \in DOMAIN Pruned(clock) /\ session \in DOMAIN ledger
    BY PrunedTokens DEF UseToken, HasToken, KeptInv, LedgerInv
  <1>2. /\ Pruned(clock) = [s \in DOMAIN Pruned(clock) |-> tokens[s]]
        /\ DOMAIN Pruned(clock) \subseteq DOMAIN tokens
    BY DEF Pruned, Restrict
  <1>3. DOMAIN tokens' = DOMAIN Pruned(clock) /\ DOMAIN ledger' = DOMAIN ledger
    BY <1>1
  <1>4. /\ \A s \in DOMAIN ledger \ {session} : ledger'[s] = ledger[s]
        /\ ledger'[session] = [issued |-> ledger[session].issued, used |-> clock]
    BY <1>1 DEF KeptInv, LedgerInv
  <1>5. /\ \A s \in DOMAIN tokens' \ {session} : tokens'[s] = tokens[s]
        /\ tokens'[session] = [storedAt |-> tokens[session].storedAt, lastAccessAt |-> clock]
        /\ tokens' = [s \in DOMAIN tokens' |-> tokens'[s]]
    <2> DEFINE kept == Pruned(clock)
    <2>1. kept[session] = tokens[session] /\ tokens[session] \in [storedAt : Nat, lastAccessAt : Nat]
      BY <1>1, PrunedTokens DEF KeptInv, LedgerInv
    <2>2. \A s \in DOMAIN kept : kept[s] = tokens[s]
      BY PrunedTokens
    <2>3. tokens' = [kept EXCEPT ![session].lastAccessAt = clock] /\ session \in DOMAIN kept
      BY <1>1
    <2> HIDE DEF kept
    <2>4. tokens' = [s \in DOMAIN kept |-> IF s = session THEN [kept[session] EXCEPT !.lastAccessAt = clock] ELSE kept[s]]
      BY <2>3
    <2>5. [kept[session] EXCEPT !.lastAccessAt = clock]
             = [storedAt |-> tokens[session].storedAt, lastAccessAt |-> clock]
      BY <2>1
    <2> QED BY <2>2, <2>3, <2>4, <2>5
  <1>6. LedgerInv'
    <2>1. /\ ledger' \in [DOMAIN ledger' -> [issued : Nat, used : Nat]]
          /\ \A s \in DOMAIN ledger' : ledger'[s].used <= clock
      BY <1>1, <1>3, <1>4 DEF KeptInv, LedgerInv
    <2>2. tokens' \in [DOMAIN tokens' -> [storedAt : Nat, lastAccessAt : Nat]]
      BY <1>1, <1>2, <1>3, <1>5 DEF KeptInv, LedgerInv
    <2>3. \A s \in DOMAIN tokens' :
             tokens'[s].storedAt = ledger'[s].issued /\ tokens'[s].lastAccessAt = ledger'[s].used
      BY <1>1, <1>2, <1>3, <1>4, <1>5 DEF KeptInv, LedgerInv
    <2> QED BY <1>2, <1>3, <2>1, <2>2, <2>3 DEF KeptInv, LedgerInv
  <1>7. IsFiniteSet(DOMAIN ledger)
    BY NextSessionIsNew DEF KeptInv
  <1>8. ASSUME NEW s \in DOMAIN ledger' \ DOMAIN tokens', clock - ledger'[s].issued <= TokenTtl
        PROVE  Cardinality({t \in DOMAIN ledger' \ {s} : ledger'[t].used >= ledger'[s].used}) >= MaxEntries
    <2>1. s \in DOMAIN ledger /\ s # session /\ ledger'[s] = ledger[s]
      BY <1>1, <1>3, <1>4, <1>8
    <2>2. s \notin DOMAIN tokens
      BY <1>3, <1>8, <2>1 DEF Pruned, Restrict, KeptInv, LedgerInv
    <2>3. Cardinality(Later(s)) >= MaxEntries
      BY <1>8, <2>1, <2>2 DEF KeptInv, TokensKept, Later
    <2>4. \A t \in DOMAIN ledger : ledger'[t].used \in Nat /\ ledger'[t].used >= ledger[t].used
      BY <1>4 DEF KeptInv, LedgerInv
    <2> QED BY <1>3, <1>7, <2>1, <2>3, <2>4, LaterGrows DEF KeptInv
  <1> QED BY <1>6, <1>8 DEF KeptInv, TokensKept

\* Where no use is recorded, tokens go only when their time is over.
LEMMA ExpiryKeeps ==
    ASSUME KeptInv, ledger' = ledger, clock' \in Nat, clock' >= clock,
           tokens' = tokens \/ tokens' = Pruned(clock')
    PROVE  KeptInv'
  <1>1. /\ DOMAIN tokens' \subseteq DOMAIN tokens
        /\ \A s \in DOMAIN tokens' : tokens'[s] = tokens[s]
        /\ tokens' = [s \in DOMAIN tokens' |-> tokens'[s]]
        /\ \A s \in DOMAIN tokens \ DOMAIN tokens' : ~(clock' - tokens[s].storedAt <= TokenTtl)
    BY DEF Pruned, Restrict, KeptInv, LedgerInv
  <1>2. LedgerInv'
    BY <1>1 DEF KeptInv, LedgerInv
  <1>3. ASSUME NEW s \in DOMAIN ledger \ DOMAIN tokens', clock' - ledger[s].issued <= TokenTtl
        PROVE  s \notin DOMAIN tokens /\ clock - ledger[s].issued <= TokenTtl
    BY <1>1, <1>3, RestoreTokensAssumption DEF KeptInv, LedgerInv
  <1> QED BY <1>2, <1>3 DEF KeptInv, TokensKept

LEMMA KeptStep == KeptInv /\ [WorkbenchNext]_vars => KeptInv'
  <1> SUFFICES ASSUME KeptInv, [WorkbenchNext]_vars
               PROVE  KeptInv'
    OBVIOUS
  <1> DEFINE Same == UNCHANGED <<clock, tokens, ledger>>
  <1>1. clock \in Nat
    BY DEF KeptInv, LedgerInv
  <1>2. ASSUME Same
        PROVE  KeptInv'
    BY <1>1, <1>2, ExpiryKeeps
  <1>3. ASSUME NEW text, UpdatePreview(text) \/ UpdateUploadPreview(text)
        PROVE  Same
    BY <1>3 DEF UpdatePreview, UpdateUploadPreview
  <1>4. ASSUME NEW job, TextAnswered(job) \/ UploadAnswered(job)
        PROVE  KeptInv'
    BY <1>4, RememberKeeps DEF TextAnswered, UploadAnswered, Answered, Settled
  <1>5. ASSUME NEW job, TextFailed(job) \/ UploadFailed(job)
        PROVE  Same
    BY <1>5 DEF TextFailed, UploadFailed, Settled
  <1>6. ASSUME NEW n, ComparisonEnds(n)
        PROVE  KeptInv'
    BY <1>2, <1>6, RememberKeeps DEF ComparisonEnds, PolicyEnds, tokenVars
  <1>7. ASSUME NEW which, RestoreWithoutToken(which)
        PROVE  KeptInv'
    BY <1>1, <1>7, ExpiryKeeps DEF RestoreWithoutToken, MissToken
  <1>8. ASSUME NEW which, RestoreTooLong(which) \/ SendRestore(which)
        PROVE  KeptInv'
    BY <1>8, UseKeeps DEF RestoreTooLong, SendRestore
  <1>9. ASSUME Tick
        PROVE  KeptInv'
    BY <1>1, <1>9, ExpiryKeeps DEF Tick
  <1>10. ASSUME NEW which, RestoreEnds(which) \/ LoadComparison \/ ClearComparison \/ UNCHANGED vars
         PROVE  Same
    BY <1>10 DEF RestoreEnds, LoadComparison, ClearComparison, vars
  <1> QED
    BY <1>2, <1>3, <1>4, <1>5, <1>6, <1>7, <1>8, <1>9, <1>10 DEF WorkbenchNext, PreviewEnds

\* A session that can be restored no longer, although its token's time is not
\* over, has lost it to MaxEntries others used at least as recently.
THEOREM EvictionIsByUse == WorkbenchSpec => []TokensKept
  <1>1. WorkbenchInit => KeptInv
    <2>1. DOMAIN NoTokens = 1 .. 0
      BY DEF NoTokens
    <2> QED BY <2>1 DEF WorkbenchInit, TokensInit, NoTokens, KeptInv, LedgerInv, TokensKept
  <1>2. KeptInv => TokensKept
    BY DEF KeptInv
  <1> QED BY <1>1, <1>2, KeptStep, PTL DEF WorkbenchSpec

-----------------------------------------------------------------------------
(* The bounds.  That the Map never holds more than MaxEntries tokens is in *)
(* what trimming leaves: the order of eviction ranks the tokens without a  *)
(* tie, and only the last MaxEntries ranks stay.                           *)

LEMMA TrimmedSize ==
    ASSUME NEW cached, IsFiniteSet(DOMAIN cached), DOMAIN cached \subseteq Nat,
           \A s \in DOMAIN cached : cached[s].lastAccessAt \in Nat
    PROVE  Cardinality(DOMAIN Trimmed(cached)) <= MaxEntries
  <1> DEFINE D == DOMAIN cached
             R == {pair \in D \X D : EvictedBefore(cached, pair[1], pair[2])}
             rank == RankOf(D, R)
             n == Cardinality(D)
             kept == DOMAIN Trimmed(cached)
  <1>1. n \in Nat /\ MaxEntries \in Nat /\ MaxEntries # 0
    BY FS_CardinalityType, RestoreTokensAssumption
  <1>2. StrictOrder(D, R)
    BY DEF StrictOrder, EvictedBefore
  <1>3. rank \in Bijection(D, 0..(n - 1))
    BY <1>2, RankFacts
  <1>4. ASSUME NEW s \in kept
        PROVE  s \in D /\ rank[s] >= n - MaxEntries
    <2>1. s \in D /\ Cardinality({t \in D : EvictedBefore(cached, t, s)}) >= n - MaxEntries
      BY DEF Trimmed, Restrict
    <2>2. {t \in D : EvictedBefore(cached, t, s)} = {t \in D : <<t, s>> \in R}
      BY <2>1
    <2> QED BY <2>1, <2>2 DEF RankOf
  <1> HIDE DEF rank, kept, D, R
  <1>5. CASE n <= MaxEntries
    <2>1. kept \in SUBSET D /\ IsFiniteSet(D)
      BY <1>4 DEF D
    <2>2. Cardinality(kept) <= n /\ Cardinality(kept) \in Nat
      BY <2>1, FS_Subset, FS_CardinalityType
    <2>3. Cardinality(kept) <= MaxEntries
      <3> HIDE DEF n
      <3> QED BY <1>1, <1>5, <2>2
    <2> QED BY <2>3 DEF kept
  <1>6. CASE ~(n <= MaxEntries)
    <2> DEFINE low == n - MaxEntries
               last == low..(n - 1)
               place == [s \in kept |-> rank[s]]
    <2>1. rank \in [D -> 0..(n - 1)] /\ \A s, t \in D : rank[s] = rank[t] => s = t
      BY <1>3 DEF Bijection, Injection, IsInjective
    <2>2. low \in Nat /\ low <= n - 1
      <3> HIDE DEF n
      <3> QED BY <1>1, <1>6
    <2>3. ASSUME NEW s \in kept
          PROVE  rank[s] \in last
      <3>1. rank[s] \in 0..(n - 1) /\ rank[s] >= low
        BY <1>4, <2>1
      <3> HIDE DEF low, n
      <3> QED BY <1>1, <2>2, <3>1
    <2>4. place \in Injection(kept, last)
      <3> HIDE DEF last
      <3>1. place \in [kept -> last]
        BY <2>3
      <3>2. \A s, t \in kept : place[s] = place[t] => s = t
        BY <1>4, <2>1
      <3> QED BY <3>1, <3>2 DEF Injection, IsInjective
    <2>5. IsFiniteSet(last) /\ Cardinality(last) = MaxEntries
      <3>1. n - 1 \in Int /\ low \in Int /\ ~(low > n - 1) /\ n - 1 - low + 1 = MaxEntries
        <4> HIDE DEF n
        <4> QED BY <1>1, <2>2
      <3> HIDE DEF low, n
      <3>2. /\ IsFiniteSet(last)
            /\ Cardinality(last) = IF low > n - 1 THEN 0 ELSE n - 1 - low + 1
        BY <3>1, FS_Interval
      <3> QED BY <3>1, <3>2
    <2>6. Cardinality(kept) <= MaxEntries
      <3> HIDE DEF place, last
      <3> QED BY <2>4, <2>5, FS_Injection
    <2> QED BY <2>6 DEF kept
  <1> QED BY <1>5, <1>6

\* What RememberKeeps has of the Map before it is trimmed.
LEMMA RememberFits ==
    ASSUME LedgerInv, Remember(NextSession)
    PROVE  /\ Cardinality(DOMAIN tokens') <= MaxEntries
           /\ DOMAIN tokens' \subseteq DOMAIN ledger'
  <1> DEFINE row == [storedAt |-> clock, lastAccessAt |-> clock]
             cached == Put(Pruned(clock), NextSession, row)
  <1>1. tokens' = Trimmed(cached) /\ DOMAIN ledger' = DOMAIN ledger \cup {NextSession}
    BY DEF Remember, Put
  <1>2. /\ IsFiniteSet(DOMAIN ledger) /\ \E n \in Nat : DOMAIN ledger \cup {NextSession} = 1 .. n
    BY NextSessionIsNew
  <1>3. /\ DOMAIN cached = DOMAIN Pruned(clock) \cup {NextSession}
        /\ \A s \in DOMAIN cached : cached[s] = IF s = NextSession THEN row ELSE tokens[s]
    BY PrunedTokens DEF Put
  <1>4. DOMAIN cached \subseteq DOMAIN ledger \cup {NextSession}
    BY <1>3, PrunedTokens DEF LedgerInv
  <1>5. \A s \in DOMAIN cached : cached[s].lastAccessAt \in Nat
    BY <1>3, PrunedTokens DEF LedgerInv
  <1> HIDE DEF cached
  <1>6. IsFiniteSet(DOMAIN cached)
    <2>1. IsFiniteSet(DOMAIN ledger \cup {NextSession})
      BY <1>2, FS_AddElement
    <2> QED BY <1>4, <2>1, FS_Subset
  <1>7. DOMAIN cached \subseteq Nat
    BY <1>2, <1>4
  <1>8. Cardinality(DOMAIN Trimmed(cached)) <= MaxEntries
    BY <1>5, <1>6, <1>7, TrimmedSize
  <1>9. DOMAIN Trimmed(cached) \subseteq DOMAIN cached
    BY TrimmedTokens
  <1> QED BY <1>1, <1>4, <1>8, <1>9

\* The part of the type invariant that is about the Map, and the rest of it.
TokensFit == DOMAIN tokens \subseteq DOMAIN ledger /\ Cardinality(DOMAIN tokens) <= MaxEntries

PageTyped ==
    /\ clock \in 0 .. MaxTime /\ minimized \in BOOLEAN
    /\ preview \in [session : 0 .. MaxSessions, text : Texts \cup {Empty}, of : Texts \cup {Empty}]
    /\ originalText \in Texts \cup {Empty}
    /\ isLoading \in BOOLEAN
    /\ pending \subseteq [kind : {"text", "upload"}, text : Texts \cup {Empty}]
    /\ restoring \subseteq Panels

LEMMA TokensFitStep == KeptInv /\ TokensFit /\ [WorkbenchNext]_vars => TokensFit'
  <1> SUFFICES ASSUME KeptInv, TokensFit, [WorkbenchNext]_vars
               PROVE  TokensFit'
    OBVIOUS
  <1>1. ASSUME DOMAIN tokens' \subseteq DOMAIN tokens, DOMAIN ledger' = DOMAIN ledger
        PROVE  TokensFit'
    <2>1. IsFiniteSet(DOMAIN tokens)
      BY NextSessionIsNew, FS_Subset DEF KeptInv, TokensFit
    <2>2. /\ Cardinality(DOMAIN tokens') <= Cardinality(DOMAIN tokens)
          /\ Cardinality(DOMAIN tokens') \in Nat /\ Cardinality(DOMAIN tokens) \in Nat
      BY <1>1, <2>1, FS_Subset, FS_CardinalityType
    <2>3. Cardinality(DOMAIN tokens') <= MaxEntries
      BY <2>2, RestoreTokensAssumption DEF TokensFit
    <2> QED BY <1>1, <2>3 DEF TokensFit
  <1>2. ASSUME Remember(NextSession)
        PROVE  TokensFit'
    BY <1>2, RememberFits DEF KeptInv, TokensFit
  <1>3. ASSUME UNCHANGED tokenVars
        PROVE  TokensFit'
    BY <1>1, <1>3 DEF tokenVars
  <1>4. ASSUME NEW text, UpdatePreview(text) \/ UpdateUploadPreview(text)
        PROVE  UNCHANGED tokenVars
    BY <1>4 DEF UpdatePreview, UpdateUploadPreview, tokenVars
  <1>5. ASSUME PreviewEnds
        PROVE  UNCHANGED tokenVars \/ Remember(NextSession)
    BY <1>5 DEF PreviewEnds, TextAnswered, UploadAnswered, Answered, TextFailed, UploadFailed, tokenVars
  <1>6. ASSUME NEW n, ComparisonEnds(n)
        PROVE  UNCHANGED tokenVars \/ Remember(NextSession)
    BY <1>6 DEF ComparisonEnds
  <1>7. ASSUME NEW which, RestoreWithoutToken(which)
        PROVE  TokensFit'
    BY <1>1, <1>7, PrunedTokens DEF RestoreWithoutToken, MissToken
  <1>8. ASSUME NEW which, RestoreTooLong(which) \/ SendRestore(which)
        PROVE  TokensFit'
    <2>1. DOMAIN tokens' = DOMAIN Pruned(clock) /\ DOMAIN ledger' = DOMAIN ledger
      BY <1>8 DEF RestoreTooLong, SendRestore, UseToken
    <2> QED BY <1>1, <2>1, PrunedTokens
  <1>9. ASSUME NEW which,
               RestoreEnds(which) \/ Tick \/ LoadComparison \/ ClearComparison \/ UNCHANGED vars
        PROVE  UNCHANGED tokenVars
    BY <1>9 DEF RestoreEnds, Tick, LoadComparison, ClearComparison, vars, tokenVars
  <1> QED BY <1>2, <1>3, <1>4, <1>5, <1>6, <1>7, <1>8, <1>9 DEF WorkbenchNext

LEMMA PageTypedStep == LedgerInv /\ PageTyped /\ [WorkbenchNext]_vars => PageTyped'
  <1> SUFFICES ASSUME LedgerInv, PageTyped, [WorkbenchNext]_vars
               PROVE  PageTyped'
    OBVIOUS
  <1> DEFINE Shown == Texts \cup {Empty}
  <1>1. ASSUME NEW text \in Shown, UpdatePreview(text) \/ UpdateUploadPreview(text)
        PROVE  PageTyped'
    <2>1. PICK kind \in {"text", "upload"} : pending' = pending \cup {[kind |-> kind, text |-> text]}
      BY <1>1 DEF UpdatePreview, UpdateUploadPreview
    <2>2. pending' \subseteq [kind : {"text", "upload"}, text : Shown]
      BY <2>1 DEF PageTyped
    <2>3. /\ isLoading' = TRUE /\ UNCHANGED <<clock, minimized, preview, restoring>>
          /\ originalText' \in {text, originalText}
      BY <1>1 DEF UpdatePreview, UpdateUploadPreview
    <2> QED BY <2>2, <2>3 DEF PageTyped
  <1>2. ASSUME NEW job \in pending, Settled(job), preview' \in [session : 0 .. MaxSessions, text : Shown, of : Shown],
               originalText' \in Shown
        PROVE  PageTyped'
    <2>1. /\ pending' \subseteq pending /\ isLoading' = FALSE
          /\ UNCHANGED <<clock, minimized, restoring>>
      BY <1>2 DEF Settled
    <2> QED BY <1>2, <2>1 DEF PageTyped
  <1>3. ASSUME NEW job \in pending, Answered(job)
        PROVE  preview' \in [session : 0 .. MaxSessions, text : Shown, of : Shown] /\ preview'.text \in Shown
    <2>1. NextSession \in 0 .. MaxSessions
      <3>1. NextSession \in Nat
        BY NextSessionIsNew, FS_CardinalityType DEF NextSession
      <3> QED BY <1>3, <3>1, WorkbenchAssumption DEF Answered, MayOpenSession
    <2>2. job.text \in Shown /\ (IF minimized THEN Empty ELSE job.text) \in Shown
      BY DEF PageTyped
    <2> HIDE DEF Shown
    <2> QED BY <1>3, <2>1, <2>2 DEF Answered
  <1>4. ASSUME NEW job \in pending, TextAnswered(job) \/ UploadAnswered(job)
        PROVE  PageTyped'
    <2>1. Answered(job) /\ Settled(job) /\ originalText' \in {originalText, preview'.text}
      BY <1>4 DEF TextAnswered, UploadAnswered
    <2>2. originalText' \in Shown
      BY <1>3, <2>1 DEF PageTyped
    <2> QED BY <1>2, <1>3, <2>1, <2>2
  <1>5. ASSUME NEW job \in pending, TextFailed(job) \/ UploadFailed(job)
        PROVE  PageTyped'
    <2>1. Settled(job) /\ originalText' = originalText /\ preview' \in {preview, Mock(job.text)}
      BY <1>5 DEF TextFailed, UploadFailed
    <2>2. job.text \in Shown /\ 0 \in 0 .. MaxSessions
      BY WorkbenchAssumption DEF PageTyped
    <2>3. Mock(job.text) \in [session : 0 .. MaxSessions, text : Shown, of : Shown]
      BY <2>2 DEF Mock
    <2> QED BY <1>2, <2>1, <2>3 DEF PageTyped
  <1>6. ASSUME NEW n, LoadComparison \/ ClearComparison \/ ComparisonEnds(n) \/ UNCHANGED vars
        PROVE  PageTyped'
    BY <1>6 DEF LoadComparison, ClearComparison, ComparisonEnds, PolicyEnds, vars, pageVars, PageTyped
  <1>7. ASSUME NEW which \in Panels,
               RestoreWithoutToken(which) \/ RestoreTooLong(which) \/ SendRestore(which) \/ RestoreEnds(which)
        PROVE  PageTyped'
    BY <1>7 DEF RestoreWithoutToken, RestoreTooLong, SendRestore, RestoreEnds, pageVars, PageTyped
  <1>8. ASSUME Tick
        PROVE  PageTyped'
    BY <1>8, WorkbenchAssumption DEF Tick, pageVars, PageTyped
  <1> QED BY <1>1, <1>4, <1>5, <1>6, <1>7, <1>8 DEF WorkbenchNext, PreviewEnds

\* The state has its type; the part that takes an argument is the size of the
\* Map, which the order of eviction keeps within its limit.
THEOREM StateHasItsType == WorkbenchSpec => []WorkbenchTypeOK
  <1>1. WorkbenchInit => KeptInv /\ TokensFit /\ PageTyped
    <2> SUFFICES ASSUME WorkbenchInit
                 PROVE  KeptInv /\ TokensFit /\ PageTyped
      OBVIOUS
    <2>1. DOMAIN NoTokens = {} /\ DOMAIN NoTokens = 1 .. 0
      BY DEF NoTokens
    <2>2. KeptInv
      BY <2>1 DEF WorkbenchInit, TokensInit, NoTokens, KeptInv, LedgerInv, TokensKept
    <2>3. TokensFit
      <3>1. tokens = NoTokens /\ ledger = NoTokens
        BY DEF WorkbenchInit, TokensInit
      <3> QED BY <2>1, <3>1, FS_EmptySet, RestoreTokensAssumption DEF TokensFit
    <2>4. PageTyped
      BY WorkbenchAssumption DEF WorkbenchInit, TokensInit, PageTyped, Mock
    <2> QED BY <2>2, <2>3, <2>4
  <1>2. CompareInv /\ TokensFit /\ PageTyped => WorkbenchTypeOK
    <2> SUFFICES ASSUME CompareInv, TokensFit, PageTyped
                 PROVE  WorkbenchTypeOK
      OBVIOUS
    <2>1. \A n \in DOMAIN comparing :
              comparing[n] \in [source : Texts, answered : {0, 1}]
      BY DEF CompareInv, Jobs
    <2> QED BY <2>1 DEF CompareInv, TokensFit, PageTyped, WorkbenchTypeOK
  <1>3. KeptInv => LedgerInv
    BY DEF KeptInv
  <1> QED
    BY <1>1, <1>2, <1>3, CompareInvHolds, KeptStep, TokensFitStep, PageTypedStep, PTL
    DEF WorkbenchSpec
====================================================================================
