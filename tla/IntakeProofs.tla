------------------------------- MODULE IntakeProofs -------------------------------
(***************************************************************************)
(* Slots, temporary files, the transcriber's model, and the limits of an   *)
(* upload, for any requests, documents and limits.                         *)
(***************************************************************************)
EXTENDS UploadIntake, Foundations

Idle == {"idle", "answered"}
Working == Stages \ Idle
WithTemp == {"rendering", "recognizing", "retrying", "probing", "transcribing"}

Busy == {r \in Requests : stage[r] \notin Idle}
Loading == {r \in Requests : stage[r] = "loading"}

Staged == stage \in [Requests -> Stages]

\* Where the worker thread leaves a request by an exception.
Failed == {"raised", "refused", "unsupported"}

LEMMA FailedStages == DOMAIN Thrown = Failed
  BY DEF Thrown, Failed

-----------------------------------------------------------------------------
(* What a step does to the slots and to the model: one request moves, in   *)
(* one of few ways.                                                        *)

Moves(r, next) == stage' = [stage EXCEPT ![r] = next]

Enter(r) ==
    /\ stage[r] = "idle" /\ Moves(r, "reading")
    /\ active < MaxConcurrency /\ active' = active + 1
    /\ UNCHANGED modelVars

Leave(r) ==
    /\ stage[r] \in Working \ {"loading"} /\ Moves(r, "answered")
    /\ active' = IF active > 0 THEN active - 1 ELSE active
    /\ UNCHANGED modelVars

Aside(r) ==
    /\ stage[r] \in Idle /\ \E next \in Idle : Moves(r, next)
    /\ UNCHANGED <<active, modelVars>>

Proceed(r) ==
    /\ stage[r] \in Working \ {"loading"} /\ \E next \in Working \ {"loading"} : Moves(r, next)
    /\ UNCHANGED <<active, modelVars>>

Look(r) ==
    /\ stage[r] \in Working \ {"loading"} /\ Moves(r, "loading")
    /\ ~model
    /\ UNCHANGED <<active, modelVars>>

Load(r) ==
    /\ stage[r] = "loading" /\ Moves(r, "writing")
    /\ model' = TRUE /\ loads' = loads + 1
    /\ UNCHANGED active

Fail(r) ==
    /\ stage[r] = "loading" /\ \E next \in Failed : Moves(r, next)
    /\ UNCHANGED <<active, modelVars>>

Still == UNCHANGED <<stage, active, modelVars>>

Turn(r) ==
    Enter(r) \/ Leave(r) \/ Aside(r) \/ Proceed(r) \/ Look(r) \/ Load(r) \/ Fail(r) \/ Still

LEMMA OcrTurn ==
    ASSUME NEW r \in Requests, Ocr(r)
    PROVE  Turn(r)
  <1>1. ASSUME NEW images, RenderPages(r, images)
        PROVE  Turn(r)
    BY <1>1 DEF RenderPages, EndOcr, Answer, Turn, Leave, Proceed, Moves, Working, Stages, Idle, modelVars
  <1>2. ASSUME NEW outcome, RenderingFails(r, outcome)
        PROVE  Turn(r)
    BY <1>2 DEF RenderingFails, EndOcr, Answer, Turn, Leave, Moves, Working, Stages, Idle, modelVars
  <1>3. CASE RecognizePage(r)
    BY <1>3 DEF RecognizePage, Turn, Proceed, Moves, Working, Stages, Idle, modelVars
  <1>4. ASSUME NEW outcome, RecognitionFails(r, outcome)
        PROVE  Turn(r)
    BY <1>4 DEF RecognitionFails, EndOcr, Answer, Turn, Leave, Proceed, Moves, Working, Stages, Idle, modelVars
  <1>5. CASE FinishOcr(r)
    BY <1>5 DEF FinishOcr, EndOcr, Answer, Turn, Leave, Moves, Working, Stages, Idle, modelVars
  <1> QED BY <1>1, <1>2, <1>3, <1>4, <1>5 DEF Ocr

LEMMA AudioTurn ==
    ASSUME NEW r \in Requests, Audio(r)
    PROVE  Turn(r)
  <1>1. CASE ValidateAudio(r)
    BY <1>1 DEF ValidateAudio, ReadToEnd, StartTranscribing, Answer, GoOn, Turn, Leave, Proceed, Moves,
                Working, Stages, Idle, modelVars
  <1>2. ASSUME NEW outcome, ProbeDuration(r, outcome)
        PROVE  Turn(r)
    BY <1>2 DEF ProbeDuration, StartTranscribing, Answer, GoOn, Turn, Leave, Proceed, Moves,
                Working, Stages, Idle, modelVars
  <1>3. CASE ProbeFileFails(r)
    BY <1>3 DEF ProbeFileFails, Answer, Turn, Leave, Moves, Working, Stages, Idle, modelVars
  <1>4. CASE LookForModel(r)
    BY <1>4 DEF LookForModel, ThreadStep, Turn, Look, Proceed, Moves, Working, Stages, Idle, modelVars
  <1>5. CASE LoadModel(r)
    BY <1>5 DEF LoadModel, ThreadStep, Turn, Load, Moves, modelVars
  <1>6. ASSUME NEW next \in Failed, LoadingFails(r, next)
        PROVE  Turn(r)
    BY <1>6 DEF LoadingFails, ThreadStep, Turn, Fail, Moves, modelVars
  <1>7. CASE WriteAudio(r) \/ WritingFails(r)
    BY <1>7 DEF WriteAudio, WritingFails, ThreadStep, Turn, Proceed, Moves, Working, Stages, Idle, modelVars
  <1>8. ASSUME NEW next \in Failed \cup {"transcribed"}, RunModel(r, next)
        PROVE  Turn(r)
    BY <1>8 DEF Failed, RunModel, ThreadStep, Turn, Proceed, Moves, Working, Stages, Idle, modelVars
  <1>9. CASE Resume(r)
    BY <1>9, FailedStages DEF Failed, Resume, Answer, Turn, Leave, Moves, Working, Stages, Idle, modelVars
  <1> QED BY <1>1, <1>2, <1>3, <1>4, <1>5, <1>6, <1>7, <1>8, <1>9, FailedStages DEF Audio

LEMMA EveryTurn ==
    ASSUME [IntakeNext]_vars
    PROVE  (\E r \in Requests : Turn(r)) \/ Still
  <1>1. ASSUME NEW r \in Requests, Refuse(r)
        PROVE  Turn(r)
    BY <1>1 DEF Refuse, Turn, Aside, Moves, Idle, modelVars
  <1>2. ASSUME NEW r \in Requests, NEW doc, Admit(r, doc)
        PROVE  Turn(r)
    BY <1>2 DEF Admit, Turn, Enter, Aside, Moves, Idle, modelVars
  <1>3. ASSUME NEW r \in Requests, NEW n, ReadChunk(r, n)
        PROVE  Turn(r)
    BY <1>3 DEF ReadChunk, Answer, Turn, Leave, Still, Moves, Working, Stages, Idle, modelVars
  <1>4. ASSUME NEW r \in Requests, ParseFile(r)
        PROVE  Turn(r)
    BY <1>4 DEF ParseFile, ReadToEnd, Answer, GoOn, Turn, Leave, Proceed, Moves, Working, Stages, Idle, modelVars
  <1>5. ASSUME NEW r \in Requests, Return(r)
        PROVE  Turn(r)
    BY <1>5 DEF Return, Turn, Aside, Moves, Idle, modelVars
  <1>6. CASE UNCHANGED vars
    BY <1>6 DEF vars, Still, modelVars
  <1> QED BY <1>1, <1>2, <1>3, <1>4, <1>5, <1>6, OcrTurn, AudioTurn DEF IntakeNext

-----------------------------------------------------------------------------
(* The slots that are taken, and the loads that are still possible.        *)

SlotsInv ==
    /\ Staged
    /\ active = Cardinality(Busy) /\ active <= MaxConcurrency
    /\ model \in BOOLEAN /\ loads \in Nat
    /\ ~model => loads = 0
    /\ loads + Cardinality(Loading) <= MaxConcurrency

LEMMA Counts ==
    ASSUME Staged
    PROVE  /\ IsFiniteSet(Busy) /\ Cardinality(Busy) \in Nat
           /\ IsFiniteSet(Loading) /\ Cardinality(Loading) \in Nat
           /\ Cardinality(Loading) <= Cardinality(Busy)
  <1>1. IsFiniteSet(Busy) /\ Loading \subseteq Busy
    <2>1. Busy \in SUBSET Requests /\ Loading \subseteq Busy
      BY DEF Busy, Loading, Idle
    <2> QED BY <2>1, FS_Subset, RequestsAssumption
  <1> QED BY <1>1, FS_Subset, FS_CardinalityType

LEMMA TurnInv ==
    ASSUME SlotsInv, NEW r \in Requests, Turn(r)
    PROVE  SlotsInv'
  <1>1. /\ IsFiniteSet(Busy) /\ Cardinality(Busy) \in Nat
        /\ IsFiniteSet(Loading) /\ Cardinality(Loading) \in Nat
        /\ Cardinality(Loading) <= Cardinality(Busy)
        /\ stage \in [Requests -> Stages] /\ MaxConcurrency \in Nat
    BY Counts, BoundsAssumption DEF SlotsInv, Staged
  <1>2. Staged'
    BY <1>1 DEF Turn, Enter, Leave, Aside, Proceed, Look, Load, Fail, Failed, Still, Moves, Staged, Stages, Idle, Working
  <1>3. CASE Enter(r)
    <2>1. Busy' = Busy \cup {r} /\ r \notin Busy /\ Loading' = Loading
      BY <1>1, <1>3 DEF Enter, Moves, Busy, Loading, Idle
    <2>2. Cardinality(Busy') = Cardinality(Busy) + 1
      BY <1>1, <2>1, FS_AddElement
    <2> QED BY <1>1, <1>2, <1>3, <2>1, <2>2 DEF Enter, SlotsInv, modelVars
  <1>4. CASE Leave(r)
    <2>1. Busy' = Busy \ {r} /\ r \in Busy /\ Loading' = Loading
      BY <1>1, <1>4 DEF Leave, Moves, Busy, Loading, Idle, Working, Stages
    <2>2. Cardinality(Busy') = Cardinality(Busy) - 1
      BY <1>1, <2>1, FS_RemoveElement
    <2>3. Cardinality(Busy) > 0
      BY <1>1, <2>1, FS_EmptySet
    <2> QED BY <1>1, <1>2, <1>4, <2>1, <2>2, <2>3 DEF Leave, SlotsInv, modelVars
  <1>5. CASE Aside(r) \/ Proceed(r) \/ Still
    <2>1. Busy' = Busy /\ Loading' = Loading /\ UNCHANGED <<active, modelVars>>
      BY <1>1, <1>5 DEF Aside, Proceed, Still, Moves, Busy, Loading, Idle, Working, Stages
    <2> QED BY <1>2, <2>1 DEF SlotsInv, modelVars
  <1>6. CASE Look(r)
    <2>1. Busy' = Busy /\ UNCHANGED <<active, modelVars>> /\ ~model
      BY <1>1, <1>6 DEF Look, Moves, Busy, Idle, Working, Stages
    <2>2. Loading' \subseteq Busy'
      BY DEF Busy, Loading, Idle
    <2>3. Cardinality(Loading') <= Cardinality(Busy) /\ Cardinality(Loading') \in Nat
      BY <1>1, <2>1, <2>2, FS_Subset, FS_CardinalityType
    <2> QED BY <1>1, <1>2, <2>1, <2>3 DEF SlotsInv, modelVars
  <1>7. CASE Load(r) \/ Fail(r)
    <2>1. Busy' = Busy /\ Loading' = Loading \ {r} /\ r \in Loading /\ active' = active
      BY <1>1, <1>7 DEF Load, Fail, Failed, Moves, Busy, Loading, Idle
    <2>2. Cardinality(Loading') = Cardinality(Loading) - 1
      BY <1>1, <2>1, FS_RemoveElement
    <2>3. model' \in BOOLEAN /\ (~model' => loads' = 0)
      BY <1>7 DEF Load, Fail, SlotsInv, modelVars
    <2>4. loads' \in Nat /\ loads' <= loads + 1
      BY <1>7 DEF Load, Fail, SlotsInv, modelVars
    <2>5. /\ active' = Cardinality(Busy') /\ active' <= MaxConcurrency
          /\ loads' + Cardinality(Loading') <= MaxConcurrency
      BY <1>1, <2>1, <2>2, <2>4 DEF SlotsInv
    <2> QED BY <1>2, <2>3, <2>4, <2>5 DEF SlotsInv
  <1> QED BY <1>3, <1>4, <1>5, <1>6, <1>7 DEF Turn

LEMMA SlotsInvHolds == IntakeSpec => []SlotsInv
  <1>1. IntakeInit => SlotsInv
    <2> SUFFICES ASSUME IntakeInit
                 PROVE  SlotsInv
      OBVIOUS
    <2>1. Staged /\ Busy = {} /\ Loading = {}
      BY DEF IntakeInit, Staged, Busy, Loading, Stages, Idle
    <2>2. model \in BOOLEAN /\ (~model => loads = 0)
      BY DEF IntakeInit
    <2>3. Cardinality(Busy) = 0 /\ Cardinality(Loading) = 0 /\ active = 0 /\ loads = 0
      BY <2>1, FS_EmptySet DEF IntakeInit
    <2> QED BY <2>1, <2>2, <2>3, BoundsAssumption DEF SlotsInv
  <1>2. SlotsInv /\ [IntakeNext]_vars => SlotsInv'
    <2> SUFFICES ASSUME SlotsInv, [IntakeNext]_vars
                 PROVE  SlotsInv'
      OBVIOUS
    <2>1. CASE Still
      BY <2>1 DEF Still, SlotsInv, Staged, Busy, Loading, modelVars
    <2> QED BY <2>1, EveryTurn, TurnInv
  <1> QED BY <1>1, <1>2, PTL DEF IntakeSpec

\* Without a lock around it the model is loaded at most once for each upload
\* that may be processed together, and not at all once it is there.
THEOREM ModelLoadsAreBounded == IntakeSpec => []LoadsBounded
  <1>1. SlotsInv => LoadsBounded
    BY Counts, BoundsAssumption DEF SlotsInv, LoadsBounded
  <1> QED BY <1>1, SlotsInvHolds, PTL

-----------------------------------------------------------------------------
(* Temporary files: a request has one only while it is where one is needed. *)

TempsInv == Staged /\ NoTempLeft

\* Request r goes on to another stage, and has a temporary file only if that
\* stage needs one.
LEMMA TempsMove ==
    ASSUME TempsInv, NEW r \in Requests, NEW next \in Stages, Moves(r, next),
           temps' \subseteq temps \cup {r, Nobody}, r \in temps' => next \in WithTemp
    PROVE  TempsInv'
  BY DEF TempsInv, Staged, NoTempLeft, Moves, WithTemp

LEMMA OcrTemps ==
    ASSUME TempsInv, NEW r \in Requests, Ocr(r)
    PROVE  TempsInv'
  <1> DEFINE Done == Moves(r, "answered") /\ temps' = temps \ {r}
             OnIn(next) == Moves(r, next) /\ temps' = temps
  <1>1. ASSUME Done \/ OnIn("recognizing") \/ OnIn("retrying")
        PROVE  TempsInv'
    BY <1>1, TempsMove DEF Stages, WithTemp
  <1>2. ASSUME NEW images, RenderPages(r, images)
        PROVE  Done \/ OnIn("recognizing")
    BY <1>2 DEF RenderPages, EndOcr, Answer, Moves
  <1>3. ASSUME NEW outcome, RenderingFails(r, outcome)
        PROVE  Done
    BY <1>3 DEF RenderingFails, EndOcr, Answer, Moves
  <1>4. ASSUME RecognizePage(r)
        PROVE  OnIn("recognizing")
    BY <1>4 DEF RecognizePage, Moves
  <1>5. ASSUME NEW outcome, RecognitionFails(r, outcome)
        PROVE  Done \/ OnIn("retrying")
    BY <1>5 DEF RecognitionFails, EndOcr, Answer, Moves
  <1>6. ASSUME FinishOcr(r)
        PROVE  Done
    BY <1>6 DEF FinishOcr, EndOcr, Answer, Moves
  <1> QED BY <1>1, <1>2, <1>3, <1>4, <1>5, <1>6 DEF Ocr

\* A request that is where no file is needed has none.
LEMMA NoTempOf ==
    ASSUME TempsInv, NEW r \in Requests, stage[r] \notin WithTemp
    PROVE  r \notin temps
  BY RequestsAssumption DEF TempsInv, NoTempLeft, WithTemp

LEMMA AudioTemps ==
    ASSUME TempsInv, NEW r \in Requests, Audio(r)
    PROVE  TempsInv'
  <1> DEFINE Went(next) == Moves(r, next) /\ r \notin temps' /\ temps' \subseteq temps \cup {Nobody}
  <1>1. ASSUME NEW next \in Stages, Went(next)
        PROVE  TempsInv'
    BY <1>1, TempsMove
  <1>2. CASE ValidateAudio(r)
    <2>1. r \notin temps
      BY <1>2, NoTempOf DEF ValidateAudio, ReadToEnd, WithTemp
    <2>2. Went("answered") \/ Went("model") \/ (Moves(r, "probing") /\ temps' \subseteq temps \cup {r})
      BY <1>2, <2>1 DEF ValidateAudio, StartTranscribing, Answer, GoOn, Moves
    <2> QED BY <1>1, <2>2, TempsMove DEF Stages, WithTemp
  <1>3. ASSUME NEW outcome, ProbeDuration(r, outcome)
        PROVE  Went("answered") \/ Went("model")
    BY <1>3 DEF ProbeDuration, StartTranscribing, Answer, GoOn, Moves
  <1>4. ASSUME ProbeFileFails(r)
        PROVE  Went("answered")
    BY <1>4, RequestsAssumption DEF ProbeFileFails, Answer, Moves
  <1>5. ASSUME LookForModel(r) \/ LoadModel(r) \/ WritingFails(r)
        PROVE  Went("writing") \/ Went("loading") \/ Went("raised")
    <2>1. r \notin temps
      BY <1>5, NoTempOf DEF LookForModel, LoadModel, WritingFails, ThreadStep, WithTemp
    <2> QED BY <1>5, <2>1, RequestsAssumption DEF LookForModel, LoadModel, WritingFails, ThreadStep, Moves
  <1>9. ASSUME NEW next \in Failed, LoadingFails(r, next)
        PROVE  Went(next)
    <2>1. r \notin temps
      BY <1>9, NoTempOf DEF LoadingFails, ThreadStep, WithTemp
    <2> QED BY <1>9, <2>1 DEF LoadingFails, ThreadStep, Moves
  <1>6. CASE WriteAudio(r)
    BY <1>6, TempsMove DEF WriteAudio, ThreadStep, Moves, Stages, WithTemp
  <1>7. ASSUME NEW next \in Failed \cup {"transcribed"}, RunModel(r, next)
        PROVE  Went(next)
    BY <1>7 DEF RunModel, ThreadStep, Moves
  <1>8. ASSUME Resume(r)
        PROVE  Went("answered")
    <2>1. r \notin temps
      BY <1>8, NoTempOf, FailedStages DEF Resume, WithTemp, Failed
    <2> QED BY <1>8, <2>1 DEF Resume, Answer, Moves
  <1> QED
    BY <1>1, <1>2, <1>3, <1>4, <1>5, <1>6, <1>7, <1>8, <1>9, FailedStages DEF Audio, Stages, Failed

LEMMA TempsStep == TempsInv /\ [IntakeNext]_vars => TempsInv'
  <1> SUFFICES ASSUME TempsInv, [IntakeNext]_vars
               PROVE  TempsInv'
    OBVIOUS
  <1> DEFINE Went(r, next) == Moves(r, next) /\ r \notin temps /\ temps' = temps
  <1>1. ASSUME NEW r \in Requests, NEW next \in Stages, Went(r, next)
        PROVE  TempsInv'
    BY <1>1, TempsMove
  <1>2. ASSUME NEW r \in Requests, Refuse(r) \/ Return(r)
        PROVE  Went(r, "answered") \/ Went(r, "idle")
    <2>1. r \notin temps
      BY <1>2, NoTempOf DEF Refuse, Return, WithTemp
    <2> QED BY <1>2, <2>1 DEF Refuse, Return, Moves
  <1>3. ASSUME NEW r \in Requests, NEW doc, Admit(r, doc)
        PROVE  Went(r, "reading") \/ Went(r, "answered")
    <2>1. r \notin temps
      BY <1>3, NoTempOf DEF Admit, WithTemp
    <2> QED BY <1>3, <2>1 DEF Admit, Moves
  <1>4. ASSUME NEW r \in Requests, NEW n, ReadChunk(r, n)
        PROVE  Went(r, "answered") \/ UNCHANGED <<stage, temps>>
    <2>1. r \notin temps
      BY <1>4, NoTempOf DEF ReadChunk, WithTemp
    <2> QED BY <1>4, <2>1 DEF ReadChunk, Answer, Moves
  <1>5. ASSUME NEW r \in Requests, ParseFile(r)
        PROVE  Went(r, "answered") \/ (Moves(r, "rendering") /\ temps' = temps \cup {r})
    <2>1. r \notin temps
      BY <1>5, NoTempOf DEF ParseFile, ReadToEnd, WithTemp
    <2> QED BY <1>5, <2>1 DEF ParseFile, Answer, GoOn, Moves
  <1>6. ASSUME NEW r \in Requests, Moves(r, "rendering") /\ temps' = temps \cup {r}
        PROVE  TempsInv'
    BY <1>6, TempsMove DEF Stages, WithTemp
  <1>7. ASSUME UNCHANGED <<stage, temps>>
        PROVE  TempsInv'
    BY <1>7 DEF TempsInv, Staged, NoTempLeft
  <1>8. ASSUME UNCHANGED vars
        PROVE  TempsInv'
    BY <1>7, <1>8 DEF vars
  <1> QED
    BY <1>1, <1>2, <1>3, <1>4, <1>5, <1>6, <1>7, <1>8, OcrTemps, AudioTemps DEF IntakeNext, Stages

\* A temporary file that could be written, and the directory of the OCR, is gone
\* with the call that needed it, whether that ends with a text, an exception or a
\* timeout; what is left of a failed write is not spoken of.
THEOREM WrittenTempsGo == IntakeSpec => []NoTempLeft
  <1>1. IntakeInit => TempsInv
    BY DEF IntakeInit, TempsInv, Staged, NoTempLeft, Stages
  <1>2. TempsInv => NoTempLeft
    BY DEF TempsInv
  <1> QED BY <1>1, <1>2, TempsStep, PTL DEF IntakeSpec

-----------------------------------------------------------------------------
(* The checks of the parsers: the first condition that is true decides.    *)

LEMMA LeastIs ==
    ASSUME NEW T \in SUBSET Nat, T # {}
    PROVE  Min(T) \in T /\ \A m \in T : Min(T) <= m
  <1>1. \E x \in T : \A y \in T : x <= y
    BY LeastNat
  <1> QED BY <1>1 DEF Min

Failing(checks) == {i \in DOMAIN checks : checks[i][1]}

LEMMA RaisedFirst ==
    ASSUME NEW checks, NEW n \in Nat, DOMAIN checks = 1..n
    PROVE  \/ Failing(checks) = {} /\ Raised(checks) = "none"
           \/ \E i \in Failing(checks) :
                 Raised(checks) = checks[i][2] /\ \A j \in Failing(checks) : i <= j
  <1> DEFINE true == Failing(checks)
  <1>1. true \in SUBSET Nat
    BY DEF Failing
  <1>2. CASE true = {}
    BY <1>2 DEF Raised, Failing
  <1>3. CASE true # {}
    <2>1. Raised(checks) = checks[Min(true)][2]
      BY <1>3 DEF Raised, Failing
    <2> HIDE DEF true
    <2>2. Min(true) \in true /\ \A j \in true : Min(true) <= j
      BY <1>1, <1>3, LeastIs
    <2> QED BY <2>1, <2>2 DEF true
  <1> QED BY <1>2, <1>3

\* An entry of the archive is too big when it is unpacked.
BigEntry(doc) == \E i \in DOMAIN doc.entries : doc.entries[i] > MaxEntry

\* A text file.
LEMMA TextOutcome ==
    ASSUME NEW doc, NEW error, error = Raised(TextChecks(doc))
    PROVE  /\ error = "none" => ~(doc.chars > MaxChars)
           /\ doc.form # "bad" /\ doc.chars # 0 /\ doc.chars > MaxChars => error = "ProcessingLimit"
  <1> DEFINE checks == TextChecks(doc)
             fails == Failing(checks)
  <1>1. DOMAIN checks = 1..3
    BY DEF TextChecks, TextLimit
  <1>2. /\ checks[1][2] = "InvalidEncoding" /\ checks[2][2] = "EmptyFile" /\ checks[3][2] = "ProcessingLimit"
    BY DEF TextChecks, TextLimit
  <1>3. /\ 1 \in fails <=> doc.form = "bad"
        /\ 2 \in fails <=> doc.chars = 0
        /\ 3 \in fails <=> doc.chars > MaxChars
    <2>0. {1, 2, 3} \subseteq DOMAIN checks
      BY <1>1
    <2>1. checks[1][1] <=> doc.form = "bad"
      BY Zenon DEF TextChecks, TextLimit
    <2>2. checks[2][1] <=> doc.chars = 0
      BY Zenon DEF TextChecks, TextLimit
    <2>3. checks[3][1] <=> doc.chars > MaxChars
      BY Zenon DEF TextChecks, TextLimit
    <2> QED BY <2>0, <2>1, <2>2, <2>3, Zenon DEF Failing
  <1>4. fails \subseteq 1..3
    BY <1>1 DEF Failing
  <1>5. \/ fails = {} /\ error = "none"
        \/ \E i \in fails : error = checks[i][2] /\ \A j \in fails : i <= j
    <2> HIDE DEF checks
    <2> QED BY <1>1, RaisedFirst DEF checks
  <1> HIDE DEF fails, checks
  <1> QED BY <1>2, <1>3, <1>4, <1>5

\* A PDF, before OCR.
LEMMA PdfOutcome ==
    ASSUME NEW doc, NEW error, error = Raised(PdfChecks(doc))
    PROVE  /\ error = "none" => ~(doc.pages > MaxPages)
           /\ error = "none" /\ doc.form = "scanned" => ~(doc.pages > MaxOcrPages)
           /\ error = "none" /\ doc.form # "scanned" => ~(doc.chars > MaxChars)
           /\ doc.form \in {"ok", "scanned"} /\ doc.pages > MaxPages => error = "ProcessingLimit"
           /\ doc.form = "scanned" /\ doc.pages > MaxOcrPages => error = "ProcessingLimit"
           /\ doc.form = "ok" /\ doc.chars > MaxChars => error = "ProcessingLimit"
  <1> DEFINE checks == PdfChecks(doc)
             fails == Failing(checks)
  <1>1. DOMAIN checks = 1..6
    BY DEF PdfChecks
  <1>2. /\ checks[1][2] = "ValueError" /\ checks[2][2] = "OtherError" /\ checks[3][2] = "ProcessingLimit"
        /\ checks[4][2] = "ProcessingLimit" /\ checks[5][2] = "ValueError" /\ checks[6][2] = "ProcessingLimit"
    BY DEF PdfChecks
  <1>3. /\ 1 \in fails <=> doc.form \in {"bad", "encrypted"}
        /\ 2 \in fails <=> doc.form = "odd"
        /\ 3 \in fails <=> doc.pages > MaxPages
        /\ 4 \in fails <=> (doc.form = "scanned" /\ doc.pages > MaxOcrPages)
        /\ 5 \in fails <=> (doc.form = "scanned" /\ ~settings.tools)
        /\ 6 \in fails <=> (doc.form # "scanned" /\ doc.chars > MaxChars)
    <2>0. {1, 2, 3, 4, 5, 6} \subseteq DOMAIN checks
      BY <1>1
    <2>1. checks[1][1] <=> doc.form \in {"bad", "encrypted"}
      BY Zenon DEF PdfChecks
    <2>2. checks[2][1] <=> doc.form = "odd"
      BY Zenon DEF PdfChecks
    <2>3. checks[3][1] <=> doc.pages > MaxPages
      BY Zenon DEF PdfChecks
    <2>4. checks[4][1] <=> (doc.form = "scanned" /\ doc.pages > MaxOcrPages)
      BY Zenon DEF PdfChecks
    <2>5. checks[5][1] <=> (doc.form = "scanned" /\ ~settings.tools)
      BY Zenon DEF PdfChecks
    <2>6. checks[6][1] <=> (doc.form # "scanned" /\ doc.chars > MaxChars)
      BY Zenon DEF PdfChecks
    <2> QED BY <2>0, <2>1, <2>2, <2>3, <2>4, <2>5, <2>6, Zenon DEF Failing
  <1>4. fails \subseteq 1..6
    BY <1>1 DEF Failing
  <1>5. \/ fails = {} /\ error = "none"
        \/ \E i \in fails : error = checks[i][2] /\ \A j \in fails : i <= j
    <2> HIDE DEF checks
    <2> QED BY <1>1, RaisedFirst DEF checks
  <1> HIDE DEF fails, checks
  <1> QED BY <1>2, <1>3, <1>4, <1>5

\* The text that OCR has read.
LEMMA OcrTextOutcome ==
    ASSUME NEW doc, NEW error, error = Raised(OcrTextChecks(doc))
    PROVE  error = "none" => ~(doc.chars > MaxChars)
  <1> DEFINE checks == OcrTextChecks(doc)
             fails == Failing(checks)
  <1>1. DOMAIN checks = 1..2
    BY DEF OcrTextChecks, TextLimit
  <1>2. /\ checks[1][2] = "ValueError" /\ checks[2][2] = "ProcessingLimit"
    BY DEF OcrTextChecks, TextLimit
  <1>3. /\ 1 \in fails <=> doc.chars = 0
        /\ 2 \in fails <=> doc.chars > MaxChars
    <2>0. {1, 2} \subseteq DOMAIN checks
      BY <1>1
    <2>1. checks[1][1] <=> doc.chars = 0
      BY Zenon DEF OcrTextChecks, TextLimit
    <2>2. checks[2][1] <=> doc.chars > MaxChars
      BY Zenon DEF OcrTextChecks, TextLimit
    <2> QED BY <2>0, <2>1, <2>2, Zenon DEF Failing
  <1>4. fails \subseteq 1..2
    BY <1>1 DEF Failing
  <1>5. \/ fails = {} /\ error = "none"
        \/ \E i \in fails : error = checks[i][2] /\ \A j \in fails : i <= j
    <2> HIDE DEF checks
    <2> QED BY <1>1, RaisedFirst DEF checks
  <1> HIDE DEF fails, checks
  <1> QED BY <1>2, <1>3, <1>4, <1>5

\* A Word file.
LEMMA DocxOutcome ==
    ASSUME NEW doc, NEW error, error = Raised(DocxChecks(doc))
    PROVE  /\ error = "none" => ~BigEntry(doc) /\ ~(doc.chars > MaxChars)
           /\ doc.form \in {"ok", "scanned"} /\ doc.entries # <<>> /\ BigEntry(doc) => error = "ProcessingLimit"
           /\ doc.form = "ok" /\ doc.entries # <<>> /\ doc.chars # 0 /\ doc.chars > MaxChars => error = "ProcessingLimit"
  <1> DEFINE checks == DocxChecks(doc)
             fails == Failing(checks)
  <1>1. DOMAIN checks = 1..5
    BY DEF DocxChecks, TextLimit, BigEntry
  <1>2. /\ checks[1][2] = "ValueError" /\ checks[2][2] = "ProcessingLimit" /\ checks[3][2] = "OtherError"
        /\ checks[4][2] = "ValueError" /\ checks[5][2] = "ProcessingLimit"
    BY DEF DocxChecks, TextLimit, BigEntry
  <1>3. /\ 1 \in fails <=> (doc.form = "bad" \/ doc.entries = <<>>)
        /\ 2 \in fails <=> BigEntry(doc)
        /\ 3 \in fails <=> doc.form = "odd"
        /\ 4 \in fails <=> (doc.form = "badxml" \/ doc.chars = 0)
        /\ 5 \in fails <=> doc.chars > MaxChars
    <2>0. {1, 2, 3, 4, 5} \subseteq DOMAIN checks
      BY <1>1
    <2>1. checks[1][1] <=> (doc.form = "bad" \/ doc.entries = <<>>)
      BY Zenon DEF DocxChecks, TextLimit, BigEntry
    <2>2. checks[2][1] <=> BigEntry(doc)
      BY Zenon DEF DocxChecks, TextLimit, BigEntry
    <2>3. checks[3][1] <=> doc.form = "odd"
      BY Zenon DEF DocxChecks, TextLimit, BigEntry
    <2>4. checks[4][1] <=> (doc.form = "badxml" \/ doc.chars = 0)
      BY Zenon DEF DocxChecks, TextLimit, BigEntry
    <2>5. checks[5][1] <=> doc.chars > MaxChars
      BY Zenon DEF DocxChecks, TextLimit, BigEntry
    <2> QED BY <2>0, <2>1, <2>2, <2>3, <2>4, <2>5, Zenon DEF Failing
  <1>4. fails \subseteq 1..5
    BY <1>1 DEF Failing
  <1>5. \/ fails = {} /\ error = "none"
        \/ \E i \in fails : error = checks[i][2] /\ \A j \in fails : i <= j
    <2> HIDE DEF checks
    <2> QED BY <1>1, RaisedFirst DEF checks
  <1> HIDE DEF fails, checks
  <1> QED BY <1>2, <1>3, <1>4, <1>5

\* A Hangul file.
LEMMA HwpxOutcome ==
    ASSUME NEW doc, NEW error, error = Raised(HwpxChecks(doc))
    PROVE  /\ error = "none" => /\ ~(Len(doc.entries) > MaxSections) /\ ~BigEntry(doc)
                                 /\ ~(SumFunction(doc.entries) > MaxEntries) /\ ~(doc.chars > MaxChars)
           /\ /\ doc.form \in {"ok", "scanned"} /\ doc.entries # <<>>
              /\ Len(doc.entries) > MaxSections \/ BigEntry(doc) \/ SumFunction(doc.entries) > MaxEntries
              => error = "ProcessingLimit"
           /\ doc.form = "ok" /\ doc.entries # <<>> /\ doc.chars # 0 /\ doc.chars > MaxChars => error = "ProcessingLimit"
  <1> DEFINE checks == HwpxChecks(doc)
             fails == Failing(checks)
  <1>1. DOMAIN checks = 1..7
    BY DEF HwpxChecks, TextLimit, BigEntry
  <1>2. /\ checks[1][2] = "ValueError" /\ checks[2][2] = "ProcessingLimit" /\ checks[3][2] = "ProcessingLimit"
        /\ checks[4][2] = "ProcessingLimit" /\ checks[5][2] = "OtherError" /\ checks[6][2] = "ValueError"
        /\ checks[7][2] = "ProcessingLimit"
    BY DEF HwpxChecks, TextLimit, BigEntry
  <1>3. /\ 1 \in fails <=> (doc.form = "bad" \/ doc.entries = <<>>)
        /\ 2 \in fails <=> Len(doc.entries) > MaxSections
        /\ 3 \in fails <=> BigEntry(doc)
        /\ 4 \in fails <=> SumFunction(doc.entries) > MaxEntries
        /\ 5 \in fails <=> doc.form = "odd"
        /\ 6 \in fails <=> (doc.form = "badxml" \/ doc.chars = 0)
        /\ 7 \in fails <=> doc.chars > MaxChars
    <2>0. {1, 2, 3, 4, 5, 6, 7} \subseteq DOMAIN checks
      BY <1>1
    <2>1. checks[1][1] <=> (doc.form = "bad" \/ doc.entries = <<>>)
      BY Zenon DEF HwpxChecks, TextLimit, BigEntry
    <2>2. checks[2][1] <=> Len(doc.entries) > MaxSections
      BY Zenon DEF HwpxChecks, TextLimit, BigEntry
    <2>3. checks[3][1] <=> BigEntry(doc)
      BY Zenon DEF HwpxChecks, TextLimit, BigEntry
    <2>4. checks[4][1] <=> SumFunction(doc.entries) > MaxEntries
      BY Zenon DEF HwpxChecks, TextLimit, BigEntry
    <2>5. checks[5][1] <=> doc.form = "odd"
      BY Zenon DEF HwpxChecks, TextLimit, BigEntry
    <2>6. checks[6][1] <=> (doc.form = "badxml" \/ doc.chars = 0)
      BY Zenon DEF HwpxChecks, TextLimit, BigEntry
    <2>7. checks[7][1] <=> doc.chars > MaxChars
      BY Zenon DEF HwpxChecks, TextLimit, BigEntry
    <2> QED BY <2>0, <2>1, <2>2, <2>3, <2>4, <2>5, <2>6, <2>7, Zenon DEF Failing
  <1>4. fails \subseteq 1..7
    BY <1>1 DEF Failing
  <1>5. \/ fails = {} /\ error = "none"
        \/ \E i \in fails : error = checks[i][2] /\ \A j \in fails : i <= j
    <2> HIDE DEF checks
    <2> QED BY <1>1, RaisedFirst DEF checks
  <1> HIDE DEF fails, checks
  <1> QED BY <1>2, <1>3, <1>4, <1>5

\* A WAV file.
LEMMA WavOutcome ==
    ASSUME NEW doc, NEW error, error = Raised(DurationChecks(doc)), doc.kind = "wav"
    PROVE  /\ error = "none" => ~(doc.duration > MaxDuration)
           /\ doc.form # "bad" /\ doc.duration > MaxDuration => error = "ProcessingLimit"
  <1> DEFINE checks == DurationChecks(doc)
             fails == Failing(checks)
  <1>1. DOMAIN checks = 1..2
    BY DEF DurationChecks, DurationLimit
  <1>2. /\ checks[1][2] = "ValueError" /\ checks[2][2] = "ProcessingLimit"
    BY DEF DurationChecks, DurationLimit
  <1>3. /\ 1 \in fails <=> doc.form = "bad"
        /\ 2 \in fails <=> doc.duration > MaxDuration
    <2>0. {1, 2} \subseteq DOMAIN checks
      BY <1>1
    <2>1. checks[1][1] <=> doc.form = "bad"
      BY Zenon DEF DurationChecks, DurationLimit
    <2>2. checks[2][1] <=> doc.duration > MaxDuration
      BY Zenon DEF DurationChecks, DurationLimit
    <2> QED BY <2>0, <2>1, <2>2, Zenon DEF Failing
  <1>4. fails \subseteq 1..2
    BY <1>1 DEF Failing
  <1>5. \/ fails = {} /\ error = "none"
        \/ \E i \in fails : error = checks[i][2] /\ \A j \in fails : i <= j
    <2> HIDE DEF checks
    <2> QED BY <1>1, RaisedFirst DEF checks
  <1> HIDE DEF fails, checks
  <1> QED BY <1>2, <1>3, <1>4, <1>5

FileAnnounced(doc) ==
    <<<<doc.kind = "hwp", "Unsupported">>, <<~doc.typed, "Unsupported">>,
      <<doc.sized /\ doc.size > MaxBytes, "FileTooLarge">>>>

AudioAnnounced(doc) == <<<<~doc.typed, "ValueError">>, <<doc.sized /\ doc.size > MaxBytes, "ValueError">>>>

\* The announced size, for a file and for a recording.
LEMMA AnnouncedOutcome ==
    ASSUME NEW doc, NEW error, error = Raised(AnnouncedChecks(doc))
    PROVE  /\ error = "none" => doc.typed /\ doc.kind # "hwp"
           /\ doc.kind \in FileKinds \ {"hwp"} /\ doc.typed => error \in {"none", "FileTooLarge"}
           /\ doc.kind \notin FileKinds /\ doc.typed /\ ~(doc.size > MaxBytes) => error = "none"
  <1> DEFINE checks == AnnouncedChecks(doc)
             fails == Failing(checks)
  <1>1. CASE doc.kind \in FileKinds
    <2>1. checks = FileAnnounced(doc)
      BY <1>1 DEF AnnouncedChecks, FileAnnounced
    <2>2. DOMAIN checks = 1..3
      BY <2>1 DEF FileAnnounced
    <2>3. checks[1][2] = "Unsupported" /\ checks[2][2] = "Unsupported" /\ checks[3][2] = "FileTooLarge"
      BY <2>1 DEF FileAnnounced
    <2>4. /\ 1 \in fails <=> doc.kind = "hwp"
          /\ 2 \in fails <=> ~doc.typed
      <3>1. {1, 2} \subseteq DOMAIN checks
        BY <2>2
      <3>2. FileAnnounced(doc)[1][1] <=> doc.kind = "hwp"
        BY Zenon DEF FileAnnounced
      <3>3. FileAnnounced(doc)[2][1] <=> ~doc.typed
        BY Zenon DEF FileAnnounced
      <3> QED BY <2>1, <3>1, <3>2, <3>3, Zenon DEF Failing
    <2>5. fails \subseteq 1..3
      BY <2>2 DEF Failing
    <2>6. \/ fails = {} /\ error = "none"
          \/ \E i \in fails : error = checks[i][2] /\ \A j \in fails : i <= j
      <3> HIDE DEF checks
      <3> QED BY <2>2, RaisedFirst DEF checks
    <2> HIDE DEF fails, checks
    <2> QED BY <1>1, <2>3, <2>4, <2>5, <2>6
  <1>2. CASE doc.kind \notin FileKinds
    <2>1. checks = AudioAnnounced(doc)
      BY <1>2 DEF AnnouncedChecks, AudioAnnounced
    <2>2. DOMAIN checks = 1..2
      BY <2>1 DEF AudioAnnounced
    <2>3. checks[1][2] = "ValueError" /\ checks[2][2] = "ValueError"
      BY <2>1 DEF AudioAnnounced
    <2>4. /\ 1 \in fails <=> ~doc.typed
          /\ 2 \in fails <=> doc.sized /\ doc.size > MaxBytes
      <3>1. {1, 2} \subseteq DOMAIN checks
        BY <2>2
      <3>2. AudioAnnounced(doc)[1][1] <=> ~doc.typed
        BY Zenon DEF AudioAnnounced
      <3>3. AudioAnnounced(doc)[2][1] <=> doc.sized /\ doc.size > MaxBytes
        BY Zenon DEF AudioAnnounced
      <3> QED BY <2>1, <3>1, <3>2, <3>3, Zenon DEF Failing
    <2>5. fails \subseteq 1..2
      BY <2>2 DEF Failing
    <2>6. \/ fails = {} /\ error = "none"
          \/ \E i \in fails : error = checks[i][2] /\ \A j \in fails : i <= j
      <3> HIDE DEF checks
      <3> QED BY <2>2, RaisedFirst DEF checks
    <2>7. doc.kind # "hwp"
      BY <1>2 DEF FileKinds
    <2>8. doc.typed /\ ~(doc.size > MaxBytes) => fails = {}
      BY <2>4, <2>5
    <2> HIDE DEF fails, checks
    <2>9. fails = {} => error = "none"
      BY <2>6
    <2> QED BY <1>2, <2>3, <2>4, <2>5, <2>6, <2>7, <2>8, <2>9
  <1> QED BY <1>1, <1>2

\* What ffprobe has found.
LEMMA ProbeOutcome ==
    ASSUME NEW doc, NEW error, error = Raised(ProbedChecks(doc))
    PROVE  error = "none" => ~(doc.duration > MaxDuration)
  <1> DEFINE checks == ProbedChecks(doc)
             fails == Failing(checks)
  <1>1. DOMAIN checks = 1..2 /\ checks[1][2] = "ValueError" /\ checks[2][2] = "ProcessingLimit"
    BY DEF ProbedChecks, DurationLimit
  <1>2. 2 \in fails <=> doc.duration > MaxDuration
    <2>1. 2 \in DOMAIN checks
      BY <1>1
    <2>2. checks[2][1] <=> doc.duration > MaxDuration
      BY Zenon DEF ProbedChecks, DurationLimit
    <2> QED BY <2>1, <2>2, Zenon DEF Failing
  <1>3. fails \subseteq 1..2
    BY <1>1 DEF Failing
  <1>4. \/ fails = {} /\ error = "none"
        \/ \E i \in fails : error = checks[i][2] /\ \A j \in fails : i <= j
    <2> HIDE DEF checks
    <2> QED BY <1>1, RaisedFirst DEF checks
  <1> HIDE DEF fails, checks
  <1> QED BY <1>1, <1>2, <1>3, <1>4

-----------------------------------------------------------------------------
(* The clauses of the routes.                                              *)

LEMMA ClauseFacts ==
    ASSUME NEW kind, NEW error
    PROVE  /\ DOMAIN Clauses(kind) = 1..7
           /\ Fitting(kind, error) \in SUBSET (1..7)
           /\ Fitting(kind, error) # {} =>
                 /\ Min(Fitting(kind, error)) \in Fitting(kind, error)
                 /\ \A i \in Fitting(kind, error) : Min(Fitting(kind, error)) <= i
  <1>1. DOMAIN Clauses(kind) = 1..7
    BY DEF Clauses, FileClauses, AudioClauses
  <1>2. Fitting(kind, error) \in SUBSET (1..7)
    BY <1>1 DEF Fitting
  <1> QED BY <1>1, <1>2, LeastIs

\* Only a handler that raises nothing answers 200.
LEMMA Only200 ==
    ASSUME NEW kind, NEW error, StatusOf(kind, error) = 200
    PROVE  error = "none"
  <1>1. \A i \in 1..7 : Clauses(kind)[i][2] # 200
    BY DEF Clauses, FileClauses, AudioClauses
  <1>2. Fitting(kind, error) # {} => Min(Fitting(kind, error)) \in 1..7
    BY ClauseFacts
  <1> QED BY <1>1, <1>2 DEF StatusOf

\* The exceptions for what is too much come before their kin, in either route.
LEMMA LimitIs413 ==
    ASSUME NEW kind, NEW error,
           error = "ProcessingLimit" \/ (kind \in FileKinds /\ error = "FileTooLarge")
    PROVE  StatusOf(kind, error) = 413
  <1> DEFINE fitting == Fitting(kind, error)
             first == Min(fitting)
  <1>1. ASSUME fitting # {}
        PROVE  /\ first \in fitting /\ (\A i \in fitting : first <= i) /\ fitting \subseteq 1..7
               /\ StatusOf(kind, error) = Clauses(kind)[first][2]
    <2>1. error # "none"
      OBVIOUS
    <2> QED BY <1>1, <2>1, ClauseFacts DEF StatusOf
  <1>2. CASE kind \in FileKinds
    <2>1. Clauses(kind) = FileClauses
      BY <1>2 DEF Clauses
    <2>2. 1 \notin fitting /\ (2 \in fitting \/ (2 \notin fitting /\ 3 \in fitting))
      BY <2>1 DEF Fitting, FileClauses, IsA
    <2> HIDE DEF fitting, first
    <2>3. first = 2 \/ first = 3
      BY <1>1, <2>2
    <2> QED BY <1>1, <2>1, <2>2, <2>3 DEF FileClauses
  <1>3. CASE kind \notin FileKinds
    <2>1. Clauses(kind) = AudioClauses /\ error = "ProcessingLimit"
      BY <1>3 DEF Clauses
    <2>2. 1 \notin fitting /\ 2 \notin fitting /\ 3 \in fitting
      BY <2>1 DEF Fitting, AudioClauses, IsA
    <2> HIDE DEF fitting, first
    <2>3. first = 3
      BY <1>1, <2>2
    <2> QED BY <1>1, <2>1, <2>2, <2>3 DEF AudioClauses
  <1> QED BY <1>2, <1>3

-----------------------------------------------------------------------------
(* Types.                                                                  *)

Statuses == {0, 200, 400, 413, 415, 500, 501, 503}

LEMMA StatusType ==
    ASSUME NEW kind, NEW error
    PROVE  StatusOf(kind, error) \in Statuses
  <1>1. \A i \in 1 .. 7 : Clauses(kind)[i][2] \in Statuses
    BY DEF Clauses, FileClauses, AudioClauses, Statuses
  <1> QED BY <1>1, ClauseFacts DEF StatusOf, Statuses

FieldsOK ==
    /\ \A r \in Requests : upload[r] \in Documents \cup {NoDocument}
    /\ upload = [r \in Requests |-> upload[r]]
    /\ status \in [Requests -> Statuses]
    /\ loop \in Requests \cup {Nobody}
    /\ temps \subseteq Requests \cup {Nobody}

\* What a step may do to them.
Types(r) ==
    /\ \/ upload' = upload
       \/ \E doc \in Documents \cup {NoDocument} : upload' = [upload EXCEPT ![r] = doc]
    /\ status' = status \/ \E code \in Statuses : status' = [status EXCEPT ![r] = code]
    /\ loop' \in {loop, r, Nobody}
    /\ temps' \subseteq temps \cup {r, Nobody}

LEMMA AnswerTypes ==
    ASSUME NEW r \in Requests, NEW error, Answer(r, error), upload' = upload,
           temps' \subseteq temps \cup {r, Nobody}
    PROVE  Types(r)
  BY StatusType DEF Answer, Types

LEMMA GoOnTypes ==
    ASSUME NEW r \in Requests, NEW next, NEW held, GoOn(r, next, held), upload' = upload,
           temps' \subseteq temps \cup {r, Nobody}
    PROVE  Types(r)
  BY DEF GoOn, Types

LEMMA OcrTypes ==
    ASSUME NEW r \in Requests, Ocr(r)
    PROVE  Types(r)
  <1>1. ASSUME NEW error, EndOcr(r, error)
        PROVE  Types(r)
    BY <1>1, AnswerTypes DEF EndOcr
  <1>2. ASSUME NEW images, RenderPages(r, images)
        PROVE  Types(r)
    BY <1>1, <1>2 DEF RenderPages, Types
  <1>3. ASSUME NEW outcome, RenderingFails(r, outcome)
        PROVE  Types(r)
    BY <1>1, <1>3 DEF RenderingFails
  <1>4. CASE RecognizePage(r)
    BY <1>4 DEF RecognizePage, Types
  <1>5. ASSUME NEW outcome, RecognitionFails(r, outcome)
        PROVE  Types(r)
    BY <1>1, <1>5 DEF RecognitionFails, Types
  <1>6. CASE FinishOcr(r)
    BY <1>1, <1>6 DEF FinishOcr
  <1> QED BY <1>2, <1>3, <1>4, <1>5, <1>6 DEF Ocr

LEMMA AudioTypes ==
    ASSUME NEW r \in Requests, Audio(r)
    PROVE  Types(r)
  <1>1. ASSUME StartTranscribing(r), upload' = upload, temps' \subseteq temps \cup {r, Nobody}
        PROVE  Types(r)
    BY <1>1, AnswerTypes, GoOnTypes DEF StartTranscribing
  <1>2. CASE ValidateAudio(r)
    BY <1>1, <1>2, AnswerTypes, GoOnTypes DEF ValidateAudio
  <1>3. ASSUME NEW outcome, ProbeDuration(r, outcome)
        PROVE  Types(r)
    BY <1>1, <1>3, AnswerTypes DEF ProbeDuration
  <1>4. CASE ProbeFileFails(r)
    BY <1>4, AnswerTypes DEF ProbeFileFails
  <1>5. CASE Resume(r)
    BY <1>5, AnswerTypes DEF Resume
  <1>6. ASSUME NEW next \in Failed \cup {"transcribed"}, RunModel(r, next)
        PROVE  Types(r)
    BY <1>6 DEF RunModel, ThreadStep, Types
  <1>7. CASE LookForModel(r) \/ LoadModel(r) \/ WriteAudio(r) \/ WritingFails(r)
    <2>1. upload' = upload /\ status' = status /\ loop' = loop
      BY <1>7 DEF LookForModel, LoadModel, WriteAudio, WritingFails, ThreadStep
    <2>2. temps' \subseteq temps \cup {r, Nobody}
      BY <1>7 DEF LookForModel, LoadModel, WriteAudio, WritingFails
    <2> QED BY <2>1, <2>2 DEF Types
  <1>8. ASSUME NEW next \in Failed, LoadingFails(r, next)
        PROVE  Types(r)
    BY <1>8 DEF LoadingFails, ThreadStep, Types
  <1> QED BY <1>2, <1>3, <1>4, <1>5, <1>6, <1>7, <1>8, FailedStages DEF Audio

LEMMA EveryType ==
    ASSUME IntakeNext
    PROVE  \E r \in Requests : Types(r)
  <1>1. ASSUME NEW r \in Requests, Refuse(r)
        PROVE  Types(r)
    BY <1>1, StatusType DEF Refuse, Types
  <1>2. ASSUME NEW r \in Requests, NEW doc \in Documents, Admit(r, doc)
        PROVE  Types(r)
    BY <1>2, StatusType DEF Admit, Types
  <1>3. ASSUME NEW r \in Requests, NEW n, ReadChunk(r, n)
        PROVE  Types(r)
    BY <1>3, AnswerTypes DEF ReadChunk, Types
  <1>4. ASSUME NEW r \in Requests, ParseFile(r)
        PROVE  Types(r)
    BY <1>4, AnswerTypes, GoOnTypes DEF ParseFile
  <1>5. ASSUME NEW r \in Requests, Return(r)
        PROVE  Types(r)
    BY <1>5 DEF Return, Types, Statuses
  <1> QED BY <1>1, <1>2, <1>3, <1>4, <1>5, OcrTypes, AudioTypes DEF IntakeNext

LEMMA FieldsStep == FieldsOK /\ [IntakeNext]_vars => FieldsOK'
  <1> SUFFICES ASSUME FieldsOK, [IntakeNext]_vars
               PROVE  FieldsOK'
    OBVIOUS
  <1>1. ASSUME UNCHANGED vars
        PROVE  FieldsOK'
    BY <1>1 DEF vars, FieldsOK
  <1>2. ASSUME NEW r \in Requests, Types(r)
        PROVE  FieldsOK'
    <2>1. \A q \in Requests : upload'[q] \in Documents \cup {NoDocument}
      BY <1>2 DEF Types, FieldsOK
    <2>2. upload' = [q \in Requests |-> upload'[q]]
      BY <1>2 DEF Types, FieldsOK
    <2>3. status' \in [Requests -> Statuses]
      BY <1>2 DEF Types, FieldsOK
    <2>4. loop' \in Requests \cup {Nobody} /\ temps' \subseteq Requests \cup {Nobody}
      BY <1>2 DEF Types, FieldsOK
    <2> QED BY <2>1, <2>2, <2>3, <2>4 DEF FieldsOK
  <1> QED BY <1>1, <1>2, EveryType

\* Types, and the slots: as many are taken as there are handlers at work, so
\* that none leaks on the way to any of the answers.
THEOREM SlotsMatchHandlers == IntakeSpec => []IntakeTypeOK
  <1>1. IntakeInit => FieldsOK
    BY BoundsAssumption DEF IntakeInit, FieldsOK, Statuses
  <1>2. SlotsInv /\ FieldsOK => IntakeTypeOK
    BY DEF SlotsInv, Staged, FieldsOK, Statuses, Busy, Idle, IntakeTypeOK
  <1> QED BY <1>1, <1>2, FieldsStep, SlotsInvHolds, PTL DEF IntakeSpec

-----------------------------------------------------------------------------
(* Limits.                                                                 *)

\* The document is within the limits on everything but its characters.
SizedRight(doc) ==
    /\ doc.typed /\ doc.size <= MaxBytes
    /\ doc.pages <= (IF doc.form = "scanned" THEN MaxOcrPages ELSE MaxPages)
    /\ Len(doc.entries) <= MaxSections
    /\ \A i \in DOMAIN doc.entries : doc.entries[i] <= MaxEntry
    /\ SumFunction(doc.entries) <= MaxEntries

\* What AcceptedWithinLimits and LimitAnswered413 say of one request.
Within(doc) ==
    /\ SizedRight(doc)
    /\ doc.kind \in FileKinds => doc.chars <= MaxChars
    /\ doc.kind = "wav" \/ settings.prober = "ffprobe" => doc.duration <= MaxDuration

Excess(doc) ==
    \/ doc.size > MaxBytes
    \/ doc.kind = "pdf" /\ doc.pages > MaxPages
    \/ doc.kind = "pdf" /\ doc.form = "scanned" /\ doc.pages > MaxOcrPages
    \/ doc.kind = "hwpx" /\ Len(doc.entries) > MaxSections
    \/ BigEntry(doc)
    \/ doc.kind = "hwpx" /\ SumFunction(doc.entries) > MaxEntries
    \/ doc.form = "ok" /\ doc.chars > MaxChars

Readable(doc) == doc.kind \in FileKinds \ {"hwp"} /\ doc.typed /\ doc.form \in {"ok", "scanned"}

TooLong(doc) ==
    /\ doc.kind = "wav" /\ doc.typed /\ doc.form # "bad"
    /\ doc.size <= MaxBytes /\ doc.duration > MaxDuration

Fair(doc, code) ==
    /\ code = 200 => Within(doc)
    /\ code # 503 /\ ((Readable(doc) /\ Excess(doc)) \/ TooLong(doc)) => code = 413

LEMMA DocumentFacts ==
    ASSUME NEW doc \in Documents
    PROVE  /\ doc.size \in Nat /\ doc.chars \in Nat /\ doc.pages \in Nat /\ doc.duration \in Nat
           /\ doc.entries \in Seq(Nat) /\ Len(doc.entries) \in Nat
           /\ doc.kind # "pdf" => doc.pages = 0
           /\ doc.kind \notin {"docx", "hwpx"} => doc.entries = <<>>
           /\ doc.kind = "docx" => Len(doc.entries) <= 1
           /\ doc.kind \in {"docx", "hwpx"} /\ doc.entries = <<>> => doc.chars = 0
           /\ doc.kind \in FileKinds => doc.duration = 0
  BY DocumentsAssumption DEF FileKinds

LEMMA LimitFacts ==
    /\ MaxConcurrency \in Nat /\ MaxBytes \in Nat /\ MaxChars \in Nat /\ MaxPages \in Nat
    /\ MaxOcrPages \in Nat /\ MaxEntry \in Nat /\ MaxEntries \in Nat /\ MaxSections \in Nat
    /\ MaxDuration \in Nat /\ MaxEntry <= MaxEntries /\ 1 <= MaxSections
  BY BoundsAssumption

\* A file that is no archive has no entry to count.
LEMMA NoEntries ==
    ASSUME NEW doc, doc.entries = <<>>
    PROVE  /\ Len(doc.entries) <= MaxSections /\ SumFunction(doc.entries) <= MaxEntries
           /\ \A i \in DOMAIN doc.entries : doc.entries[i] <= MaxEntry
           /\ ~BigEntry(doc)
  <1>1. Len(doc.entries) = 0 /\ DOMAIN doc.entries = {}
    OBVIOUS
  <1>2. SumFunction(doc.entries) = 0
    BY SumOfNone
  <1> QED BY <1>1, <1>2, LimitFacts DEF BigEntry

\* The only entry of a Word file.
LEMMA OneEntry ==
    ASSUME NEW doc \in Documents, doc.kind = "docx", ~BigEntry(doc)
    PROVE  /\ Len(doc.entries) <= MaxSections /\ SumFunction(doc.entries) <= MaxEntries
           /\ \A i \in DOMAIN doc.entries : doc.entries[i] <= MaxEntry
  <1>1. CASE doc.entries = <<>>
    BY <1>1, NoEntries
  <1>2. CASE doc.entries # <<>>
    <2> DEFINE s == doc.entries
    <2>1. s \in Seq(Nat) /\ Len(s) <= 1 /\ s # <<>>
      BY <1>2, DocumentFacts
    <2>9. \A i \in DOMAIN s : ~(s[i] > MaxEntry)
      BY DEF BigEntry
    <2> HIDE DEF s
    <2>2. Len(s) = 1
      <3> DEFINE k == Len(s)
      <3>1. k \in Nat /\ k # 0 /\ k <= 1
        BY <2>1
      <3> HIDE DEF k
      <3>2. k = 1
        BY <3>1
      <3> QED BY <3>2 DEF k
    <2>3. DOMAIN s = {1} /\ s[1] \in Nat
      BY <2>1, <2>2
    <2>4. SumFunction(s) = s[1]
      BY <2>3, SumOfOne
    <2>5. s[1] <= MaxEntry
      BY <2>9, <2>3, LimitFacts
    <2> QED BY <2>2, <2>3, <2>4, <2>5, LimitFacts DEF s
  <1> QED BY <1>1, <1>2

LEMMA EntriesWithin ==
    ASSUME NEW doc \in Documents, ~BigEntry(doc)
    PROVE  \A i \in DOMAIN doc.entries : doc.entries[i] <= MaxEntry
  <1>1. ASSUME NEW i \in DOMAIN doc.entries
        PROVE  doc.entries[i] <= MaxEntry
    <2> DEFINE s == doc.entries
    <2>1. s \in Seq(Nat)
      BY DocumentFacts
    <2>2. s[i] \in Nat
      <3> HIDE DEF s
      <3>1. i \in DOMAIN s
        BY DEF s
      <3> QED BY <2>1, <3>1
    <2>3. ~(s[i] > MaxEntry)
      BY DEF BigEntry
    <2> HIDE DEF s
    <2> QED BY <2>2, <2>3, LimitFacts DEF s
  <1> QED BY <1>1

\* What the parsers let through is within the limits, and what is too much is
\* refused as that.
LEMMA ParserOutcome ==
    ASSUME NEW doc \in Documents, doc.typed, doc.size <= MaxBytes, doc.kind \in FileKinds \ {"hwp"},
           NEW error, error = Raised(ParserChecks(doc))
    PROVE  /\ error = "none" => SizedRight(doc)
           /\ error = "none" /\ doc.form # "scanned" => Within(doc)
           /\ doc.form \in {"ok", "scanned"} /\ Excess(doc) => error = "ProcessingLimit"
  <1> USE DocumentFacts, LimitFacts
  <1>1. ~(doc.size > MaxBytes) /\ (doc.chars > MaxChars => doc.chars # 0)
    OBVIOUS
  <1>2. ~(doc.chars > MaxChars) => doc.chars <= MaxChars
    OBVIOUS
  <1>3. doc.duration = 0 /\ doc.duration <= MaxDuration
    BY DEF FileKinds
  <1>4. CASE doc.kind = "text"
    <2>1. error = Raised(TextChecks(doc))
      BY <1>4 DEF ParserChecks
    <2>2. /\ error = "none" => ~(doc.chars > MaxChars)
          /\ doc.form # "bad" /\ doc.chars # 0 /\ doc.chars > MaxChars => error = "ProcessingLimit"
      BY <2>1, TextOutcome
    <2>3. doc.entries = <<>> /\ doc.pages = 0
      BY <1>4
    <2>4. SizedRight(doc) /\ ~BigEntry(doc)
      BY <2>3, NoEntries DEF SizedRight
    <2> QED BY <1>1, <1>2, <1>3, <1>4, <2>2, <2>4 DEF Within, Excess
  <1>5. CASE doc.kind = "pdf"
    <2>1. error = Raised(PdfChecks(doc))
      BY <1>5 DEF ParserChecks
    <2>2. /\ error = "none" => ~(doc.pages > MaxPages)
          /\ error = "none" /\ doc.form = "scanned" => ~(doc.pages > MaxOcrPages)
          /\ error = "none" /\ doc.form # "scanned" => ~(doc.chars > MaxChars)
          /\ doc.form \in {"ok", "scanned"} /\ doc.pages > MaxPages => error = "ProcessingLimit"
          /\ doc.form = "scanned" /\ doc.pages > MaxOcrPages => error = "ProcessingLimit"
          /\ doc.form = "ok" /\ doc.chars > MaxChars => error = "ProcessingLimit"
      BY <2>1, PdfOutcome
    <2>3. doc.entries = <<>>
      BY <1>5
    <2>4. error = "none" => SizedRight(doc)
      BY <2>2, <2>3, NoEntries DEF SizedRight
    <2>5. ~BigEntry(doc)
      BY <2>3, NoEntries
    <2> QED BY <1>1, <1>2, <1>3, <1>5, <2>2, <2>4, <2>5 DEF Within, Excess
  <1>6. CASE doc.kind = "docx"
    <2>1. error = Raised(DocxChecks(doc))
      BY <1>6 DEF ParserChecks
    <2>2. /\ error = "none" => ~BigEntry(doc) /\ ~(doc.chars > MaxChars)
          /\ doc.form \in {"ok", "scanned"} /\ doc.entries # <<>> /\ BigEntry(doc) => error = "ProcessingLimit"
          /\ doc.form = "ok" /\ doc.entries # <<>> /\ doc.chars # 0 /\ doc.chars > MaxChars
                => error = "ProcessingLimit"
      BY <2>1, DocxOutcome
    <2>3. BigEntry(doc) => doc.entries # <<>>
      BY NoEntries
    <2>4. doc.pages = 0 /\ (doc.entries = <<>> => doc.chars = 0)
      BY <1>6
    <2>5. error = "none" => SizedRight(doc)
      BY <1>6, <2>2, <2>4, OneEntry DEF SizedRight
    <2> QED BY <1>1, <1>2, <1>3, <1>6, <2>2, <2>3, <2>4, <2>5 DEF Within, Excess
  <1>7. CASE doc.kind = "hwpx"
    <2>1. error = Raised(HwpxChecks(doc))
      BY <1>7 DEF ParserChecks
    <2>2. /\ error = "none" => /\ ~(Len(doc.entries) > MaxSections) /\ ~BigEntry(doc)
                               /\ ~(SumFunction(doc.entries) > MaxEntries) /\ ~(doc.chars > MaxChars)
          /\ /\ doc.form \in {"ok", "scanned"} /\ doc.entries # <<>>
             /\ Len(doc.entries) > MaxSections \/ BigEntry(doc) \/ SumFunction(doc.entries) > MaxEntries
             => error = "ProcessingLimit"
          /\ doc.form = "ok" /\ doc.entries # <<>> /\ doc.chars # 0 /\ doc.chars > MaxChars
                => error = "ProcessingLimit"
      BY <2>1, HwpxOutcome
    <2>3. BigEntry(doc) \/ Len(doc.entries) > MaxSections \/ SumFunction(doc.entries) > MaxEntries
             => doc.entries # <<>>
      <3>1. doc.entries = <<>> => Len(doc.entries) = 0
        OBVIOUS
      <3>2. Len(doc.entries) = 0 => ~(Len(doc.entries) > MaxSections)
        OBVIOUS
      <3>3. doc.entries = <<>> => SumFunction(doc.entries) = 0
        BY <3>1, SumOfNone
      <3>4. SumFunction(doc.entries) = 0 => ~(SumFunction(doc.entries) > MaxEntries)
        OBVIOUS
      <3> QED BY <3>1, <3>2, <3>3, <3>4, NoEntries
    <2>4. doc.pages = 0 /\ (doc.entries = <<>> => doc.chars = 0)
      BY <1>7
    <2>5. SumFunction(doc.entries) \in Nat
      <3>1. IsFiniteSet(DOMAIN doc.entries) /\ \A i \in DOMAIN doc.entries : doc.entries[i] \in Nat
        <4> DEFINE s == doc.entries
        <4>1. s \in Seq(Nat)
          OBVIOUS
        <4> HIDE DEF s
        <4>2. DOMAIN s = 1..Len(s) /\ Len(s) \in Nat /\ \A i \in DOMAIN s : s[i] \in Nat
          BY <4>1
        <4>3. IsFiniteSet(1..Len(s))
          BY <4>2, FS_Interval
        <4> QED BY <4>2, <4>3 DEF s
      <3> DEFINE D == DOMAIN doc.entries
                 fun == doc.entries
      <3>2. \E sum : AddsUp(D, fun, sum)
        <4> HIDE DEF D, fun
        <4>1. IsFiniteSet(D) /\ \A i \in D : fun[i] \in Nat
          BY <3>1 DEF D, fun
        <4> QED BY <4>1, SumEquation
      <3> QED BY <3>2 DEF SumFunction, AddsUp
    <2>6. error = "none" => SizedRight(doc)
      BY <2>2, <2>4, <2>5, EntriesWithin DEF SizedRight
    <2> QED BY <1>1, <1>2, <1>3, <1>7, <2>2, <2>3, <2>4, <2>6 DEF Within, Excess
  <1> QED BY <1>4, <1>5, <1>6, <1>7 DEF FileKinds

\* Whatever becomes of a document that OCR reads: its limits have been kept,
\* except that of its text.
LEMMA OcrOutcome ==
    ASSUME NEW doc \in Documents, doc.form = "scanned", SizedRight(doc), ~Excess(doc), doc.kind \in FileKinds,
           NEW error, error = "none" => ~(doc.chars > MaxChars)
    PROVE  Fair(doc, StatusOf(doc.kind, error))
  <1>1. error = "none" => Within(doc)
    <2> SUFFICES ASSUME error = "none"
                 PROVE  Within(doc)
      OBVIOUS
    <2>1. doc.chars <= MaxChars
      BY DocumentFacts, LimitFacts
    <2>2. doc.duration <= MaxDuration
      BY DocumentFacts, LimitFacts
    <2> QED BY <2>1, <2>2 DEF Within
  <1>2. StatusOf(doc.kind, error) = 200 => error = "none"
    BY Only200
  <1> QED BY <1>1, <1>2 DEF Fair, TooLong, FileKinds

\* A recording that is neither too big nor, where it is measured, too long.
LEMMA RecordingWithin ==
    ASSUME NEW doc \in Documents, doc.kind \notin FileKinds, doc.typed, doc.size <= MaxBytes,
           doc.kind = "wav" \/ settings.prober = "ffprobe" => doc.duration <= MaxDuration
    PROVE  Within(doc)
  <1>1. doc.entries = <<>> /\ doc.pages = 0
    BY DocumentFacts DEF FileKinds
  <1>2. doc.pages <= (IF doc.form = "scanned" THEN MaxOcrPages ELSE MaxPages)
    BY <1>1, LimitFacts
  <1> QED BY <1>1, <1>2, NoEntries DEF Within, SizedRight

\* ... is answered fairly, whatever the answer is.
LEMMA RecordingFair ==
    ASSUME NEW doc \in Documents, doc.kind \notin FileKinds, Within(doc), NEW code
    PROVE  Fair(doc, code)
  <1>1. doc.kind = "wav" => ~(doc.duration > MaxDuration)
    BY DocumentFacts, LimitFacts DEF Within
  <1> QED BY <1>1 DEF Fair, Readable, TooLong

-----------------------------------------------------------------------------
(* What holds of a request at each stage.                                  *)

OcrStages == {"rendering", "recognizing", "retrying"}
VoiceStages == {"model", "loading", "writing", "transcribing", "transcribed", "raised", "refused", "unsupported"}

RequestOK(r) ==
    /\ stage[r] \in Idle => got[r] = 0
    /\ stage[r] # "answered" => status[r] = 0
    /\ stage[r] = "reading" =>
          upload[r] \in Documents /\ upload[r].typed /\ upload[r].kind # "hwp"
    /\ stage[r] \in OcrStages =>
          /\ upload[r] \in Documents /\ upload[r].kind \in FileKinds /\ upload[r].form = "scanned"
          /\ SizedRight(upload[r]) /\ ~Excess(upload[r])
    /\ stage[r] = "probing" =>
          /\ upload[r] \in Documents /\ upload[r].kind \notin FileKinds \cup {"wav"}
          /\ upload[r].typed /\ upload[r].size <= MaxBytes
    /\ stage[r] \in VoiceStages =>
          upload[r] \in Documents /\ upload[r].kind \notin FileKinds /\ Within(upload[r])
    /\ stage[r] = "answered" => Fair(upload[r], status[r])

Shape ==
    /\ stage \in [Requests -> Stages] /\ status \in [Requests -> Statuses]
    /\ upload = [r \in Requests |-> upload[r]]
    /\ \A r \in Requests : upload[r] \in Documents \cup {NoDocument}

LimitsInv == got \in [Requests -> 0..MaxBytes] /\ \A r \in Requests : RequestOK(r)

\* A step is one of request r.
Only(r) ==
    /\ settings' = settings
    /\ \A q \in Requests \ {r} :
          stage'[q] = stage[q] /\ upload'[q] = upload[q] /\ got'[q] = got[q] /\ status'[q] = status[q]

Good(r) == got' \in [Requests -> 0..MaxBytes] /\ RequestOK(r)' /\ Only(r)

\* The handler ends with a fair answer.
LEMMA AnswerGood ==
    ASSUME Shape, LimitsInv, NEW r \in Requests, NEW error, Answer(r, error), UNCHANGED <<settings, upload>>,
           Fair(upload[r], StatusOf(upload[r].kind, error))
    PROVE  Good(r)
  <1>1. /\ stage'[r] = "answered" /\ status'[r] = StatusOf(upload[r].kind, error) /\ got'[r] = 0
        /\ upload'[r] = upload[r] /\ settings' = settings
    BY DEF Answer, Shape, LimitsInv
  <1>2. got' \in [Requests -> 0..MaxBytes]
    BY LimitFacts DEF Answer, LimitsInv
  <1>3. Fair(upload[r], status[r])'
    BY <1>1 DEF Fair, Within
  <1>4. RequestOK(r)'
    BY <1>1, <1>3 DEF RequestOK, Idle, OcrStages, VoiceStages
  <1>5. Only(r)
    BY DEF Answer, Shape, LimitsInv, Only
  <1> QED BY <1>2, <1>4, <1>5 DEF Good

\* The handler goes on with what it holds.
LEMMA MovesGood ==
    ASSUME Shape, LimitsInv, NEW r \in Requests, NEW next \in OcrStages \cup VoiceStages \cup {"probing"},
           Moves(r, next), stage[r] \notin Idle, UNCHANGED <<settings, upload, got, status>>,
           next \in OcrStages =>
              /\ upload[r] \in Documents /\ upload[r].kind \in FileKinds /\ upload[r].form = "scanned"
              /\ SizedRight(upload[r]) /\ ~Excess(upload[r]),
           next = "probing" =>
              /\ upload[r] \in Documents /\ upload[r].kind \notin FileKinds \cup {"wav"}
              /\ upload[r].typed /\ upload[r].size <= MaxBytes,
           next \in VoiceStages =>
              upload[r] \in Documents /\ upload[r].kind \notin FileKinds /\ Within(upload[r])
    PROVE  Good(r)
  <1>1. /\ stage'[r] = next /\ status'[r] = status[r] /\ got'[r] = got[r]
        /\ upload'[r] = upload[r] /\ settings' = settings
    BY DEF Moves, Shape
  <1>2. got' \in [Requests -> 0..MaxBytes]
    BY DEF LimitsInv
  <1>3. status[r] = 0
    BY DEF LimitsInv, RequestOK, Idle
  <1>4. next \notin Idle /\ next # "reading"
    BY DEF OcrStages, VoiceStages, Idle
  <1>5. Within(upload[r]) => Within(upload[r])'
    BY <1>1 DEF Within
  <1>6. RequestOK(r)'
    BY <1>1, <1>3, <1>4, <1>5 DEF RequestOK, Idle
  <1>7. Only(r)
    BY DEF Moves, Shape, Only
  <1> QED BY <1>2, <1>6, <1>7 DEF Good

-----------------------------------------------------------------------------
(* The operations.                                                         *)

LEMMA RefuseGood ==
    ASSUME Shape, LimitsInv, NEW r \in Requests, Refuse(r)
    PROVE  Good(r)
  <1>1. StatusOf("text", "Concurrency") = 503
    <2>1. 1 \in Fitting("text", "Concurrency")
      BY DEF Fitting, Clauses, FileClauses, FileKinds, IsA
    <2> DEFINE first == Min(Fitting("text", "Concurrency"))
    <2>2. first \in 1..7 /\ first <= 1
      BY <2>1, ClauseFacts
    <2>3. StatusOf("text", "Concurrency") = FileClauses[first][2]
      BY <2>1 DEF StatusOf, Clauses, FileKinds
    <2> HIDE DEF first
    <2>4. first = 1
      BY <2>2
    <2> QED BY <2>3, <2>4 DEF FileClauses
  <1>2. /\ stage'[r] = "answered" /\ status'[r] = 503 /\ got'[r] = 0
        /\ upload'[r] = upload[r] /\ settings' = settings
    BY <1>1 DEF Refuse, Shape, LimitsInv, RequestOK, Idle
  <1>3. RequestOK(r)'
    BY <1>2 DEF RequestOK, Fair, Idle, OcrStages, VoiceStages
  <1>4. got' \in [Requests -> 0..MaxBytes] /\ Only(r)
    BY DEF Refuse, Shape, LimitsInv, Only
  <1> QED BY <1>3, <1>4 DEF Good

LEMMA AdmitGood ==
    ASSUME Shape, LimitsInv, NEW r \in Requests, NEW doc \in Documents, Admit(r, doc)
    PROVE  Good(r)
  <1> DEFINE error == Raised(AnnouncedChecks(doc))
  <1>1. /\ error = "none" => doc.typed /\ doc.kind # "hwp"
        /\ doc.kind \in FileKinds \ {"hwp"} /\ doc.typed => error \in {"none", "FileTooLarge"}
        /\ doc.kind \notin FileKinds /\ doc.typed /\ ~(doc.size > MaxBytes) => error = "none"
    <2> HIDE DEF error
    <2> QED BY AnnouncedOutcome DEF error
  <1>2. /\ upload'[r] = doc /\ settings' = settings /\ got' = got /\ got[r] = 0 /\ status[r] = 0
        /\ \/ error = "none" /\ stage'[r] = "reading" /\ status' = status
           \/ error # "none" /\ stage'[r] = "answered" /\ status'[r] = StatusOf(doc.kind, error)
    <2> HIDE DEF error
    <2> QED BY DEF Admit, Shape, LimitsInv, RequestOK, Idle, error
  <1> HIDE DEF error
  <1>3. RequestOK(r)'
    <2>1. CASE error = "none"
      BY <1>1, <1>2, <2>1 DEF RequestOK, Idle, OcrStages, VoiceStages
    <2>2. CASE error # "none"
      <3>1. StatusOf(doc.kind, error) # 200
        BY <2>2, Only200
      <3>2. Readable(doc) => StatusOf(doc.kind, error) = 413
        BY <1>1, <2>2, LimitIs413 DEF Readable
      <3>3. ~TooLong(doc)
        <4>1. doc.size <= MaxBytes => ~(doc.size > MaxBytes)
          BY DocumentFacts, LimitFacts
        <4> QED BY <1>1, <2>2, <4>1 DEF TooLong, FileKinds
      <3> QED BY <1>2, <2>2, <3>1, <3>2, <3>3 DEF RequestOK, Fair, Readable, Idle, OcrStages, VoiceStages
    <2> QED BY <2>1, <2>2
  <1>4. got' \in [Requests -> 0..MaxBytes] /\ Only(r)
    BY DEF Admit, Shape, LimitsInv, Only
  <1> QED BY <1>3, <1>4 DEF Good

LEMMA ReadGood ==
    ASSUME Shape, LimitsInv, NEW r \in Requests, NEW n \in 1..Chunk, ReadChunk(r, n),
           got[r] + n <= upload[r].size
    PROVE  Good(r)
  <1>1. /\ upload[r] \in Documents /\ stage[r] = "reading" /\ status[r] = 0
        /\ UNCHANGED <<settings, upload>> /\ got[r] \in 0..MaxBytes
    BY DEF ReadChunk, LimitsInv, RequestOK
  <1>2. ASSUME got[r] + n > MaxBytes, Answer(r, Oversize(upload[r]))
        PROVE  Good(r)
    <2>1. StatusOf(upload[r].kind, Oversize(upload[r])) # 200
      BY Only200 DEF Oversize
    <2>2. upload[r].kind \in FileKinds => StatusOf(upload[r].kind, Oversize(upload[r])) = 413
      BY LimitIs413 DEF Oversize
    <2>3. ~TooLong(upload[r])
      <3>1. ~(upload[r].size <= MaxBytes)
        BY <1>1, <1>2, DocumentFacts, LimitFacts
      <3> QED BY <3>1 DEF TooLong
    <2> QED BY <1>1, <1>2, <2>1, <2>2, <2>3, AnswerGood DEF Fair, Readable
  <1>3. CASE /\ got[r] + n <= MaxBytes /\ got' = [got EXCEPT ![r] = got[r] + n]
             /\ UNCHANGED <<stage, status>>
    <2>1. got' \in [Requests -> 0..MaxBytes]
      <3>1. got[r] + n \in 0..MaxBytes
        BY <1>1, <1>3, LimitFacts
      <3> QED BY <1>3, <3>1 DEF LimitsInv
    <2>2. RequestOK(r)'
      BY <1>1, <1>3 DEF RequestOK, LimitsInv, Idle, OcrStages, VoiceStages
    <2>3. Only(r)
      BY <1>1, <1>3 DEF LimitsInv, Only
    <2> QED BY <2>1, <2>2, <2>3 DEF Good
  <1>4. got[r] + n > MaxBytes \/ got[r] + n <= MaxBytes
    BY <1>1, LimitFacts
  <1> QED BY <1>2, <1>3, <1>4 DEF ReadChunk

\* The whole file has been read: it is not too big.
LEMMA ReadWhole ==
    ASSUME LimitsInv, NEW r \in Requests, ReadToEnd(r)
    PROVE  /\ upload[r] \in Documents /\ upload[r].typed /\ upload[r].kind # "hwp"
           /\ upload[r].size <= MaxBytes /\ stage[r] = "reading"
  <1>1. got[r] \in 0..MaxBytes
    BY DEF LimitsInv
  <1> QED BY <1>1, LimitFacts DEF LimitsInv, RequestOK, ReadToEnd

LEMMA ParseGood ==
    ASSUME Shape, LimitsInv, NEW r \in Requests, ParseFile(r)
    PROVE  Good(r)
  <1> DEFINE doc == upload[r]
             error == Raised(ParserChecks(doc))
  <1>1. /\ doc \in Documents /\ doc.typed /\ doc.kind # "hwp" /\ doc.size <= MaxBytes
        /\ stage[r] = "reading" /\ doc.kind \in FileKinds
    BY ReadWhole DEF ParseFile
  <1>2. /\ error = "none" => SizedRight(doc)
        /\ error = "none" /\ doc.form # "scanned" => Within(doc)
        /\ doc.form \in {"ok", "scanned"} /\ Excess(doc) => error = "ProcessingLimit"
    <2> HIDE DEF doc, error
    <2> QED BY <1>1, ParserOutcome DEF error
  <1>3. /\ UNCHANGED <<settings, upload>>
        /\ \/ error = "none" /\ doc.form = "scanned" /\ Moves(r, "rendering") /\ UNCHANGED <<got, status>>
           \/ ~(error = "none" /\ doc.form = "scanned") /\ Answer(r, error)
    <2> HIDE DEF error
    <2> QED BY DEF ParseFile, GoOn, Moves, error
  <1> HIDE DEF error
  <1>4. CASE error = "none" /\ doc.form = "scanned"
    <2>1. ~Excess(doc)
      BY <1>2, <1>4
    <2> QED BY <1>1, <1>2, <1>3, <1>4, <2>1, MovesGood DEF OcrStages, VoiceStages, Idle
  <1>5. CASE ~(error = "none" /\ doc.form = "scanned")
    <2>1. StatusOf(doc.kind, error) = 200 => Within(doc)
      BY <1>2, <1>5, Only200
    <2>2. Readable(doc) /\ Excess(doc) => StatusOf(doc.kind, error) = 413
      BY <1>2, LimitIs413 DEF Readable
    <2>3. Fair(doc, StatusOf(doc.kind, error))
      BY <1>1, <2>1, <2>2 DEF Fair, TooLong, FileKinds
    <2> QED BY <1>3, <1>5, <2>3, AnswerGood
  <1> QED BY <1>4, <1>5

LEMMA OcrGood ==
    ASSUME Shape, LimitsInv, NEW r \in Requests, Ocr(r)
    PROVE  Good(r)
  <1> DEFINE doc == upload[r]
  <1>1. ASSUME stage[r] \in OcrStages
        PROVE  /\ doc \in Documents /\ doc.kind \in FileKinds /\ doc.form = "scanned"
               /\ SizedRight(doc) /\ ~Excess(doc)
    BY <1>1 DEF LimitsInv, RequestOK
  <1>2. ASSUME stage[r] \in OcrStages, NEW error, error = "none" => ~(doc.chars > MaxChars), EndOcr(r, error)
        PROVE  Good(r)
    <2>1. Fair(doc, StatusOf(doc.kind, error))
      <3> HIDE DEF doc
      <3> QED BY <1>1, <1>2, OcrOutcome
    <2> QED BY <1>2, <2>1, AnswerGood DEF EndOcr
  <1>3. ASSUME stage[r] \in OcrStages, NEW next \in OcrStages, Moves(r, next), UNCHANGED <<settings, upload, got, status>>
        PROVE  Good(r)
    <2>1. stage[r] \notin Idle /\ next # "probing" /\ next \notin VoiceStages
      BY <1>3 DEF OcrStages, VoiceStages, Idle
    <2> QED BY <1>1, <1>3, <2>1, MovesGood
  <1>4. ASSUME NEW images, RenderPages(r, images)
        PROVE  Good(r)
    BY <1>2, <1>3, <1>4 DEF RenderPages, Moves, OcrStages
  <1>5. ASSUME NEW outcome, RenderingFails(r, outcome)
        PROVE  Good(r)
    <2>1. ToolError(outcome) # "none"
      BY DEF ToolError
    <2> QED BY <1>2, <1>5, <2>1 DEF RenderingFails, OcrStages
  <1>6. ASSUME RecognizePage(r)
        PROVE  Good(r)
    BY <1>3, <1>6 DEF RecognizePage, Moves, OcrStages
  <1>7. ASSUME NEW outcome, RecognitionFails(r, outcome)
        PROVE  Good(r)
    <2>1. ToolError(outcome) # "none"
      BY DEF ToolError
    <2> QED BY <1>2, <1>3, <1>7, <2>1 DEF RecognitionFails, Moves, OcrStages
  <1>8. ASSUME FinishOcr(r)
        PROVE  Good(r)
    <2> DEFINE error == Raised(OcrTextChecks(doc))
    <2>1. error = "none" => ~(doc.chars > MaxChars)
      <3> HIDE DEF doc, error
      <3> QED BY OcrTextOutcome DEF error
    <2>2. EndOcr(r, error) /\ stage[r] \in OcrStages
      BY <1>8 DEF FinishOcr, OcrStages
    <2> QED BY <1>2, <2>1, <2>2
  <1> QED BY <1>4, <1>5, <1>6, <1>7, <1>8 DEF Ocr

\* A recording that may be transcribed goes to the worker thread, or the
\* placeholder refuses it.
LEMMA TranscribingGood ==
    ASSUME Shape, LimitsInv, NEW r \in Requests, StartTranscribing(r), UNCHANGED <<settings, upload>>,
           stage[r] \notin Idle, upload[r] \in Documents, upload[r].kind \notin FileKinds, Within(upload[r])
    PROVE  Good(r)
  <1>1. CASE Answer(r, "NotImplemented")
    <2>1. Fair(upload[r], StatusOf(upload[r].kind, "NotImplemented"))
      BY RecordingFair
    <2> QED BY <1>1, <2>1, AnswerGood
  <1>2. CASE GoOn(r, "model", FALSE)
    BY <1>2, MovesGood DEF GoOn, Moves, OcrStages, VoiceStages
  <1> QED BY <1>1, <1>2 DEF StartTranscribing

\* A recording is refused; one that is too long, for that reason.
LEMMA RecordingRefused ==
    ASSUME Shape, LimitsInv, NEW r \in Requests, NEW error, error # "none", Answer(r, error),
           UNCHANGED <<settings, upload>>, upload[r].kind \notin FileKinds,
           TooLong(upload[r]) => error = "ProcessingLimit"
    PROVE  Good(r)
  <1>1. StatusOf(upload[r].kind, error) # 200
    BY Only200
  <1>2. Fair(upload[r], StatusOf(upload[r].kind, error))
    BY <1>1, LimitIs413 DEF Fair, Readable
  <1> QED BY <1>2, AnswerGood

LEMMA ValidateGood ==
    ASSUME Shape, LimitsInv, NEW r \in Requests, ValidateAudio(r)
    PROVE  Good(r)
  <1> DEFINE doc == upload[r]
             error == Raised(DurationChecks(doc))
             probe == error = "none" /\ doc.kind # "wav" /\ settings.prober = "ffprobe"
  <1>1. /\ doc \in Documents /\ doc.typed /\ doc.size <= MaxBytes
        /\ stage[r] = "reading" /\ doc.kind \notin FileKinds
    BY ReadWhole DEF ValidateAudio
  <1>7. TooLong(doc) => error = "ProcessingLimit"
    <2> HIDE DEF error
    <2> QED BY WavOutcome DEF TooLong, error
  <1>2. doc.kind = "wav" /\ error = "none" => doc.duration <= MaxDuration
    <2> SUFFICES ASSUME doc.kind = "wav", error = "none"
                 PROVE  doc.duration <= MaxDuration
      OBVIOUS
    <2>1. ~(doc.duration > MaxDuration)
      <3> HIDE DEF doc, error
      <3> QED BY WavOutcome DEF error
    <2>2. doc.duration \in Nat
      <3> HIDE DEF doc, error
      <3> QED BY <1>1, DocumentFacts
    <2> HIDE DEF doc
    <2> QED BY <2>1, <2>2, LimitFacts
  <1>3. /\ UNCHANGED <<settings, upload>>
        /\ \/ error # "none" /\ Answer(r, error)
           \/ probe /\ GoOn(r, "probing", TRUE)
           \/ error = "none" /\ ~probe /\ StartTranscribing(r)
    <2> HIDE DEF error
    <2> QED BY DEF ValidateAudio, error
  <1> HIDE DEF error
  <1>4. CASE error # "none" /\ Answer(r, error)
    BY <1>1, <1>3, <1>4, <1>7, RecordingRefused
  <1>5. CASE probe /\ GoOn(r, "probing", TRUE)
    <2>1. Moves(r, "probing") /\ UNCHANGED <<settings, upload, got, status>>
      BY <1>3, <1>5 DEF GoOn, Moves
    <2> QED BY <1>1, <1>5, <2>1, MovesGood DEF OcrStages, VoiceStages, Idle
  <1>6. CASE error = "none" /\ ~probe /\ StartTranscribing(r)
    <2>1. doc.kind = "wav" \/ settings.prober = "ffprobe" => doc.duration <= MaxDuration
      BY <1>2, <1>6
    <2>2. Within(doc)
      <3> HIDE DEF doc
      <3> QED BY <1>1, <2>1, RecordingWithin
    <2> QED BY <1>1, <1>3, <1>6, <2>2, TranscribingGood DEF Idle
  <1> QED BY <1>3, <1>4, <1>5, <1>6

LEMMA ProbeGood ==
    ASSUME Shape, LimitsInv, NEW r \in Requests, NEW outcome, ProbeDuration(r, outcome)
    PROVE  Good(r)
  <1> DEFINE doc == upload[r]
             found == Raised(ProbedChecks(doc))
             error == IF outcome # "ok" THEN ToolError(outcome) ELSE found
  <1>1. /\ stage[r] = "probing" /\ UNCHANGED <<settings, upload>>
        /\ IF error = "none" THEN StartTranscribing(r) ELSE Answer(r, error)
    <2> HIDE DEF found
    <2> QED BY DEF ProbeDuration, found
  <1>2. /\ doc \in Documents /\ doc.kind \notin FileKinds /\ doc.kind # "wav"
        /\ doc.typed /\ doc.size <= MaxBytes
    BY <1>1 DEF LimitsInv, RequestOK
  <1>3. error = "none" => doc.duration <= MaxDuration
    <2> SUFFICES ASSUME error = "none"
                 PROVE  doc.duration <= MaxDuration
      OBVIOUS
    <2>1. found = "none"
      BY DEF ToolError
    <2>2. ~(doc.duration > MaxDuration)
      <3> HIDE DEF doc, found
      <3> QED BY <2>1, ProbeOutcome DEF found
    <2>3. doc.duration \in Nat
      <3> HIDE DEF doc
      <3> QED BY <1>2, DocumentFacts
    <2> HIDE DEF doc
    <2> QED BY <2>2, <2>3, LimitFacts
  <1> HIDE DEF error
  <1>4. CASE error = "none"
    <2>1. Within(doc)
      <3> HIDE DEF doc
      <3> QED BY <1>2, <1>3, <1>4, RecordingWithin
    <2> QED BY <1>1, <1>2, <1>4, <2>1, TranscribingGood DEF Idle
  <1>5. CASE error # "none"
    BY <1>1, <1>2, <1>5, RecordingRefused DEF TooLong
  <1> QED BY <1>4, <1>5

LEMMA AudioGood ==
    ASSUME Shape, LimitsInv, NEW r \in Requests, Audio(r)
    PROVE  Good(r)
  <1>1. ASSUME stage[r] \in VoiceStages, NEW next \in VoiceStages, ThreadStep(r, stage[r], next)
        PROVE  Good(r)
    <2>1. /\ stage[r] \notin Idle /\ next # "probing" /\ next \notin OcrStages
          /\ Moves(r, next) /\ UNCHANGED <<settings, upload, got, status>>
      BY <1>1 DEF ThreadStep, Moves, OcrStages, VoiceStages, Idle
    <2>2. upload[r] \in Documents /\ upload[r].kind \notin FileKinds /\ Within(upload[r])
      BY <1>1 DEF LimitsInv, RequestOK
    <2> QED BY <1>1, <2>1, <2>2, MovesGood
  <1>2. ASSUME NEW from \in VoiceStages, NEW next \in VoiceStages, ThreadStep(r, from, next)
        PROVE  Good(r)
    BY <1>1, <1>2 DEF ThreadStep
  <1>3. CASE ValidateAudio(r)
    BY <1>3, ValidateGood
  <1>4. ASSUME NEW outcome, ProbeDuration(r, outcome)
        PROVE  Good(r)
    BY <1>4, ProbeGood
  <1>5. CASE ProbeFileFails(r)
    <2>1. upload[r].kind \notin FileKinds \cup {"wav"}
      BY <1>5 DEF ProbeFileFails, LimitsInv, RequestOK
    <2> QED BY <1>5, <2>1, RecordingRefused DEF ProbeFileFails, TooLong
  <1>6. CASE LookForModel(r) \/ LoadModel(r) \/ WriteAudio(r) \/ WritingFails(r)
    BY <1>2, <1>6 DEF LookForModel, LoadModel, WriteAudio, WritingFails, VoiceStages
  <1>9. ASSUME NEW next \in Failed, LoadingFails(r, next)
        PROVE  Good(r)
    BY <1>2, <1>9 DEF LoadingFails, Failed, VoiceStages
  <1>7. ASSUME NEW next \in Failed \cup {"transcribed"}, RunModel(r, next)
        PROVE  Good(r)
    BY <1>2, <1>7 DEF RunModel, Failed, VoiceStages
  <1>8. CASE Resume(r)
    <2>1. upload[r].kind \notin FileKinds /\ Within(upload[r]) /\ upload[r] \in Documents
      BY <1>8, FailedStages DEF Resume, LimitsInv, RequestOK, Failed, VoiceStages
    <2>2. PICK error : Answer(r, error)
      BY <1>8, Zenon DEF Resume
    <2>3. Fair(upload[r], StatusOf(upload[r].kind, error))
      BY <2>1, RecordingFair
    <2>4. UNCHANGED <<settings, upload>>
      BY <1>8 DEF Resume
    <2> QED BY <2>2, <2>3, <2>4, AnswerGood
  <1> QED BY <1>3, <1>4, <1>5, <1>6, <1>7, <1>8, <1>9, FailedStages DEF Audio

LEMMA ReturnGood ==
    ASSUME Shape, LimitsInv, NEW r \in Requests, Return(r)
    PROVE  Good(r)
  <1>1. /\ stage'[r] = "idle" /\ status'[r] = 0 /\ got' = got /\ got[r] = 0
    BY DEF Return, Shape, LimitsInv, RequestOK, Idle
  <1>2. RequestOK(r)'
    BY <1>1 DEF RequestOK, Idle, OcrStages, VoiceStages
  <1>3. got' \in [Requests -> 0..MaxBytes] /\ Only(r)
    BY DEF Return, Shape, LimitsInv, Only
  <1> QED BY <1>2, <1>3 DEF Good

LEMMA LimitsStep == Shape /\ LimitsInv /\ [IntakeNext]_vars => LimitsInv'
  <1> SUFFICES ASSUME Shape, LimitsInv, [IntakeNext]_vars
               PROVE  LimitsInv'
    OBVIOUS
  <1>1. ASSUME NEW r \in Requests, Good(r)
        PROVE  LimitsInv'
    <2>1. ASSUME NEW q \in Requests
          PROVE  RequestOK(q)'
      <3>1. CASE q = r
        BY <1>1, <3>1 DEF Good
      <3>2. CASE q # r
        <4>1. /\ stage'[q] = stage[q] /\ upload'[q] = upload[q] /\ got'[q] = got[q] /\ status'[q] = status[q]
              /\ settings' = settings /\ RequestOK(q)
          BY <1>1, <3>2 DEF Good, Only, LimitsInv
        <4>2. Within(upload[q])' <=> Within(upload[q])
          BY <4>1 DEF Within
        <4>3. Fair(upload[q], status[q])' <=> Fair(upload[q], status[q])
          BY <4>1, <4>2 DEF Fair
        <4> QED BY <4>1, <4>2, <4>3 DEF RequestOK
      <3> QED BY <3>1, <3>2
    <2> QED BY <1>1, <2>1 DEF LimitsInv, Good
  <1>2. ASSUME UNCHANGED vars
        PROVE  LimitsInv'
    BY <1>2 DEF vars, LimitsInv, RequestOK, Fair, Within
  <1>3. ASSUME IntakeNext
        PROVE  \E r \in Requests : Good(r)
    BY <1>3, RefuseGood, AdmitGood, ReadGood, ParseGood, OcrGood, AudioGood, ReturnGood DEF IntakeNext
  <1> QED BY <1>1, <1>2, <1>3

LEMMA LimitsHold == IntakeSpec => [](Shape /\ SlotsInv /\ LimitsInv)
  <1>1. IntakeInit => FieldsOK /\ LimitsInv
    <2> SUFFICES ASSUME IntakeInit
                 PROVE  FieldsOK /\ LimitsInv
      OBVIOUS
    <2>1. FieldsOK
      BY LimitFacts DEF IntakeInit, FieldsOK, Statuses
    <2>2. got \in [Requests -> 0..MaxBytes]
      BY LimitFacts DEF IntakeInit
    <2>3. \A r \in Requests : stage[r] = "idle" /\ got[r] = 0 /\ status[r] = 0
      BY DEF IntakeInit
    <2>4. \A r \in Requests : RequestOK(r)
      BY <2>3 DEF RequestOK, Idle, OcrStages, VoiceStages
    <2> QED BY <2>1, <2>2, <2>4 DEF LimitsInv
  <1>2. SlotsInv /\ FieldsOK => Shape
    BY DEF SlotsInv, Staged, FieldsOK, Shape
  <1>3. SlotsInv /\ FieldsOK /\ LimitsInv /\ [IntakeNext]_vars => FieldsOK' /\ LimitsInv'
    BY <1>2, FieldsStep, LimitsStep
  <1> QED BY <1>1, <1>2, <1>3, SlotsInvHolds, PTL DEF IntakeSpec

\* A text reaches the engine only from a file within every limit that is set.
THEOREM TextsAreWithinLimits == IntakeSpec => []AcceptedWithinLimits
  <1>1. Shape /\ LimitsInv => AcceptedWithinLimits
    <2> SUFFICES ASSUME LimitsInv, NEW r \in Requests, status[r] = 200
                 PROVE  Within(upload[r])
      BY DEF AcceptedWithinLimits, Within, SizedRight
    <2> QED BY DEF LimitsInv, RequestOK, Fair
  <1> QED BY <1>1, LimitsHold, PTL

\* A file over a limit of its kind, or a WAV recording that is too long, is
\* answered 413 by every check that can find it out: not one that was refused
\* for its type or form first, and not a recording of too many bytes.
THEOREM TooMuchIsAnswered413 == IntakeSpec => []LimitAnswered413
  <1>1. Shape /\ LimitsInv => LimitAnswered413
    <2> SUFFICES ASSUME LimitsInv, NEW r \in Requests, stage[r] = "answered", status[r] # 503,
                        (Readable(upload[r]) /\ Excess(upload[r])) \/ TooLong(upload[r])
                 PROVE  status[r] = 413
      BY DEF LimitAnswered413, Readable, Excess, BigEntry, TooLong
    <2> QED BY DEF LimitsInv, RequestOK, Fair
  <1> QED BY <1>1, LimitsHold, PTL

\* All uploads in memory together fit into the slots times the size limit.
THEOREM HeldBytesAreBounded == IntakeSpec => []HeldBounded
  <1>1. Shape /\ SlotsInv /\ LimitsInv => HeldBounded
    <2> SUFFICES ASSUME SlotsInv, LimitsInv
                 PROVE  HeldBounded
      OBVIOUS
    <2> DEFINE sum == SumFunctionOnSet(got, Requests)
               n == Cardinality(Busy)
    <2>1. Busy \in SUBSET Requests
      BY DEF Busy
    <2>2. \A r \in Requests : got[r] \in Nat /\ got[r] <= MaxBytes
      BY LimitFacts DEF LimitsInv
    <2>3. \A r \in Requests \ Busy : got[r] = 0
      BY DEF Busy, LimitsInv, RequestOK
    <2>4. sum <= n * MaxBytes /\ sum \in Nat
      BY <2>1, <2>2, <2>3, LimitFacts, RequestsAssumption, SumBound
    <2>5. n \in Nat /\ n <= MaxConcurrency
      BY Counts DEF SlotsInv
    <2>6. SumFunction(got) = sum
      BY DEF SumFunction, LimitsInv
    <2> HIDE DEF sum, n
    <2>7. n * MaxBytes <= MaxConcurrency * MaxBytes
      BY <2>5, LimitFacts
    <2>8. n * MaxBytes \in Int /\ MaxConcurrency * MaxBytes \in Int
      BY <2>5, LimitFacts
    <2> QED BY <2>4, <2>6, <2>7, <2>8 DEF HeldBounded
  <1> QED BY <1>1, LimitsHold, PTL
===================================================================================
