------------------------------- MODULE UploadIntake -------------------------------
(***************************************************************************)
(* What happens to an uploaded file before the engine sees its text:       *)
(* upload_reader.py, file_parser.py and audio_transcriber.py, under the    *)
(* upload limiter and the routes that turn an exception into a status.     *)
(*                                                                         *)
(* The handlers run on one event loop and give it up only while a chunk is *)
(* read or a worker thread transcribes; the OCR tools are waited for with  *)
(* the loop held.  Sizes, pages, characters and durations are small        *)
(* numbers around the limits.                                              *)
(***************************************************************************)
EXTENDS Integers, Sequences, FiniteSets, FiniteSetsExt, Functions

CONSTANTS
    Requests,        \* the upload requests
    Documents,       \* the files that may be uploaded
    Nobody,          \* no request
    MaxConcurrency,  \* settings.upload_max_concurrency
    MaxBytes,        \* effective_upload_max_bytes
    Chunk,           \* DEFAULT_UPLOAD_READ_CHUNK_SIZE
    MaxChars,        \* MAX_EXTRACTED_TEXT_CHARS
    MaxPages,        \* MAX_PDF_PAGES
    MaxOcrPages,     \* MAX_OCR_PAGES
    MaxEntry,        \* MAX_OFFICE_XML_ENTRY_BYTES
    MaxEntries,      \* MAX_OFFICE_XML_TOTAL_BYTES
    MaxSections,     \* MAX_HWPX_SECTION_XML_FILES
    MaxDuration      \* MAX_AUDIO_DURATION_SECONDS

ASSUME RequestsAssumption == IsFiniteSet(Requests) /\ Nobody \notin Requests
ASSUME BoundsAssumption ==
    /\ {MaxConcurrency, MaxBytes, Chunk, MaxChars, MaxPages, MaxOcrPages} \subseteq Nat
    /\ {MaxEntry, MaxEntries, MaxSections, MaxDuration} \subseteq Nat
    /\ MaxEntry <= MaxEntries /\ 1 <= MaxSections

\* Pages, archive entries and a duration are had by files of the kinds that
\* have them; a document of Word is one entry of its archive, and an archive
\* without the entries that are read has no text.
ASSUME DocumentsAssumption ==
    \A doc \in Documents :
        /\ {doc.typed, doc.sized} \subseteq BOOLEAN
        /\ {doc.size, doc.chars, doc.pages, doc.duration} \subseteq Nat
        /\ doc.entries \in Seq(Nat)
        /\ doc.kind # "pdf" => doc.pages = 0
        /\ doc.kind \notin {"docx", "hwpx"} => doc.entries = <<>>
        /\ doc.kind = "docx" => Len(doc.entries) <= 1
        /\ doc.kind \in {"docx", "hwpx"} /\ doc.entries = <<>> => doc.chars = 0
        /\ doc.kind \in {"text", "pdf", "docx", "hwpx", "hwp"} => doc.duration = 0

VARIABLES
    settings,   \* the deployment: audio prober, transcriber, command-line tools
    stage,      \* how far the handler of a request is
    upload,     \* the file of the request
    got,        \* total_size: the bytes of it that are held
    pagesLeft,  \* pages the OCR has still to read
    status,     \* the HTTP status that answers the request
    active,     \* the limiter's _active
    loop,       \* the request that holds the event loop across steps
    temps,      \* whose temporary files are on disk; Nobody's: those no handler deletes
    model,      \* whether the transcriber's _model is set
    loads       \* how often the model has been loaded

vars == <<settings, stage, upload, got, pagesLeft, status, active, loop, temps, model, loads>>
modelVars == <<model, loads>>

FileKinds == {"text", "pdf", "docx", "hwpx", "hwp"}

NoDocument ==
    [kind |-> "text", typed |-> TRUE, sized |-> TRUE, size |-> 0, form |-> "ok", chars |-> 1,
     pages |-> 0, entries |-> <<>>, duration |-> 0]

Deployments ==
    [prober : {"none", "ffprobe", "other"}, transcriber : {"placeholder", "whisper"}, tools : BOOLEAN]

-----------------------------------------------------------------------------
(* Exceptions and statuses.                                                *)

ValueErrors == {"FileTooLarge", "EmptyFile", "Unsupported", "InvalidEncoding", "ProcessingLimit"}

\* isinstance(error, class)
IsA(error, class) == error = class \/ (class = "ValueError" /\ error \in ValueErrors)

\* The except clauses of a route, in their order.
FileClauses ==
    <<<<"Concurrency", 503>>, <<"ProcessingLimit", 413>>, <<"FileTooLarge", 413>>, <<"EmptyFile", 400>>,
      <<"InvalidEncoding", 415>>, <<"Unsupported", 415>>, <<"ValueError", 415>>>>

AudioClauses ==
    <<<<"Concurrency", 503>>, <<"NotImplemented", 501>>, <<"ProcessingLimit", 413>>, <<"FileTooLarge", 413>>,
      <<"EmptyFile", 400>>, <<"Unsupported", 415>>, <<"ValueError", 415>>>>

Clauses(kind) == IF kind \in FileKinds THEN FileClauses ELSE AudioClauses

Fitting(kind, error) == {i \in DOMAIN Clauses(kind) : IsA(error, Clauses(kind)[i][1])}

\* Mutant: the most general clause is tried first.
StatusByLastClause(kind, error) ==
    IF error = "none" THEN 200
    ELSE IF Fitting(kind, error) = {} THEN 500
    ELSE Clauses(kind)[Max(Fitting(kind, error))][2]

\* The first clause that fits; without one the server answers 500.
StatusOf(kind, error) ==
    IF error = "none" THEN 200
    ELSE IF Fitting(kind, error) = {} THEN 500
    ELSE Clauses(kind)[Min(Fitting(kind, error))][2]

-----------------------------------------------------------------------------
(* The checks of the parsers: pairs of a condition and the exception it    *)
(* raises, in the order of the code.                                       *)

Raised(checks) ==
    LET true == {i \in DOMAIN checks : checks[i][1]}
    IN IF true = {} THEN "none" ELSE checks[Min(true)][2]

\* Extension, content type, and the size where the form parser counted it.
AnnouncedChecks(doc) ==
    LET oversize == doc.sized /\ doc.size > MaxBytes
    IN IF doc.kind \in FileKinds
       THEN <<<<doc.kind = "hwp", "Unsupported">>, <<~doc.typed, "Unsupported">>, <<oversize, "FileTooLarge">>>>
       ELSE <<<<~doc.typed, "ValueError">>, <<oversize, "ValueError">>>>

\* read_limited_upload's error_factory.
Oversize(doc) == IF doc.kind \in FileKinds THEN "FileTooLarge" ELSE "ValueError"

\* _enforce_extracted_text_limit
TextLimit(doc) == <<doc.chars > MaxChars, "ProcessingLimit">>

TextChecks(doc) ==
    <<<<doc.form = "bad", "InvalidEncoding">>, <<doc.chars = 0, "EmptyFile">>, TextLimit(doc)>>

\* A PDF, up to the question whether its text must come from OCR.
PdfChecks(doc) ==
    LET scanned == doc.form = "scanned"
    IN <<<<doc.form \in {"bad", "encrypted"}, "ValueError">>,
         <<doc.form = "odd", "OtherError">>,
         <<doc.pages > MaxPages, "ProcessingLimit">>,
         <<scanned /\ doc.pages > MaxOcrPages, "ProcessingLimit">>,
         <<scanned /\ ~settings.tools, "ValueError">>,
         <<~scanned /\ doc.chars > MaxChars, "ProcessingLimit">>>>

OcrTextChecks(doc) == <<<<doc.chars = 0, "ValueError">>, TextLimit(doc)>>

DocxChecks(doc) ==
    <<<<doc.form = "bad" \/ doc.entries = <<>>, "ValueError">>,
      <<\E i \in DOMAIN doc.entries : doc.entries[i] > MaxEntry, "ProcessingLimit">>,
      <<doc.form = "odd", "OtherError">>,
      <<doc.form = "badxml" \/ doc.chars = 0, "ValueError">>,
      TextLimit(doc)>>

\* Mutant: the sections are only looked at one by one.
HwpxChecksByEntry(doc) ==
    <<<<doc.form = "bad" \/ doc.entries = <<>>, "ValueError">>,
      <<Len(doc.entries) > MaxSections, "ProcessingLimit">>,
      <<\E i \in DOMAIN doc.entries : doc.entries[i] > MaxEntry, "ProcessingLimit">>,
      <<doc.form = "odd", "OtherError">>,
      <<doc.form = "badxml" \/ doc.chars = 0, "ValueError">>,
      TextLimit(doc)>>

HwpxChecks(doc) ==
    <<<<doc.form = "bad" \/ doc.entries = <<>>, "ValueError">>,
      <<Len(doc.entries) > MaxSections, "ProcessingLimit">>,
      <<\E i \in DOMAIN doc.entries : doc.entries[i] > MaxEntry, "ProcessingLimit">>,
      <<SumFunction(doc.entries) > MaxEntries, "ProcessingLimit">>,
      <<doc.form = "odd", "OtherError">>,
      <<doc.form = "badxml" \/ doc.chars = 0, "ValueError">>,
      TextLimit(doc)>>

ParserChecks(doc) ==
    CASE doc.kind = "text" -> TextChecks(doc)
      [] doc.kind = "pdf" -> PdfChecks(doc)
      [] doc.kind = "docx" -> DocxChecks(doc)
      [] doc.kind = "hwpx" -> HwpxChecks(doc)

DurationLimit(doc) == <<doc.duration > MaxDuration, "ProcessingLimit">>

\* _validate_wav_duration, or _validate_non_wav_duration without the probe.
DurationChecks(doc) ==
    IF doc.kind = "wav" THEN <<<<doc.form = "bad", "ValueError">>, DurationLimit(doc)>>
    ELSE <<<<settings.prober = "other", "ValueError">>,
           <<settings.prober = "ffprobe" /\ ~settings.tools, "ValueError">>>>

\* What ffprobe has found: _validate_non_wav_duration's last checks.
ProbedChecks(doc) == <<<<doc.duration <= 0, "ValueError">>, DurationLimit(doc)>>

-----------------------------------------------------------------------------
IntakeInit ==
    /\ settings \in Deployments
    /\ stage = [r \in Requests |-> "idle"]
    /\ upload = [r \in Requests |-> NoDocument]
    /\ got = [r \in Requests |-> 0]
    /\ pagesLeft = [r \in Requests |-> 0]
    /\ status = [r \in Requests |-> 0]
    /\ active = 0
    /\ loop = Nobody
    /\ temps = {}
    /\ model = FALSE
    /\ loads = 0

OnLoop(r) == loop \in {Nobody, r}

\* The handler ends: the route's status, and the slot is given back.
Answer(r, error) ==
    /\ stage' = [stage EXCEPT ![r] = "answered"]
    /\ status' = [status EXCEPT ![r] = StatusOf(upload[r].kind, error)]
    /\ got' = [got EXCEPT ![r] = 0]
    /\ pagesLeft' = [pagesLeft EXCEPT ![r] = 0]
    /\ active' = IF active > 0 THEN active - 1 ELSE active
    /\ loop' = Nobody

\* The handler goes on in another stage; held says whether it keeps the loop.
GoOn(r, next, held) ==
    /\ stage' = [stage EXCEPT ![r] = next]
    /\ loop' = IF held THEN r ELSE Nobody
    /\ UNCHANGED <<got, pagesLeft, status, active>>

\* No slot is free.
Refuse(r) ==
    /\ stage[r] = "idle" /\ loop = Nobody
    /\ active >= MaxConcurrency
    /\ stage' = [stage EXCEPT ![r] = "answered"]
    /\ status' = [status EXCEPT ![r] = StatusOf("text", "Concurrency")]
    /\ UNCHANGED <<settings, upload, got, pagesLeft, active, loop, temps, modelVars>>

\* Mutant: a file refused unread keeps its slot.
AdmitKeepingSlot(r, doc) ==
    LET error == Raised(AnnouncedChecks(doc))
    IN /\ stage[r] = "idle" /\ loop = Nobody
       /\ active < MaxConcurrency
       /\ upload' = [upload EXCEPT ![r] = doc]
       /\ active' = active + 1
       /\ stage' = [stage EXCEPT ![r] = IF error = "none" THEN "reading" ELSE "answered"]
       /\ status' = [status EXCEPT ![r] = IF error = "none" THEN 0 ELSE StatusOf(doc.kind, error)]
       /\ UNCHANGED <<settings, got, pagesLeft, loop, temps, modelVars>>

\* Mutant: one request more than the limit gets a slot.
AdmitOneMore(r, doc) ==
    LET error == Raised(AnnouncedChecks(doc))
    IN /\ stage[r] = "idle" /\ loop = Nobody
       /\ active <= MaxConcurrency
       /\ error = "none"
       /\ upload' = [upload EXCEPT ![r] = doc]
       /\ active' = active + 1
       /\ stage' = [stage EXCEPT ![r] = "reading"]
       /\ UNCHANGED <<settings, status, got, pagesLeft, loop, temps, modelVars>>

\* A slot, and the checks that need no byte of the file.
Admit(r, doc) ==
    LET error == Raised(AnnouncedChecks(doc))
    IN /\ stage[r] = "idle" /\ loop = Nobody
       /\ active < MaxConcurrency
       /\ upload' = [upload EXCEPT ![r] = doc]
       /\ IF error = "none"
          THEN /\ active' = active + 1
               /\ stage' = [stage EXCEPT ![r] = "reading"]
               /\ UNCHANGED status
          ELSE /\ stage' = [stage EXCEPT ![r] = "answered"]
               /\ status' = [status EXCEPT ![r] = StatusOf(doc.kind, error)]
               /\ UNCHANGED active
       /\ UNCHANGED <<settings, got, pagesLeft, loop, temps, modelVars>>

\* A chunk of n bytes arrives; one that exceeds the limit is not kept.
ReadChunk(r, n) ==
    /\ stage[r] = "reading" /\ OnLoop(r)
    /\ got[r] < upload[r].size
    /\ IF got[r] + n > MaxBytes THEN Answer(r, Oversize(upload[r]))
       ELSE /\ got' = [got EXCEPT ![r] = @ + n]
            /\ UNCHANGED <<stage, pagesLeft, status, active, loop>>
    /\ UNCHANGED <<settings, upload, temps, modelVars>>

ReadToEnd(r) == stage[r] = "reading" /\ OnLoop(r) /\ got[r] = upload[r].size

\* The file is parsed without another await; a scanned PDF goes on to OCR, in
\* a temporary directory.
ParseFile(r) ==
    LET doc == upload[r]
        error == Raised(ParserChecks(doc))
        ocr == error = "none" /\ doc.form = "scanned"
    IN /\ ReadToEnd(r) /\ doc.kind \in FileKinds
       /\ IF ocr THEN GoOn(r, "rendering", TRUE) ELSE Answer(r, error)
       /\ temps' = IF ocr THEN temps \cup {r} ELSE temps
       /\ UNCHANGED <<settings, upload, modelVars>>

-----------------------------------------------------------------------------
(* OCR, with the loop held.  A tool succeeds, fails or runs into its       *)
(* timeout; a failure is swallowed and leaves an empty text.               *)

ToolError(outcome) == IF outcome = "timeout" THEN "ProcessingLimit" ELSE "ValueError"

\* The directory is removed as the with statement is left, however it is left.
EndOcr(r, error) ==
    /\ Answer(r, error)
    /\ temps' = temps \ {r}
    /\ UNCHANGED <<settings, upload, modelVars>>

\* pdftoppm makes an image of every page.
RenderPages(r, images) ==
    /\ stage[r] = "rendering"
    /\ IF images > MaxOcrPages THEN EndOcr(r, "ProcessingLimit")
       ELSE /\ stage' = [stage EXCEPT ![r] = "recognizing"]
            /\ pagesLeft' = [pagesLeft EXCEPT ![r] = images]
            /\ UNCHANGED <<settings, upload, got, status, active, loop, temps, modelVars>>

RenderingFails(r, outcome) == stage[r] = "rendering" /\ EndOcr(r, ToolError(outcome))

\* tesseract reads the next image, with the languages or, on a second try, without.
RecognizePage(r) ==
    /\ stage[r] \in {"recognizing", "retrying"} /\ pagesLeft[r] > 0
    /\ stage' = [stage EXCEPT ![r] = "recognizing"]
    /\ pagesLeft' = [pagesLeft EXCEPT ![r] = @ - 1]
    /\ UNCHANGED <<settings, upload, got, status, active, loop, temps, modelVars>>

RecognitionFails(r, outcome) ==
    /\ stage[r] \in {"recognizing", "retrying"} /\ pagesLeft[r] > 0
    /\ IF stage[r] = "recognizing" /\ outcome = "failed"
       THEN /\ stage' = [stage EXCEPT ![r] = "retrying"]
            /\ UNCHANGED <<settings, upload, got, pagesLeft, status, active, loop, temps, modelVars>>
       ELSE EndOcr(r, ToolError(outcome))

FinishOcr(r) ==
    /\ stage[r] = "recognizing" /\ pagesLeft[r] = 0
    /\ EndOcr(r, Raised(OcrTextChecks(upload[r])))

-----------------------------------------------------------------------------
(* Audio.                                                                  *)

\* _read_validated_audio has returned: the placeholder gives up, Whisper goes
\* to a worker thread and frees the loop.
StartTranscribing(r) ==
    IF settings.transcriber = "placeholder" THEN Answer(r, "NotImplemented") ELSE GoOn(r, "model", FALSE)

ValidateAudio(r) ==
    LET doc == upload[r]
        error == Raised(DurationChecks(doc))
        probe == error = "none" /\ doc.kind # "wav" /\ settings.prober = "ffprobe"
    IN /\ ReadToEnd(r) /\ doc.kind \notin FileKinds
       /\ \/ error # "none" /\ Answer(r, error)
          \/ probe /\ GoOn(r, "probing", TRUE)
          \/ error = "none" /\ ~probe /\ StartTranscribing(r)
       /\ temps' = IF probe THEN temps \cup {r} ELSE temps
       /\ UNCHANGED <<settings, upload, modelVars>>

\* Mutant: the file is deleted when the probe has succeeded.
ProbeDurationKeeping(r, outcome) ==
    LET error == IF outcome # "ok" THEN ToolError(outcome)
                 ELSE Raised(ProbedChecks(upload[r]))
    IN /\ stage[r] = "probing"
       /\ IF error = "none" THEN StartTranscribing(r) ELSE Answer(r, error)
       /\ temps' = IF outcome = "ok" THEN temps \ {r} ELSE temps
       /\ UNCHANGED <<settings, upload, modelVars>>

\* ffprobe has run on the temporary file, which is deleted in any case.
ProbeDuration(r, outcome) ==
    LET error == IF outcome # "ok" THEN ToolError(outcome)
                 ELSE Raised(ProbedChecks(upload[r]))
    IN /\ stage[r] = "probing"
       /\ IF error = "none" THEN StartTranscribing(r) ELSE Answer(r, error)
       /\ temps' = temps \ {r}
       /\ UNCHANGED <<settings, upload, modelVars>>

\* The temporary file for ffprobe cannot be written: what there is of it stays,
\* for the write is outside the try statement that deletes the file.
ProbeFileFails(r) ==
    /\ stage[r] = "probing"
    /\ Answer(r, "OtherError")
    /\ temps' = (temps \ {r}) \cup {Nobody}
    /\ UNCHANGED <<settings, upload, modelVars>>

\* A step of the worker thread, beside the loop.
ThreadStep(r, from, next) ==
    /\ stage[r] = from
    /\ stage' = [stage EXCEPT ![r] = next]
    /\ UNCHANGED <<settings, upload, got, pagesLeft, status, active, loop>>

\* How the worker thread ends with an exception, by what the route makes of it.
Thrown == [raised |-> "OtherError", refused |-> "ValueError", unsupported |-> "NotImplemented"]

\* self._model is None?
LookForModel(r) ==
    /\ ThreadStep(r, "model", IF model THEN "writing" ELSE "loading")
    /\ UNCHANGED <<temps, modelVars>>

\* Mutant: a loaded model is not kept for the next request.
LoadModelForOne(r) ==
    /\ ThreadStep(r, "loading", "writing")
    /\ loads' = loads + 1
    /\ UNCHANGED <<temps, model>>

LoadModel(r) ==
    /\ ThreadStep(r, "loading", "writing")
    /\ model' = TRUE
    /\ loads' = loads + 1
    /\ UNCHANGED temps

LoadingFails(r, next) == ThreadStep(r, "loading", next) /\ UNCHANGED <<temps, modelVars>>

WriteAudio(r) ==
    /\ ThreadStep(r, "writing", "transcribing")
    /\ temps' = temps \cup {r}
    /\ UNCHANGED modelVars

\* This write, too, is outside the try statement that deletes the file.
WritingFails(r) ==
    /\ ThreadStep(r, "writing", "raised")
    /\ temps' = temps \cup {Nobody}
    /\ UNCHANGED modelVars

RunModel(r, next) ==
    /\ ThreadStep(r, "transcribing", next)
    /\ temps' = temps \ {r}
    /\ UNCHANGED modelVars

\* The handler is resumed on the loop.
Resume(r) ==
    /\ stage[r] \in DOMAIN Thrown \cup {"transcribed"} /\ loop = Nobody
    /\ Answer(r, IF stage[r] \in DOMAIN Thrown THEN Thrown[stage[r]]
                 ELSE Raised(<<<<upload[r].chars = 0, "ValueError">>>>))
    /\ UNCHANGED <<settings, upload, temps, modelVars>>

\* The client has its answer and may come back with another file.
Return(r) ==
    /\ stage[r] = "answered"
    /\ stage' = [stage EXCEPT ![r] = "idle"]
    /\ status' = [status EXCEPT ![r] = 0]
    /\ upload' = [upload EXCEPT ![r] = NoDocument]
    /\ UNCHANGED <<settings, got, pagesLeft, active, loop, temps, modelVars>>

Ocr(r) ==
    \/ \E images \in 0..(MaxOcrPages + 1) : RenderPages(r, images)
    \/ \E outcome \in {"failed", "timeout"} : RenderingFails(r, outcome)
    \/ RecognizePage(r)
    \/ \E outcome \in {"failed", "timeout"} : RecognitionFails(r, outcome)
    \/ FinishOcr(r)

Audio(r) ==
    \/ ValidateAudio(r)
    \/ \E outcome \in {"ok", "failed", "timeout"} : ProbeDuration(r, outcome)
    \/ ProbeFileFails(r)
    \/ LookForModel(r)
    \/ LoadModel(r)
    \/ \E next \in DOMAIN Thrown : LoadingFails(r, next)
    \/ WriteAudio(r)
    \/ WritingFails(r)
    \/ \E next \in DOMAIN Thrown \cup {"transcribed"} : RunModel(r, next)
    \/ Resume(r)

IntakeNext ==
    \E r \in Requests :
        \/ Refuse(r)
        \/ stage[r] = "idle" /\ \E doc \in Documents : Admit(r, doc)
        \/ \E n \in 1..Chunk : got[r] + n <= upload[r].size /\ ReadChunk(r, n)
        \/ ParseFile(r)
        \/ Ocr(r)
        \/ Audio(r)
        \/ Return(r)

IntakeSpec == IntakeInit /\ [][IntakeNext]_vars

-----------------------------------------------------------------------------
(* Properties.                                                             *)

Stages ==
    {"idle", "reading", "rendering", "recognizing", "retrying", "probing", "model", "loading",
     "writing", "transcribing", "transcribed", "raised", "refused", "unsupported", "answered"}

\* Types, and the slots: one for every handler that is at work.
IntakeTypeOK ==
    /\ stage \in [Requests -> Stages]
    /\ \A r \in Requests : upload[r] \in Documents \cup {NoDocument}
    /\ status \in [Requests -> {0, 200, 400, 413, 415, 500, 501, 503}]
    /\ loop \in Requests \cup {Nobody}
    /\ temps \subseteq Requests \cup {Nobody} /\ model \in BOOLEAN
    /\ active = Cardinality({r \in Requests : stage[r] \notin {"idle", "answered"}})

\* A text reaches the engine only from a file within every limit, by whichever
\* of the checks (announced size, bytes read, pages, entries, characters,
\* duration) and whatever way (text layer, OCR, archive, prober) it came.  The
\* duration of a compressed audio file is limited only where ffprobe is set.
AcceptedWithinLimits ==
    \A r \in Requests : status[r] = 200 =>
        LET doc == upload[r]
        IN /\ doc.typed /\ doc.size <= MaxBytes
           /\ doc.kind \in FileKinds => doc.chars <= MaxChars
           /\ doc.pages <= (IF doc.form = "scanned" THEN MaxOcrPages ELSE MaxPages)
           /\ Len(doc.entries) <= MaxSections
           /\ \A i \in DOMAIN doc.entries : doc.entries[i] <= MaxEntry
           /\ SumFunction(doc.entries) <= MaxEntries
           /\ doc.kind = "wav" \/ settings.prober = "ffprobe" => doc.duration <= MaxDuration

\* What all handlers together hold of their uploads stays within the limiter's
\* slots times the size limit, whether or not a size was announced.
HeldBounded == SumFunction(got) <= MaxConcurrency * MaxBytes

\* A temporary file that could be written, and the directory of the OCR, lives no
\* longer than the call that needs it, whether that ends with a text, an exception
\* or a timeout.  Only what a failed write has left behind stays for good.
NoTempLeft ==
    temps \subseteq {Nobody} \cup {r \in Requests :
        stage[r] \in {"rendering", "recognizing", "retrying", "probing", "transcribing"}}

\* The model is loaded lazily and without a lock: at most once for each of the
\* uploads that may be processed together, and never again after that.
LoadsBounded == loads <= MaxConcurrency

\* A file over a limit of its kind, or a WAV recording that is too long, is
\* answered 413 at whatever check that is found out, although most exceptions in
\* the route's clauses are one another's kin.  Not meant are a file refused for
\* its type or form first, the text that OCR reads (a tool may fail before it is
\* measured), a compressed recording (ffprobe may fail), and a recording of too
\* many bytes, which OversizeAnswered413 is about.
LimitAnswered413 ==
    \A r \in Requests :
        LET doc == upload[r]
            tooMuch == \/ doc.size > MaxBytes
                       \/ doc.kind = "pdf" /\ doc.pages > MaxPages
                       \/ doc.kind = "pdf" /\ doc.form = "scanned" /\ doc.pages > MaxOcrPages
                       \/ doc.kind = "hwpx" /\ Len(doc.entries) > MaxSections
                       \/ \E i \in DOMAIN doc.entries : doc.entries[i] > MaxEntry
                       \/ doc.kind = "hwpx" /\ SumFunction(doc.entries) > MaxEntries
                       \/ doc.form = "ok" /\ doc.chars > MaxChars
            tooLong == doc.kind = "wav" /\ doc.size <= MaxBytes /\ doc.duration > MaxDuration
        IN /\ stage[r] = "answered" /\ status[r] # 503 /\ doc.typed
           /\ \/ doc.kind \in FileKinds \ {"hwp"} /\ doc.form \in {"ok", "scanned"} /\ tooMuch
              \/ doc.form # "bad" /\ tooLong
           => status[r] = 413

\* The design note on uploads says that 413 is already used for the byte limits
\* of files and of audio.
OversizeAnswered413 ==
    \A r \in Requests :
        LET doc == upload[r]
        IN /\ stage[r] = "answered" /\ status[r] # 503
           /\ doc.typed /\ doc.kind # "hwp" /\ doc.size > MaxBytes
           => status[r] = 413
=================================================================================
