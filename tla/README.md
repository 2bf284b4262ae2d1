# A TLA+ model of the IPU security filter

The repository holds a service that takes text, documents and recordings,
replaces personal data in them by tokens, hands the replaced text out for use
with an outside language model, and puts the original values back into the
answer. The mappings between tokens and originals live for a limited time (TTL,
900 seconds by default) in a session store. Around this core stand the detector
that decides what is masked, the parsers and the transcriber that turn an upload
into a text, the page that shows all of it, and a script that approves the
templates the page fills.

This directory models all of these: the specifications, the TLC configurations
that check them on small instances, and TLAPS proofs of their safety properties
for all instances. `PROJECT.json` says, for every definition, which lines of
the source it stands for.

## Inventory

| Component | State | Operations | What must hold |
|---|---|---|---|
| SQLite session store, `engine/src/session_store.py` | tables `session_mappings`, `session_expirations`, `session_restore_tokens`, `session_owners`; clock | `save_mapping`, `save_restore_token_hash`, `save_owner_hash`, `verify_*`, `get_mappings`, `list_sessions`, `get_session_metadata`, `clear`, `cleanup_expired_sessions` | the four expiries stay in step; an expired session shows nothing; nothing expired survives a clean-up |
| In-memory store, same file | one record per session, one expiry for mappings, token and owner | the same protocol without the history queries | the same promise as SQLite |
| Manual preview service, `backend/app/services/manual_preview_service.py` | the limiter's `_active`; the requests in progress | `build_preview`, `build_file_preview`, `build_audio_preview`, `restore_preview` | the limiter counts exactly; a preview that can be restored is complete; a restore is whole or refused |
| Restorer, `engine/src/restorer.py` | none | `restore`: verifies owner and token again, reads, substitutes | round trip; an expired session is an ordinary answer |
| Replacer, `engine/src/replacer.py`; local rewriter | `_session_salt`; counters per call | `replace`: counters, tokens, one `save_mapping` per detection | tokens are distinct within a session; restoring gives the text back |
| Detector, `engine/src/detector.py` | none | `detect`: normalize, candidates, map back, select without overlap | disjoint spans that cover their matches; nothing passed over without cause |
| Engine, report, readiness, `manual_preview_engine.py` | none | `manual_preview` | nothing is ready to send with residues |
| Clean-up task, `backend/app/main.py` | the asyncio task | every 300 s, on the event loop | everything expired goes in the end |
| Session script, `scripts/manage_manual_preview_sessions.py` | a process of its own on the same file | `stats`, `cleanup` | safe beside the running backend |
| Session history, `session_service.py`, `routes/sessions.py` | none of its own | list, metadata, mappings of an owner | a live session is found by its owner (it is not always: `live_session_found`) |
| Upload reader, file parsers, transcriber | Whisper's lazily loaded `_model` | read with a limit, parse, OCR, transcribe in a thread | limits at the boundary, on every way in; temporary files that could be written go; the model is loaded a bounded number of times |
| Settings, authentication, rate limit | read once | owner hash of the caller | limits are positive |
| Workbench, `frontend/src/main.js` | one state object | previews, file and audio uploads, comparison, restore | the input panel never shows another text than the one previewed; every request ends |
| Restore-token cache, `frontend/src/services/manualPreviewApi.js` | a `Map` with issue and access times | remember, get, prune, trim | bounded; least recently used goes first; no expired token is sent |
| Template mode, `scripts/promote_template.py`, `frontend/src/template-mode-main.js` | files under `templates/`; the page's template and values | validate, check, write; select, load, enter | what is approved is valid unless two runs wrote it at once, and overwritten only in a race; values stay with their template |

How they interact: a route calls the service on the event loop; the service
writes owner and token rows, awaits the parser or the transcriber (uploads
only), and calls the engine, whose replacer writes one mapping per detection.
A restore verifies token and owner in the service and both again in the
restorer, then reads. The clean-up task runs on the same loop between requests.
The script is another process on the same database file. All of these share
only the database, the limiter and the clock. The history routes read the same
tables. The page knows the backend by its answers alone, and the templates by
the files under `templates/approved`.

What is hard: requests interleave at their awaits; time passes inside a
request; the script selects and deletes in two steps; four tables carry
four expiries that no foreign key ties together; a crash leaves half-written
sessions behind; clean-up is lazy, and has to be invisible. Positions found in
a normalized text are used in the original; readiness compares two selections
of which neither holds everything that was found. Limits are checked at a dozen
places, and most of the exceptions that report them are one another's kin. The
page's requests are answered in any order.

The full list of hazards, each with its line and with the properties that
watch it, or a note saying why none does, is in `PROJECT.json`.

## Modules

| Module | Stands for |
|---|---|
| `MappingVault` | the abstract promise of a session store: contents and a deadline per session, emptied at the tick that reaches the deadline |
| `SessionStore` | `SQLiteSessionStore`: tables, helpers, one action per operation |
| `InMemorySessionStore` | `InMemorySessionStore`: one record per session with one expiry |
| `StoreConformance` | both stores under the same calls, and the look-up of a session in the history API over the SQLite one |
| `PreviewService` | `ManualPreviewService` over the SQLite store: text and upload requests, the limiter, restores, clean-up task, script, restart, clock |
| `Detector` | normalization and the way back, policies, candidates and their selection |
| `ManualPreviewEngine` | a preview from detection to restore: `Detector`, the token replacer, the local rewriter, the report, readiness, the restorer's substitution |
| `UploadIntake` | the limiter, the reader, the parsers with OCR, the transcriber, and the statuses of the routes |
| `RestoreTokens` | the page's cache of restore tokens |
| `Workbench` | the page: previews, comparisons and restores over `RestoreTokens` |
| `TemplateApproval` | the promotion script and the template mode of the page |
| `MCSessionStore`, `MCPreviewService`, `MCManualPreviewEngine`, `MCUploadIntake`, `MCWorkbench`, `MCTemplateApproval` | the small instances, with their symmetries |
| `SessionStoreProofs`, `ConformanceProofs` | the stores' invariants; both implement the vault |
| `PreviewServiceProofs`, `EngineProofs`, `IntakeProofs`, `WorkbenchProofs`, `TemplateProofs` | the invariants of the other components, and what follows from them |
| `Foundations` | what the proofs need of data: induction over the numbers, recursive definitions, ranks and sums |

`PreviewService` extends `SessionStore` and uses its operations as they are,
each as one conjunct of a request's step. `StoreConformance` extends it too, and
instantiates `InMemorySessionStore` on the same clock.

### How `SessionStore` corresponds to the code

`session_mappings` is a set of rows (session, row id, expiry); a row's original,
token and type are its identity `id`, for no property of the store looks into
them. The tables keyed by `session_id` are functions with the expiry `Absent`
(-1) for a missing row: every comparison the code makes on a missing row comes
out as it would for an expiry in the past, except `_is_expired_locked`, which
returns False and is modelled so. Every operation holds the lock and commits
one transaction, so it is one step. `Access` is the common beginning of the
three reading operations (clear the session if it has expired); `TokenVerifies`,
`OwnerVerifies` and `StoredIds` are what they return. `DeleteExpired(dead, now)`
takes the selected sessions and the time of the selection as parameters,
because the script makes the selection and the deletion in two steps. The early
return for an empty selection deletes the same credential rows as the full path
and needs no case of its own.

Abstractions: time is in ticks and does not advance inside an operation (the
code reads the clock before it takes the lock and again for the clean-up); the
clock does not step back.

### How `PreviewService` corresponds to the code

`loop` says who holds the event loop: nobody, a preview request (named by its
session), or the restore request. A request keeps it until it awaits or ends.
`pc` follows a request: `new`, `owner` (before `save_owner_hash`), `token`
(before `save_restore_token_hash`), `parsing` (uploads, awaiting), `engine`
(saving mappings), then `done`, `failed`, `rejected` or `aborted`. The restore
goes through the two verifications of the service, the two of the restorer in
the restorer's order (owner first), and the read. Between two steps of a
request the clock can advance and the script can run; between two requests,
and during an await, anything can. `Restart` may come at any step: requests
are lost, the limiter is new, the tables stay. `Fail` is an exception of the
store or the engine in a preview, `ParseFails` one of the parser; what was
stored stays. Acquiring and releasing the limiter are single steps: its lock is
never held over an await, so neither ever yields to the loop.

`saved` (what a request has stored) and `owner` (who called) are history
variables of the requests; the code's counterpart is the local state of the
coroutine.

Not modelled here: a store call that raises inside a restore (a locked
database); it would end the request with a server error and change nothing.

### How `InMemorySessionStore` and `StoreConformance` correspond to the code

A record is the `SessionRecord` of the code; a session without one has
`NoRecord`. Every save cleans up, takes the record or a new one, and renews its
one expiry, so that a late save renews the credentials too: the one difference
of the two stores that a caller can notice, and `NoWiderAccess` says which way
it goes. In `BothNext` each call is made on both stores.

The history API changes nothing but what verifying the owner changes, so the
answer of its look-up is an operator: `GetSessionMetadata` is the aggregate
without `GROUP BY`, whose one row has no name when there is no live mapping. The
clean-up inside `get_session_metadata` is not committed and shapes only the
answer. The list of sessions is not modelled: it applies its limit before the
owner's filter and promises no more than that.

### How `Detector` and `ManualPreviewEngine` correspond to the code

What the regular expressions match in a text is left open: `Detect` takes any
set of up to `MaxFound` matches of up to `MaxMatch` characters, several of one
pattern among them if they do not overlap, as `finditer` finds them. `PositionMap` is
`position_map` of the normalization: a character may become several or none.
`RemapSpan` takes a match back, its end by way of its last character.
`FindCandidates` filters by policy, and `SelectNext`, once for each candidate in
the order of the sort key, is `_select_non_overlapping`. The same runs twice:
under the request's policy (`shown`), and strictly (`FindStrict`).

`Answer` is the rest of `manual_preview`, after which the response stands:
`ReplaceWithTokens`, `RewriteWithModel`, `RewriteWithPlaceholders` and
`LeaveUntouched` are its cases. A text is a sequence of atoms: ordinary
characters, digits, spaces, words that begin placeholders, and salted tokens,
which carry 32 random bits and therefore occur in no content. Numerals are in
base 2, so that one numeral begins another at once (in the code: 1 and 10).
The model behind the local rewriter is external and may answer anything;
`Parses` is what the code accepts, `EnsureStable` how it numbers. `RestoreNext`
substitutes one mapping in the text, longest first, as the restorer does.

`detectorVars` start afresh with each preview: the engine keeps no state.

### How `UploadIntake` corresponds to the code

`stage` follows a handler: `reading` chunks, `rendering`, `recognizing` or
`retrying` under OCR, `probing` with ffprobe, `model`, `loading`, `writing` and
`transcribing` in a worker thread, then `transcribed` or `raised` until the loop
resumes it, and `answered`. A document is a record of what the checks look at:
sizes, pages, characters, entries, duration, and a `form` for everything that
makes a parser fail. The checks of a parser are a sequence of conditions and
exceptions in the order of the code, and `Raised` is the first that holds;
`StatusOf` goes through the `except` clauses in their order, subclasses
included. OCR and ffprobe hold the event loop (they are `subprocess.run`), a
transcription does not. How the worker thread ended is a stage of its own
(`Thrown`): with a text, or with an exception that the route answers 415, 501 or
500. `temps` are the requests with a file or a directory on disk. A file whose
write failed is outside the `try` that unlinks it (`audio_transcriber.py:108-110`
and `204-207`); from then on it is nobody's, and `temps` keeps it for good.

The deployment (`settings`: prober, transcriber, tools) is chosen at the start
and never changes. `AcceptedWithinLimits` says of a compressed recording's
duration only what the code enforces, which needs the ffprobe setting.

### How `RestoreTokens` and `Workbench` correspond to the code

A handler of the page is two steps: up to its first `await`, and from the
answer on. `pending` holds the previews under way, `comparing` the comparisons
with the results they have, `restoring` the panels whose restore is under way. A
user can do what the controls rendered last allow: `InputEnabled` is the
`disabled` of the input panel; the buttons of a comparison are rendered by its
state; the result panels are not disabled by a preview. The answer of a text
preview is shown as it comes; the answer to an upload also replaces the text of
the input panel by the answer's `original_text`, which is empty when the backend
runs in the response mode `minimized` (`minimized`, chosen at the start). A
failed text preview falls back to the mock, a failed upload leaves the preview as
it was. A comparison takes the preview's original, or the input panel's text when
there is none, returns at once without either, fetches two previews with
`Promise.all`, and shows what it then has, with the source it took when it
began, although the page may have gone on. The two fetches are alike, and
`answered` counts them.

`tokens` is the `Map`; its insertion order is the order of session numbers.
Each of its operations prunes by the time of issue; a new token may push out
those used least recently (`Trimmed`). `ledger` is a history variable.

### How `TemplateApproval` corresponds to the code

`step` follows a run of the script: `Validate` loads the draft and checks it,
`CheckTarget` is `exists()`, `OpenTarget` is `open("w")`, which truncates,
`WriteTarget` the `json.dump` of what `promote_template` made of the draft
(`Promoted`: approved, with its approval). `Kill` may come between any two.
`raced`, `shared` and `mixed` are history variables that say what another run did
meanwhile; of two runs that have the file open, either may leave a whole file, a
text that does not parse, or one with parts of both drafts (`Mixtures`). Of a
template only what ties its parts together is kept, with `status` and
`approval`; the checks that look at one key are the flag `sound`. A field's name
is stripped for the script's checks and written as it was (`padded`).

The page loads an approved file (`TemplateLoaded`), fails on one that is missing
or truncated (`LoadingFails`), and resets the form's values as another template
is selected. `UpdateField` merges one value into those there are; sample values
and a reset replace them all (`ReplaceValues`).

## Runs

| Run | Instance | Question |
|---|---|---|
| `store` | 2 sessions, 2 mappings, 1 hash, TTL 2, clock to 4 | do the four tables stay in step, is clean-up complete, do both stores hold the same and implement the vault? |
| `service` | 1 text and 1 upload preview, 2 callers, 2 mappings, TTL 2, clock to 4, 1 restart | is a restorable preview complete, is a lapsed one gone for good, is an answered restore whole, and the owner's? |
| `liveness` | 2 uploads, 1 slot, 1 mapping, TTL 1, clock to 3, 1 restart | does the limiter count exactly, is every original erased, every slot returned? |
| `engine` | 4 patterns, 7 texts, up to 3 matches of up to 2 characters, 2 model texts | are spans disjoint, do they cover their matches, does what is passed over leave a tail at most, does ready mean clean, does the answer restore? |
| `intake` | 3 uploads of 18 different documents, 2 slots, each limit between 1 and 3, all 12 deployments | does any way around a limit exist, do slots, files and model loads stay in bounds, is a limit answered 413? |
| `workbench` | 2 texts and the empty one, 3 sessions, 2 tokens, 2 comparisons, 1 panel, token life 1, clock to 2, both response modes | does the panel show what was previewed, do tokens go in order, does every request end? |
| `templates` | 2 runs, 2 versions, templates of 0 to 2 fields | is what can be read valid, who overwrites, do values stay with their template? |
| `live_session` | 1 upload, TTL 2 | fails: a live session that cannot be restored |
| `restore_answered` | 1 text preview, TTL 2 | fails: a restore that ends in an uncaught exception |
| `live_session_found` | 2 sessions, 1 mapping, TTL 2 | fails: a live session whose metadata has no name |
| `rewrite_round_trip` | the patterns of `engine`, 2 texts | fails: a local rewrite that does not restore |
| `audio_too_large` | the documents of `intake`, 2 uploads, 1 slot | fails: a recording over the size limit that is not answered 413 |

Every property of a passing run comes with a mutant, a definition changed as a
plausible bug would change it, under which TLC finds the property violated.
They stand beside the definitions they change, under the comment `Mutant:`.

### What the five failing runs show

`live_session`: `save_mapping` renews `session_expirations` only. The owner and
token rows keep the expiry of the beginning of the request, so after a slow
parser the session and its originals live on while every restore is denied. The
security policy (`docs/development/48-restore-api-security-policy.md:61`) calls
the session's TTL the time in which a restore is possible, and
`engine/README.md:103` says that a new mapping renews it.

`restore_answered`: `engine/README.md:104` says that `restore()` treats an
expired session like an empty one. The restorer raises
`RestoreAuthenticationError`, which the route does not catch. The service's
earlier checks hide this unless the session expires, or the script deletes it,
between the two pairs of checks.

`live_session_found`: `get_session_metadata` aggregates without `GROUP BY`, so a
session without live mappings, which every preview that finds nothing has,
gives one row of NULLs instead of none. The route builds a response from it
whose `session_id` must not be null.
`docs/development/41-session-history-api.md:123-125` has the operator create a
session and look it up.

`rewrite_round_trip`: the local rewriter takes a model's text as numbered when
the digits of the index occur anywhere in it, and a placeholder may stand in
the document already, so that restoring puts an original where none was.
`docs/development/47-local-rewrite-rollout-policy.md` says that the policy
preserves restore semantics (line 81) and makes a lossless round trip a
condition of its promotion (line 93). `RoundTrip`, in the run `engine`, says
when it does hold: always for tokens, and for the deterministic placeholders
unless the document has one of its own or goes on with a digit behind a masked
span, which would make "10" of "1". Without either condition TLC finds a text
that comes back changed. `RestoreGivesBack` proves it for every text.

`audio_too_large`: the design note on uploads
(`docs/development/50-upload-timeout-concurrency-design.md:115`) says that 413 is
already used for the byte limits of files and of audio. Both checks of a
recording's size (`audio_transcriber.py:58-60` and `62-68`) raise a plain
`ValueError`, which the route answers 415. `LimitAnswered413`, in the run
`intake`, says where 413 is what comes: every limit of the files, and a WAV
recording that is too long. It leaves out a file refused for its type or form
before it is measured, what OCR or ffprobe may fail to measure, and recordings
of too many bytes.

### Where a passing property makes an exception

Some properties name a case in which the code does otherwise than one would like
or than a document says. The models contain these cases:

- `ShownMatchesInput` allows an empty input panel in the response mode
  `minimized`, which public deployments must set (`settings.py:73-81`,
  `124-129`). `manual_preview_service.py:418` and `427` then answer without the
  original, and `main.js:175` and `229` write that over the panel after an
  upload, although `frontend/README.md:151` has the original shown as before.
- `BusyMeansPending` is about the indicator of a comparison, not about its
  result. `loadComparison` writes the result (`main.js:342-348`) without asking
  whether a new preview has reset the comparison meanwhile, so that it may stand
  under a preview of another text; no property says it could not.
- `OverwrittenOnlyInRace` names the race between `exists()` and `open("w")`
  (`promote_template.py:276`, `280`), in which an approved file is overwritten,
  against `templates/approved/README.md:9`; `PublishedValid` leaves out a file
  that two runs had open at once, which may hold parts of both.
- A template whose field name has blanks around it passes the script, which
  strips the name before it compares (`promote_template.py:116-118`, `162-167`).
  The page looks a value up by the name as written
  (`template-mode-main.js:225-229`), and the placeholder stays a hole that no
  field fills. The model has such templates in its type; no property is about
  what the page makes of their holes.
- `NoTempLeft` is about files that could be written; a failed write leaves its
  file for good.

### Bounds, and why they are enough

- `TTL = 2` has a moment at which a session is neither new nor due, which is
  what tells "renewed" from "kept"; `MaxClock` lets a session live, expire and
  live again. In `liveness`, `TTL = 1` suffices, for only expiry and the slots
  matter.
- `Horizon = MaxClock - TTL`: no preview starts later, and beyond it time goes
  on only when no request is in flight, so that everything stored can expire
  within the bound. It is a bound on the model, not a rule of the code.
- Two sessions let an operation on one disturb the other; two mappings let a
  session be partly stored. In `service` a text preview runs while the upload
  awaits its parser; in `liveness` two uploads compete for one slot.
- `MaxRestarts = 1`: a second restart meets no state the first cannot leave.
- Sessions of the store, uploads of the intake, mappings and callers are
  interchangeable where no definition names one, and are declared symmetric in
  the safety runs; `liveness` and `workbench` use no symmetry.
- `engine`: the seven texts have a character that NFKC drops, one that it
  expands, digits and a placeholder's word, at the beginning, in the middle and
  at the end, the word with a digit behind it and without. Four patterns of two
  types, one of them in the default policy, give overlaps, nesting, equal spans
  and the same type twice. `MaxMatch` of 2 lets matches overlap without being
  equal, and `MaxFound` of 3 lets one lie between two others.
- `intake`: every limit is so small that a document lies at it and one beyond
  it. Two slots and three uploads make one wait.
- `workbench`: two texts tell an old answer from a new one; three sessions pass
  the limit of two tokens; two comparisons overlap. The empty text is typed, or
  answered in the mode `minimized`. A second panel would repeat the first: each
  has its own flag. `MaxTime = 2` lets a token be used after its issue and grow
  older than its life of 1.
- `templates`: two runs are enough for a race; a third adds only more of them.
  The symmetry exchanges runs, which no definition names.

None of the systems stops: the script or the user can always do something, so
deadlock is checked in every run.

### Fairness

`FairServiceSpec` assumes what asyncio provides. A request that holds the loop
runs on (`WF` on preview and restore steps). A parser or transcriber that is
awaited returns or raises, and its task is in the loop's FIFO queue from then
on, so it is resumed although other requests keep taking the loop: strong
fairness, since the loop is not idle all the time. The same holds for the
clean-up task, whose timer comes round every 300 seconds. The clock goes on. The
script, restarts and the arrival of requests are not fair: nothing makes them
happen. That restarts come to an end is an assumption (`MaxRestarts`).

`WorkbenchFairness` assumes that a fetch is settled, by an answer or by the
browser's network error, and nothing of the user: `RequestsEnd` then says that
the code resets its flags on each of these ways. Each comparison and each panel
has a fairness condition of its own, for an answered comparison must not stand
for another one.

## Proofs

Every safety property of the passing runs, the refinements included, is proved
for all values of the constants; `PROJECT.json` lists the theorems with the
properties they state. Each module of proofs extends the module it is about.

### What is assumed of the constants

Each assumption is an `ASSUME` of the module that declares the constants, and
TLC evaluates it on the small instance.

- `TTLAssumption` (a positive lifetime), `NoHashAssumption` (the hash of a
  missing row is no hash), and in the service the kinds of its constants: uploads
  are sessions, the limit is positive, the bounds are numbers.
- `PatternsAssumption`: the patterns are numbered, in the order of their
  priority, and finitely many; `WidthAssumption`: NFKC gives a number of
  characters for each; `ContentsAssumption`: texts are made of such characters.
- `TokensAssumption`: no character of a text is a token. A token carries 32
  random bits drawn for the session, which nobody who writes a text can know.
- `RequestsAssumption` and `BoundsAssumption`: requests are finitely many, limits
  are numbers. One archive entry may not be larger than all together
  (`MAX_OFFICE_XML_ENTRY_BYTES` is 5 MB, the total 20 MB), and one section is
  allowed, for a DOCX is read as one.
- `DocumentsAssumption`: what the parsers can meet. Pages belong to a PDF,
  entries to an archive and a duration to a recording; of a DOCX only
  `word/document.xml` is read, and an archive without the entries that are read
  gives no text.
- `WorkbenchAssumption`: the text the page begins with is a text, the bounds are
  numbers; the limit and the lifetime of the cache are numbers.
- `TemplateAssumption`: the first version is a version, a missing or truncated
  file is no draft, and a field's name either is padded with blanks or is not.

### The session stores

`SessionStoreProofs` proves, for any sets of sessions, hashes and mappings and
any positive TTL, `StoreTypeCorrect`, `NoRowOutlivesSession`, `NoLongLife` and
`CleanupErases`. Assumptions: `TTLAssumption` and `NoHashAssumption`.

The inductive invariant is `StoreInv`, the conjunction of the types,
`RowsWithinSession` and `LifetimeBounded`. It needs all three: a save of a
mapping moves the session's deadline to `clock + TTL`, and this is no earlier
than the expiry of the rows already there only because no expiry lies more than
TTL ahead; and deleting an expiration row is safe only because the rows it
covers go in the same step. One lemma per operation shows that it preserves
`StoreInv`; lemmas about the helpers (`Swept`, `ExpirationsWithout`, ...) say
once what each keeps. `CleanupErases` uses that a mapping row always has an
expiration row.

In the same module `StoreImplementsVault` is the refinement. The mapping shows a
session's rows while its deadline lies ahead, nothing from then on. `SaveShown`
is the core: after a save a session shows what it showed before and what was
saved, also when it had expired and was not yet cleaned; this needs the
invariant in the case of a session with no expiration row, which must then have
no rows.

`ConformanceProofs` proves `StoresHoldTheSame`, `NobodyElseLetIn` and
`MemoryIsVault`. The invariant (`BothInv`) says that
record and tables have one deadline and one set of mappings, and that a
credential row carries the hash of the record or is missing. That both stores
find the same sessions expired (`ExpiredInBoth`) is what every case rests on.
The steps of both stores together are steps of the SQLite store
(`BothImplementStore`), so what was proved of it holds here, and the vault sees
the same of both.

### The composed service

`PreviewServiceProofs` proves the safety properties of the composed service for
any sets of requests, uploads, callers and mappings, any limit, any number of
restarts and any clock: `ServiceTypeCorrect`, `NothingLostWhileRestorable`,
`RestoresWhole`, `LapsedCredentialsStayLapsed` and `LimiterCountsExactly`. The
assumptions are those on the constants: uploads are sessions, token and owner
hashes are hashes and the hash of an absent row is none, the limit is positive,
the bounds are numbers, and the two values of `loop` that are no session differ.
That two sessions have different identifiers and token hashes is built into the
naming of requests; the code has it from `choices` and `token_urlsafe`.

- The proof looks at a step of the service through what it does to one session.
  `Framed` says that a session keeps or loses its owner row, its token row and
  its mappings, and keeps the mappings while it keeps the owner row. Every store
  operation frames every session except the one it saves into.
- `CompleteWhileRestorable` is not inductive. `ServiceInv` adds, for each
  session, that its credential rows carry its own hashes (`HashesMatch`), that
  it has no rows before its first save (`Fresh`), that a request about to save
  its owner has one (`OwnerKnown`), and the stronger `CompleteWhileLive`, which
  asks for the owner row only: a row the clean-up leaves is of a session whose
  mappings it leaves.
- `RestoreAllOrNothing` needs what a restore has learnt so far to outlive the
  rows it read it from (`RestoreInv`): after the owner check the preview is done
  and its mappings are all there or all gone, and no step between can do more
  than turn the first into the second.
- `LapsedForGood`: past its first two saves a request frames its own credential
  rows as well, so a row that is live after a step was live before it, and by
  `RowsWithinSession` so was the session.
- `LimiterExact`: one slot is taken or given back at a time (`SlotTaken`,
  `SlotGivenBack`), so the `_active > 0` test of `release` never skips a slot
  that is counted. That the uploads in flight are finitely many is part of the
  invariant, not an assumption.

### The engine

`EngineProofs` proves, for any patterns, widths, texts and matches, all that the
run `engine` checks.

- `SpansNeverShared`, `NothingPassedOver`: `SelectedDisjoint` and
  `SelectionMaximal` are inductive, the second because a pass never takes back
  what it has selected.
- `ReadyTextIsClean`: no shown detection and no residual one mean that the strict
  pass selected nothing, and a pass that selects nothing had no candidate.
- `SpansCoverMatches`: the map of positions is of the normalized text's length
  and never decreases, so that the end of a span, which is taken by way of the
  match's last character, is right for characters that expand or disappear.
- `OnlyTailsStayClear`: `OrderInv` says that what has been examined comes no
  later than what remains, so whatever is selected begins no later than the
  candidate it displaces, and reaches as far if it begins with it. A refused
  candidate therefore begins inside a masked span, or lies within one.
- `ReplacementsTellApart`: the counter of a type grows from one detection to the
  next, and different numbers have different numerals of any length.
- `RestoreGivesBack`: what a preview answers, a restore turns into the content.
  The texts are written over the spans from right to left;
  `SplicedIsLaidOut` says that this lays them out between the gaps of the content.
  `RestoringInv` is the invariant of the restorer's loop: the spans that are
  pending are still replaced, the others hold the original. A step substitutes
  the longest pending text (`RestoreOne`). It occurs at its own span, and
  nowhere else: not in a gap, in a restored original or across their seams
  (`QuietPiece`), because its first atom is followed by no digit there; and not
  at another pending span (`QuietBlock`), whose text is no longer and different,
  and behind which the text goes on with no digit. A text that occurs once is
  replaced there (`SubstituteOnce`). Here the order by length is needed: a
  shorter text may begin a longer one.

### The way in

`IntakeProofs` proves, for a finite set of requests, what the run `intake`
checks. Every step is one of few as far as slots and the model are concerned
(`Turn`), which gives `SlotsMatchHandlers` and `WrittenTempsGo`.

- `ModelLoadsAreBounded`: `LoadsBounded` is not inductive; the invariant adds the
  threads that have found no model, which are at most the slots as long as there
  is none, and each of which loads once at most.
- `TextsAreWithinLimits` and `TooMuchIsAnswered413` have one invariant,
  `LimitsInv`: it says of a document at each stage which limits have been
  checked by then, and of an answer that it is fair. `ParserOutcome` goes through
  the checks of each parser and finds that the first that fails is one the route
  answers 413, if the document is readable and any limit is exceeded; what is
  said of recordings is `RecordingFair`.
- `HeldBytesAreBounded`: each handler at work holds at most the size limit and
  nobody else anything, so the sum is bounded by the slots (`SumBound`).

### The page and the templates

`WorkbenchProofs` proves `InputIsWhatIsShown`, `IndicatorsHaveRequests`,
`SentTokensAreFresh`, `EvictionIsByUse` and
`StateHasItsType`. The request under way is for the text of the input panel, or
the panel agrees with the preview on screen, empty or not (`PageInv`); a
comparison said to be loading is among those under way (`CompareInv`). For the tokens the Map is
compared with the ledger (`LedgerInv`). A token that is trimmed leaves
`MaxEntries` others that are not evicted before it (`TrimmedLeavesEnough`), and
those stay used at least as recently (`LaterGrows`). The type of the state has
one hard part, the size of the Map: the order of eviction has no ties, so the
tokens can be ranked by it, and the last `MaxEntries` ranks are all that
trimming leaves (`TrimmedSize`).

`TemplateProofs` proves `ApprovedIsValid`, `OnlyRacesOverwrite` and
`DocumentsKeptApart`. A run past its validation holds what it validated; a run
that has checked its target finds it absent or was raced; one that writes has it
truncated or shares it, and a file that is shared is among the mixed ones
(`ScriptInv`). What can be read of any other file is what the promotion made of
a valid draft (`PublishedFrom`), and the promotion changes nothing that
`Consistent` looks at.

### Data

Many definitions are recursive functions: the map of positions, numerals,
substitution, splicing, sums. TLA+ defines such a function by `CHOOSE`, so that
its equation has to be derived from the existence of a solution.
`SolutionExists` in `Foundations` gives it for every equation that recurs to
arguments of a smaller measure, stated with the set of steps as a function;
`LeastNat`, `NatInSet` and `CountDown` are induction, stated with a set of
numbers in the place of a predicate, and `RankFacts` and `SumEquation` do the
same for finite sets.

### What only TLC shows

The liveness properties, `MappingsErased`, `SlotReturned` and `RequestsEnd`,
are model-checked only: the prover does not reason about fairness. So are the
five disagreements of the failing runs, which a counterexample shows best.

## Not modelled

- The regular expressions and validators of the detector. What they match is left
  open; which texts they should match is a matter of tests.
- The libraries that read PDF, DOCX and XML, Ollama and Whisper, the OCR tools
  and ffprobe: what they may return, and that they may fail or time out, is in
  the models.
- Prompts, the copy-ready text, wording, labels and layout of the page; the
  input mode, view, policy and selected file, which choose what is sent and are
  kept by nothing that is modelled; the restored texts, for the page compares
  them with nothing.
- Authentication (a caller is the hash of an owner), settings (read once; a
  TTL that is not positive is excluded by `TTLAssumption`, and the code does not
  check it), the rate limiter (a library), file modes and the schema.
- The quality harness, probes and smoke scripts, which measure and keep no state
  of the product; templates, samples and documents, which are data.

- The list of sessions and the list of a session's mappings, which filter the
  tables by the conditions that are modelled elsewhere; what the form does with
  the holes of a document.

Some hazards have no property, for none could hold: a clock that is set back,
the limit of the session list that comes before its owner filter, the count of a
session's mappings read apart from their list, a comparison or a restored text
that arrives after a new preview.
