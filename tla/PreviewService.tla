------------------------------ MODULE PreviewService ------------------------------
(***************************************************************************)
(* ManualPreviewService of backend/app/services/manual_preview_service.py  *)
(* over the SQLite session store: text and upload previews, restores, the  *)
(* periodic clean-up task, the clean-up script, restarts.                  *)
(*                                                                         *)
(* The backend runs on one event loop.  A request keeps the loop until it  *)
(* ends or awaits (only the parser and the transcriber are awaited), so    *)
(* the requests interleave at awaits; the clock, the clean-up script (a    *)
(* process of its own) and a crash interleave with every store operation.  *)
(* A request has a session of its own, and is named by it here; the hash   *)
(* of the restore token issued to session s is s.                          *)
(***************************************************************************)
EXTENDS SessionStore, FiniteSets

CONSTANTS
    Uploads,         \* the sessions of file and audio requests; the rest are text
    Owners,          \* owner hashes of the callers
    MaxConcurrency,  \* settings.upload_max_concurrency
    MaxRestarts,     \* bound on restarts, for model checking
    Idle,            \* no request holds the event loop
    Restore          \* the restore request holds it

ASSUME UploadsAssumption == Uploads \subseteq Sessions
ASSUME HashesAssumption == Sessions \subseteq Hashes /\ Owners \subseteq Hashes
ASSUME LimitAssumption == MaxConcurrency \in Nat \ {0}
ASSUME BoundsAssumption == MaxClock \in Nat /\ MaxRestarts \in Nat
ASSUME LoopAssumption == Idle \notin Sessions /\ Restore \notin Sessions /\ Idle # Restore

VARIABLES
    loop,      \* who runs on the event loop
    pc,        \* progress of each preview request
    owner,     \* owner hash of the caller of each preview
    saved,     \* mappings a preview has saved so far
    active,    \* UploadConcurrencyLimiter._active
    restore,   \* the restore request in progress, or its outcome
    cliIds,    \* sessions the clean-up script selected
    cliNow,    \* when it selected them, Absent when it is not running
    restarts   \* restarts so far

serviceVars == <<loop, pc, owner, saved, active, restore, cliIds, cliNow, restarts>>
vars == <<storeVars, serviceVars>>

Horizon == MaxClock - TTL  \* previews start no later than this

InFlight == {"owner", "token", "parsing", "engine"}
Ended == {"done", "failed", "rejected", "aborted"}
RestoreRunning == {"service_token", "service_owner", "engine_owner", "engine_token", "read"}
RestoreEnded == {"none", "ok", "denied", "error"}

ServiceInit ==
    /\ StoreInit
    /\ loop = Idle
    /\ pc = [s \in Sessions |-> "new"]
    /\ owner = [s \in Sessions |-> NoHash]
    /\ saved = [s \in Sessions |-> {}]
    /\ active = 0
    /\ restore = [step |-> "none", session |-> Idle, token |-> NoHash,
                  owner |-> NoHash, ids |-> {}]
    /\ cliIds = {}
    /\ cliNow = Absent
    /\ restarts = 0

-----------------------------------------------------------------------------
(* Preview requests: build_preview, build_file_preview, build_audio_preview. *)

Goto(s, step) == pc' = [pc EXCEPT ![s] = step]

others == <<restore, cliIds, cliNow, restarts>>

\* UploadConcurrencyLimiter.release, in the finally of an upload.
Release(s) ==
    active' = IF s \in Uploads /\ active > 0 THEN active - 1 ELSE active

StartPreview(s, o) ==
    /\ loop = Idle
    /\ pc[s] = "new"
    /\ clock <= Horizon
    /\ s \in Uploads => active < MaxConcurrency
    /\ active' = IF s \in Uploads THEN active + 1 ELSE active
    /\ loop' = s
    /\ owner' = [owner EXCEPT ![s] = o]
    /\ Goto(s, "owner")
    /\ UNCHANGED <<storeVars, saved, others>>

\* try_acquire finds the limit reached: 503, nothing was stored.
RejectUpload(s) ==
    /\ loop = Idle
    /\ s \in Uploads
    /\ pc[s] = "new"
    /\ active >= MaxConcurrency
    /\ Goto(s, "rejected")
    /\ UNCHANGED <<storeVars, loop, owner, saved, active, others>>

SaveOwner(s) ==
    /\ loop = s
    /\ pc[s] = "owner"
    /\ SaveOwnerHash(s, owner[s])
    /\ Goto(s, "token")
    /\ UNCHANGED <<loop, owner, saved, active, others>>

\* Mutant: the loop is kept while the parser runs.
CreateTokenBlocking(s) ==
    /\ loop = s
    /\ pc[s] = "token"
    /\ SaveRestoreTokenHash(s, s)
    /\ Goto(s, IF s \in Uploads THEN "parsing" ELSE "engine")
    /\ UNCHANGED <<loop, owner, saved, active, others>>

\* _create_restore_token; an upload then awaits its parser or transcriber.
CreateRestoreToken(s) ==
    /\ loop = s
    /\ pc[s] = "token"
    /\ SaveRestoreTokenHash(s, s)
    /\ Goto(s, IF s \in Uploads THEN "parsing" ELSE "engine")
    /\ loop' = IF s \in Uploads THEN Idle ELSE s
    /\ UNCHANGED <<owner, saved, active, others>>

ParseDone(s) ==
    /\ loop = Idle
    /\ pc[s] = "parsing"
    /\ Goto(s, "engine")
    /\ loop' = s
    /\ UNCHANGED <<storeVars, owner, saved, active, others>>

\* Mutant: a failed parse keeps its slot.
ParseFailsUnreleased(s) ==
    /\ loop = Idle
    /\ pc[s] = "parsing"
    /\ Goto(s, "failed")
    /\ UNCHANGED <<storeVars, loop, owner, saved, active, others>>

ParseFails(s) ==
    /\ loop = Idle
    /\ pc[s] = "parsing"
    /\ Goto(s, "failed")
    /\ Release(s)
    /\ UNCHANGED <<storeVars, loop, owner, saved, others>>

\* engine.manual_preview saves one mapping per detection, however many there
\* are.  The replacer calls get_mappings first, which clears the session if it
\* has expired; the clean-up of save_mapping does that and more.
SaveDetection(s, id) ==
    /\ loop = s
    /\ pc[s] = "engine"
    /\ id \notin saved[s]
    /\ SaveMapping(s, id)
    /\ saved' = [saved EXCEPT ![s] = @ \cup {id}]
    /\ UNCHANGED <<loop, pc, owner, active, others>>

Respond(s) ==
    /\ loop = s
    /\ pc[s] = "engine"
    /\ Goto(s, "done")
    /\ Release(s)
    /\ loop' = Idle
    /\ UNCHANGED <<storeVars, owner, saved, others>>

\* Mutant: a failed request takes back its mappings, not its credentials.
FailDropsMappings(s) ==
    /\ loop = s
    /\ pc[s] \in {"owner", "token", "engine"}
    /\ sessionMappings' = MappingsWithout({s})
    /\ Goto(s, "failed")
    /\ Release(s)
    /\ loop' = Idle
    /\ UNCHANGED <<clock, sessionExpirations, sessionRestoreTokens, sessionOwners,
                   owner, saved, others>>

\* A store or engine call raises: the request fails and what it stored stays.
Fail(s) ==
    /\ loop = s
    /\ pc[s] \in {"owner", "token", "engine"}
    /\ Goto(s, "failed")
    /\ Release(s)
    /\ loop' = Idle
    /\ UNCHANGED <<storeVars, owner, saved, others>>

-----------------------------------------------------------------------------
(* restore_preview and SessionRestorer.restore: the service verifies the   *)
(* token and the owner, the engine verifies both again, then reads.        *)

request == <<pc, owner, saved, active, cliIds, cliNow, restarts>>

\* A caller holds a token only from the response of a finished preview.
BeginRestore(s, t, o) ==
    /\ loop = Idle
    /\ pc[t] = "done"
    /\ loop' = Restore
    /\ restore' = [step |-> "service_token", session |-> s, token |-> t,
                   owner |-> o, ids |-> {}]
    /\ UNCHANGED <<storeVars, request>>

RestoreAt(step) == loop = Restore /\ restore.step = step

\* One verification: on success go on, otherwise end with the given outcome.
Check(verified, next, outcome) ==
    /\ restore' = [restore EXCEPT !.step = IF verified THEN next ELSE outcome]
    /\ loop' = IF verified THEN Restore ELSE Idle
    /\ UNCHANGED request

ServiceVerifiesToken ==
    /\ RestoreAt("service_token")
    /\ VerifyRestoreTokenHash(restore.session)
    /\ Check(TokenVerifies(restore.session, restore.token),
             "service_owner", "denied")

ServiceVerifiesOwner ==
    /\ RestoreAt("service_owner")
    /\ VerifyOwnerHash(restore.session)
    /\ Check(OwnerVerifies(restore.session, restore.owner),
             "engine_owner", "denied")

\* RestoreAuthenticationError is not caught by the route: a server error.
EngineVerifiesOwner ==
    /\ RestoreAt("engine_owner")
    /\ VerifyOwnerHash(restore.session)
    /\ Check(OwnerVerifies(restore.session, restore.owner),
             "engine_token", "error")

EngineVerifiesToken ==
    /\ RestoreAt("engine_token")
    /\ VerifyRestoreTokenHash(restore.session)
    /\ Check(TokenVerifies(restore.session, restore.token),
             "read", "error")

ReadMappings ==
    /\ RestoreAt("read")
    /\ GetMappings(restore.session)
    /\ restore' = [restore EXCEPT !.step = "ok", !.ids = StoredIds(restore.session)]
    /\ loop' = Idle
    /\ UNCHANGED request

RestoreStep ==
    \/ ServiceVerifiesToken
    \/ ServiceVerifiesOwner
    \/ EngineVerifiesOwner
    \/ EngineVerifiesToken
    \/ ReadMappings

-----------------------------------------------------------------------------
(* Clean-up, restarts and time.                                            *)

\* cleanup_expired_sessions of main.py, every 300 seconds on the event loop.
BackgroundCleanup ==
    /\ loop = Idle
    /\ CleanupExpiredSessions
    /\ UNCHANGED serviceVars

\* manage_manual_preview_sessions.py cleanup: the selection is a read, the
\* transaction starts with the first DELETE, so the backend can run between.
CliSelect ==
    /\ cliNow = Absent
    /\ cliIds' = ExpiredIds
    /\ cliNow' = clock
    /\ UNCHANGED <<storeVars, loop, pc, owner, saved, active, restore, restarts>>

\* Mutant: the script deletes the expirations first, commits and stops there.
CliDeletePartly ==
    /\ cliNow # Absent
    /\ sessionExpirations' = ExpirationsWithout(cliIds)
    /\ cliIds' = {}
    /\ cliNow' = Absent
    /\ UNCHANGED <<clock, sessionMappings, sessionRestoreTokens, sessionOwners,
                   loop, pc, owner, saved, active, restore, restarts>>

CliDelete ==
    /\ cliNow # Absent
    /\ DeleteExpired(cliIds, cliNow)
    /\ cliIds' = {}
    /\ cliNow' = Absent
    /\ UNCHANGED <<loop, pc, owner, saved, active, restore, restarts>>

\* The backend stops, at any point, and starts again: requests are lost and
\* the limiter is new; the database file stays.
Restart ==
    /\ restarts < MaxRestarts
    /\ restarts' = restarts + 1
    /\ loop' = Idle
    /\ pc' = [s \in Sessions |-> IF pc[s] \in InFlight THEN "aborted" ELSE pc[s]]
    /\ active' = 0
    /\ restore' = [restore EXCEPT !.step = IF @ \in RestoreRunning THEN "none" ELSE @]
    /\ UNCHANGED <<storeVars, owner, saved, cliIds, cliNow>>

\* Up to the horizon time passes at any moment; beyond it, only to let what
\* was stored expire.
AdvanceClock ==
    /\ \/ clock < Horizon
       \/ clock < MaxClock /\ \A s \in Sessions : pc[s] \notin InFlight
    /\ Tick
    /\ UNCHANGED serviceVars

-----------------------------------------------------------------------------
PreviewStep(s) ==
    \/ SaveOwner(s)
    \/ CreateRestoreToken(s)
    \/ \E id \in MappingIds : SaveDetection(s, id)
    \/ Respond(s)
    \/ Fail(s)

ServiceNext ==
    \/ \E s \in Sessions :
          \/ \E o \in Owners : StartPreview(s, o)
          \/ RejectUpload(s)
          \/ PreviewStep(s)
          \/ ParseDone(s)
          \/ ParseFails(s)
          \/ \E t \in Sessions, o \in Owners : BeginRestore(s, t, o)
    \/ RestoreStep
    \/ BackgroundCleanup
    \/ CliSelect
    \/ CliDelete
    \/ Restart
    \/ AdvanceClock

ServiceSpec == ServiceInit /\ [][ServiceNext]_vars

\* The request on the loop runs on; a parser or transcriber returns and its
\* task is resumed in its turn; the clock goes on; the clean-up task wakes up.
Fairness ==
    /\ WF_vars(\E s \in Sessions : PreviewStep(s))
    /\ WF_vars(RestoreStep)
    /\ \A s \in Uploads : SF_vars(ParseDone(s) \/ ParseFails(s))
    /\ WF_vars(AdvanceClock)
    /\ SF_vars(BackgroundCleanup)

FairServiceSpec == ServiceSpec /\ Fairness

-----------------------------------------------------------------------------
(* Properties.                                                             *)

RestoreState ==
    [step : RestoreRunning \cup RestoreEnded, session : Sessions \cup {Idle},
     token : Hashes \cup {NoHash}, owner : Hashes \cup {NoHash}, ids : SUBSET MappingIds]

\* Every variable holds a value of its kind.
ServiceTypeOK ==
    /\ StoreTypeOK
    /\ loop \in Sessions \cup {Idle, Restore}
    /\ pc \in [Sessions -> {"new"} \cup InFlight \cup Ended]
    /\ owner \in [Sessions -> Owners \cup {NoHash}]
    /\ saved \in [Sessions -> SUBSET MappingIds]
    /\ active \in Nat
    /\ restore \in RestoreState
    /\ cliIds \subseteq Sessions
    /\ cliNow \in Expiry
    /\ restarts \in Nat

\* The limiter counts exactly the uploads between try_acquire and release,
\* through failures, awaits and restarts, and never more than the limit.
LimiterExact ==
    /\ active = Cardinality({s \in Uploads : pc[s] \in InFlight})
    /\ active <= MaxConcurrency

\* Token and owner rows are both live: a restore that starts now is accepted.
Restorable(s) == OwnerVerifies(s, owner[s]) /\ TokenVerifies(s, s)

RowIds(s) == {row.id : row \in {m \in sessionMappings : m.session = s}}

\* As long as a preview can be restored, every mapping it saved is stored:
\* no clean-up, script or other request has taken one of them away.
CompleteWhileRestorable ==
    \A s \in Sessions : Restorable(s) => RowIds(s) = saved[s]

\* A restore that is answered with text restores everything the preview had
\* replaced or nothing, never some of it, and only for the caller who owns
\* the session and holds the token issued with it.
RestoreAllOrNothing ==
    restore.step = "ok" /\ restore.ids # {} =>
        /\ restore.ids = saved[restore.session]
        /\ restore.token = restore.session
        /\ restore.owner = owner[restore.session]

\* Once the credentials of a preview have lapsed no later save, however late
\* in the same request, makes the session restorable again.
Lapsed(s) ==
    /\ pc[s] \in {"parsing", "engine"} \cup Ended
    /\ ~Restorable(s)

LapsedForGood == [][\A s \in Sessions : Lapsed(s) => Lapsed(s)']_vars

\* The session TTL is the time during which a restore is possible: a finished
\* preview whose session has time to live can be restored by its caller.
\* docs/development/48-restore-api-security-policy.md:61 says so, and
\* engine/README.md:103 that a new mapping extends it.  The code breaks it.
LiveSessionRestorable ==
    \A s \in Sessions : pc[s] = "done" /\ Open(s) => Restorable(s)

\* A restore of an expired session is answered like one of an empty session
\* (engine/README.md:104), or denied; it never ends in an uncaught exception.
\* The code breaks it when the session expires between the two verifications.
RestoreAnswered == restore.step # "error"

\* Every stored original text is erased in the end, whatever became of the
\* request that stored it.
MappingsErased == \A s \in Sessions : []<>(RowIds(s) = {})

\* Every upload that took a slot of the limiter gives it back.
SlotReturned == \A s \in Uploads : []<>(pc[s] \notin InFlight)
=============================================================================
