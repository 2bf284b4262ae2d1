-------------------------------- MODULE Workbench --------------------------------
(***************************************************************************)
(* The workbench page, main.js, with the requests of manualPreviewApi.js.  *)
(*                                                                         *)
(* Every handler runs to its first await, renders, and continues when the  *)
(* backend answers; the answers come in any order.  What a user may do is  *)
(* decided by what was rendered last: the controls of the input panel are  *)
(* disabled while a preview is pending, those of the result panels are     *)
(* not.                                                                    *)
(*                                                                         *)
(* What only selects or labels is left out: the input mode and the view    *)
(* (every panel is one click away), the policy (strict_token, with which   *)
(* comparisons are offered), the selected file, the wording of the status, *)
(* and the restored texts.                                                 *)
(***************************************************************************)
EXTENDS RestoreTokens

CONSTANTS
    Texts,          \* the texts that are typed or extracted from a file
    Empty,          \* the empty text
    DefaultText,    \* the sample text the page starts with
    Panels,         \* the panels that restore: the preview's, the pasted response's
    MaxSessions,    \* bound on the previews the backend makes, for model checking
    MaxComparisons, \* bound on the comparisons under way
    MaxTime         \* bound on the clock

ASSUME WorkbenchAssumption ==
    DefaultText \in Texts /\ Empty \notin Texts /\ {MaxSessions, MaxComparisons, MaxTime} \subseteq Nat

VARIABLES
    minimized,    \* the backend answers in the mode `minimized'
    preview,      \* state.preview: [session, text, of]; session 0 is a mock's; text is its
                  \*   original_text; of, a history, is the text that was previewed
    originalText, \* state.originalText
    isLoading,    \* state.isLoading
    pending,      \* previews requested and not answered: [kind, text]
    comparison,   \* state.comparison: [loading, source, shown]
    comparing,    \* comparisons requested and not settled: number -> [source, answered], of
                  \*   which answered says how many of its two previews have been answered
    restoring     \* isRestoring, isAiRestoring: the restores under way

pageVars == <<minimized, preview, originalText, isLoading, pending>>
compareVars == <<comparison, comparing>>
vars == <<clock, tokens, ledger, minimized, preview, originalText, isLoading, pending,
          comparison, comparing, restoring>>

Mock(text) == [session |-> 0, text |-> text, of |-> text]

\* The sessions that have been opened are numbered from 1.
NextSession == Cardinality(DOMAIN ledger) + 1
MayOpenSession == NextSession <= MaxSessions

NoComparison == [loading |-> FALSE, source |-> Empty, shown |-> FALSE]

WorkbenchInit ==
    /\ TokensInit
    /\ minimized \in BOOLEAN
    /\ preview = Mock(DefaultText)
    /\ originalText = DefaultText
    /\ isLoading = TRUE  \* main.js ends with updatePreview(defaultText)
    /\ pending = {[kind |-> "text", text |-> DefaultText]}
    /\ comparison = NoComparison
    /\ comparing = NoTokens
    /\ restoring = {}

-----------------------------------------------------------------------------
(* Previews.                                                               *)

\* The submit button and the other input controls.
InputEnabled == ~isLoading

\* updatePreview, up to its await
UpdatePreview(text) ==
    /\ InputEnabled
    /\ originalText' = text
    /\ comparison' = NoComparison
    /\ isLoading' = TRUE
    /\ pending' = pending \union {[kind |-> "text", text |-> text]}
    /\ UNCHANGED <<clock, tokens, ledger, minimized, preview, comparing, restoring>>

\* updateFilePreview and updateAudioPreview with a file that passes their
\* checks, up to the await; text is what the backend will extract
UpdateUploadPreview(text) ==
    /\ InputEnabled
    /\ comparison' = NoComparison
    /\ isLoading' = TRUE
    /\ pending' = pending \union {[kind |-> "upload", text |-> text]}
    /\ UNCHANGED <<clock, tokens, ledger, minimized, preview, originalText, comparing, restoring>>

\* normalizeManualPreviewResponse, after which the token is remembered; the
\* schema refuses an empty text
Answered(job) ==
    /\ job \in pending
    /\ job.text # Empty
    /\ MayOpenSession
    /\ Remember(NextSession)
    /\ preview' = [session |-> NextSession, text |-> IF minimized THEN Empty ELSE job.text, of |-> job.text]

\* The finally clause of all three handlers.
Settled(job) ==
    /\ pending' = pending \ {job}
    /\ isLoading' = FALSE
    /\ UNCHANGED <<clock, minimized, compareVars, restoring>>

TextAnswered(job) ==
    /\ job.kind = "text"
    /\ Answered(job)
    /\ Settled(job)
    /\ UNCHANGED originalText

\* Mutant: what the file said does not reach the input panel.
UploadAnsweredAside(job) ==
    /\ job.kind = "upload"
    /\ Answered(job)
    /\ Settled(job)
    /\ UNCHANGED originalText

UploadAnswered(job) ==
    /\ job.kind = "upload"
    /\ Answered(job)
    /\ originalText' = preview'.text
    /\ Settled(job)

\* Mutant: the finally clause is missing.
TextFailedLoading(job) ==
    /\ job \in pending /\ job.kind = "text"
    /\ preview' = Mock(job.text)
    /\ pending' = pending \ {job}
    /\ UNCHANGED <<clock, tokens, ledger, minimized, originalText, isLoading, compareVars, restoring>>

\* A text falls back to the mock, which returns it in any mode ...
TextFailed(job) ==
    /\ job \in pending /\ job.kind = "text"
    /\ preview' = Mock(job.text)
    /\ Settled(job)
    /\ UNCHANGED <<tokens, ledger, originalText>>

\* ... and a file leaves the preview as it was.
UploadFailed(job) ==
    /\ job \in pending /\ job.kind = "upload"
    /\ Settled(job)
    /\ UNCHANGED <<tokens, ledger, preview, originalText>>

-----------------------------------------------------------------------------
(* Comparison of two policies.                                             *)

\* What loadComparison compares.
SourceText == IF preview.text # Empty THEN preview.text ELSE originalText

\* loadComparison, up to its await; without a text it returns at once.  The
\* button is rendered as long as the comparison has no result, so that it
\* never returns early for having one.
LoadComparison ==
    /\ ~comparison.loading /\ ~comparison.shown
    /\ SourceText # Empty
    /\ comparison' = [loading |-> TRUE, source |-> SourceText, shown |-> FALSE]
    /\ \E n \in 1 .. MaxComparisons \ DOMAIN comparing :
           /\ 1 .. (n - 1) \subseteq DOMAIN comparing
           /\ comparing' = Put(comparing, n, [source |-> SourceText, answered |-> 0])
    /\ UNCHANGED <<clock, tokens, ledger, pageVars, restoring>>

\* clearComparison: the button is rendered with a result
ClearComparison ==
    /\ comparison.shown
    /\ comparison' = NoComparison
    /\ UNCHANGED <<clock, tokens, ledger, pageVars, comparing, restoring>>

\* fetchPolicyPreview ends for one of the two policies of comparison n, each a
\* preview in a session that is never looked at again; with the other there,
\* loadComparison goes on and shows both, whatever became of the comparison in
\* the meantime.
PolicyEnds(n) ==
    /\ IF comparing[n].answered = 1
       THEN /\ comparing' = Restrict(comparing, DOMAIN comparing \ {n})
            /\ comparison' = [loading |-> FALSE, source |-> comparing[n].source, shown |-> TRUE]
       ELSE /\ comparing' = [comparing EXCEPT ![n].answered = 1]
            /\ UNCHANGED comparison
    /\ UNCHANGED <<clock, pageVars, restoring>>

\* The backend answers, or the mock takes its place.
ComparisonEnds(n) ==
    /\ PolicyEnds(n)
    /\ UNCHANGED tokenVars \/ (MayOpenSession /\ Remember(NextSession))

-----------------------------------------------------------------------------
(* Restoring.                                                              *)

\* restoreCurrentPreview and restoreAiResponse, each with a flag of its own,
\* reject at once: no token ...
RestoreWithoutToken(which) ==
    /\ which \notin restoring
    /\ ~HasToken(preview.session)
    /\ MissToken
    /\ UNCHANGED <<clock, pageVars, compareVars, restoring>>

\* ... or a text beyond RESTORE_INPUT_MAX_CHARS, noticed after the token was used.
RestoreTooLong(which) ==
    /\ which \notin restoring
    /\ HasToken(preview.session)
    /\ UseToken(preview.session)
    /\ UNCHANGED <<clock, pageVars, compareVars, restoring>>

SendRestore(which) ==
    /\ which \notin restoring
    /\ HasToken(preview.session)
    /\ UseToken(preview.session)
    /\ restoring' = restoring \union {which}
    /\ UNCHANGED <<clock, pageVars, compareVars>>

\* Mutant: the reset of the flag is missing.
RestoreEndsBusy(which) ==
    /\ which \in restoring
    /\ UNCHANGED <<clock, tokens, ledger, pageVars, compareVars, restoring>>

\* The answer or the failure, both end in the finally clause.
RestoreEnds(which) ==
    /\ which \in restoring
    /\ restoring' = restoring \ {which}
    /\ UNCHANGED <<clock, tokens, ledger, pageVars, compareVars>>

Tick ==
    /\ clock < MaxTime
    /\ clock' = clock + 1
    /\ UNCHANGED <<tokens, ledger, pageVars, compareVars, restoring>>

-----------------------------------------------------------------------------

PreviewEnds ==
    \E job \in pending : TextAnswered(job) \/ UploadAnswered(job) \/ TextFailed(job) \/ UploadFailed(job)

WorkbenchNext ==
    \/ \E text \in Texts \cup {Empty} : UpdatePreview(text)
    \/ \E text \in Texts : UpdateUploadPreview(text)
    \/ PreviewEnds
    \/ LoadComparison \/ ClearComparison
    \/ \E n \in DOMAIN comparing : ComparisonEnds(n)
    \/ \E which \in Panels :
           RestoreWithoutToken(which) \/ RestoreTooLong(which) \/ SendRestore(which) \/ RestoreEnds(which)
    \/ Tick

\* A fetch is always settled: by an answer, or by the browser's network error.
WorkbenchFairness ==
    /\ WF_vars(PreviewEnds)
    /\ \A n \in 1 .. MaxComparisons : WF_vars(n \in DOMAIN comparing /\ ComparisonEnds(n))
    /\ \A which \in Panels : WF_vars(RestoreEnds(which))

WorkbenchSpec == WorkbenchInit /\ [][WorkbenchNext]_vars /\ WorkbenchFairness

-----------------------------------------------------------------------------

WorkbenchTypeOK ==
    /\ clock \in 0 .. MaxTime
    /\ DOMAIN tokens \subseteq DOMAIN ledger /\ Cardinality(DOMAIN tokens) <= MaxEntries
    /\ minimized \in BOOLEAN
    /\ preview \in [session : 0 .. MaxSessions, text : Texts \cup {Empty}, of : Texts \cup {Empty}]
    /\ originalText \in Texts \cup {Empty}
    /\ isLoading \in BOOLEAN
    /\ pending \subseteq [kind : {"text", "upload"}, text : Texts \cup {Empty}]
    /\ comparison \in [loading : BOOLEAN, source : Texts \cup {Empty}, shown : BOOLEAN]
    /\ DOMAIN comparing \subseteq 1 .. MaxComparisons
    /\ \A n \in DOMAIN comparing : comparing[n] \in [source : Texts, answered : {0, 1}]
    /\ restoring \subseteq Panels

\* Every busy indicator has its own request behind it: there is never more
\* than one preview under way, and a comparison said to be loading is one that
\* is, not an earlier one that was reset and goes on unseen.
BusyMeansPending ==
    /\ Cardinality(pending) = (IF isLoading THEN 1 ELSE 0)
    /\ comparison.loading => \E n \in DOMAIN comparing : comparing[n].source = comparison.source

\* With no preview under way the input panel never shows a text other than the
\* one that was previewed, whatever failed or was dropped in the meantime: it
\* shows that text, or nothing where the backend returns no original.
ShownMatchesInput ==
    ~isLoading =>
        \/ originalText = preview.of
        \/ minimized /\ originalText = Empty /\ preview.text = Empty

\* A restore request never carries a token older than its time to live, and
\* using a token does not extend it.
NoExpiredTokenSent ==
    [][restoring' \ restoring # {} => clock - ledger[preview.session].issued <= TokenTtl]_vars

\* Whatever the user started comes to an end on the screen: the page does not
\* stay in the loading, comparing or restoring state.
RequestsEnd ==
    /\ []<>~isLoading
    /\ []<>~comparison.loading
    /\ \A which \in Panels : []<>(which \notin restoring)
=============================================================================
