--------------------------- MODULE ManualPreviewEngine ---------------------------
(***************************************************************************)
(* manual_preview and restore of engine/src/manual_preview_engine.py, with *)
(* the replacer, the local rewriter, the report and the restorer they call.*)
(*                                                                         *)
(* A text is a sequence of atoms: a character, a digit, a salted token, or *)
(* the words that begin the placeholder of a type.  Tokens carry 32 random *)
(* bits, so a token atom occurs in no content; words and digits may.       *)
(***************************************************************************)
EXTENDS Detector

CONSTANTS
    TypeOf,     \* the detection type of a pattern
    Outputs,    \* the replacement texts a local model may write
    Sensitive,  \* those of them the output check detects something in
    MaxItems    \* bound on the replacements of one answer

\* A token is no character of a text: nobody guesses its salt.
ASSUME TokensAssumption == \A char \in DOMAIN Width : char.kind # "token"

VARIABLES
    replaced,   \* replaced_text
    mappings,   \* the mappings of the session, in the order they are saved
    origin,     \* where the replacements come from: "token", "model", "fallback" or "none"
    readiness,  \* the readiness record of the response
    pending,    \* the mappings restore has still to substitute
    restored    \* the text restore has produced so far

previewVars == <<replaced, mappings, origin, readiness, pending, restored>>
vars == <<detectorVars, previewVars>>

Atom(kind, type, n) == [kind |-> kind, type |-> type, n |-> n]
Space == Atom("space", "", 0)
Word(type) == Atom("word", type, 0)
Token(type, n) == Atom("token", type, n)

\* str(index), in base 2 so that one numeral begins another one soon.
NumeralOf[n \in Nat] ==
    IF n < 2 THEN <<Atom("digit", "", n)>> ELSE NumeralOf[n \div 2] \o <<Atom("digit", "", n % 2)>>

-----------------------------------------------------------------------------
(* Texts.                                                                  *)

OccursAt(part, text, i) == SubSeq(text, i, i + Len(part) - 1) = part

OccursIn(part, text) == \E i \in 1..(Len(text) - Len(part) + 1) : OccursAt(part, text, i)

\* text.replace(old, new)
Substitute(text, old, new) ==
    LET from[i \in 1..(Len(text) + 1)] ==
            IF i + Len(old) > Len(text) + 1 THEN SubSeq(text, i, Len(text))
            ELSE IF OccursAt(old, text, i) THEN new \o from[i + Len(old)]
            ELSE <<text[i]>> \o from[i + 1]
    IN from[1]

\* The detections in the order of their positions.
InOrder(set) ==
    [i \in 1..Cardinality(set) |->
        CHOOSE d \in set : Cardinality({e \in set : e.start < d.start}) = i - 1]

Label(d) == SubSeq(content, d.start, d.end - 1)

DetectionType(d) == TypeOf[d.pattern]

\* The counter of a detection's type once the detections up to i are counted;
\* the session is new, so the counters begin at zero.
CounterAt(list, i) ==
    Cardinality({j \in 1..i : DetectionType(list[j]) = DetectionType(list[i])})

\* The content with every span replaced, from the last one to the first.
Spliced(list, texts) ==
    LET downTo[i \in 1..(Len(list) + 1)] ==
            IF i > Len(list) THEN content
            ELSE SubSeq(downTo[i + 1], 1, list[i].start - 1) \o texts[i]
                    \o SubSeq(downTo[i + 1], list[i].end, Len(downTo[i + 1]))
    IN downTo[1]

-----------------------------------------------------------------------------
(* Replacement texts.                                                      *)

Tokens(list) == [i \in DOMAIN list |-> <<Token(DetectionType(list[i]), CounterAt(list, i))>>]

\* Mutant: the counter is never advanced.
FallbackTextsUncounted(list) == [i \in DOMAIN list |-> <<Word(DetectionType(list[i]))>> \o NumeralOf[1]]

\* The deterministic placeholders, counted by type.
FallbackTexts(list) ==
    [i \in DOMAIN list |-> <<Word(DetectionType(list[i]))>> \o NumeralOf[CounterAt(list, i)]]

\* A replacement the parser refuses: empty, showing the original, or detected
\* as sensitive itself.
Refused(item, d) == item = <<>> \/ OccursIn(Label(d), item) \/ item \in Sensitive

\* The number of the detection is added unless its digits occur somewhere.
EnsureStable(item, i) ==
    IF OccursIn(NumeralOf[i], item) THEN item ELSE item \o <<Space>> \o NumeralOf[i]

Parses(items, list) ==
    /\ Len(items) = Len(list)
    /\ \A i \in DOMAIN list : ~Refused(items[i], list[i])

\* rewrite: the model's texts, or the placeholders when anything is wrong.
Rewritten(items, list) ==
    IF Parses(items, list) THEN [i \in DOMAIN list |-> EnsureStable(items[i], i)]
    ELSE FallbackTexts(list)

-----------------------------------------------------------------------------
(* The report and the readiness check.                                     *)

ReportRisk(n) ==
    CASE n >= 3 -> "high-risk" [] n \in 1..2 -> "moderate-risk" [] n = 0 -> "low-risk"

Residual(strictSet, displayed) ==
    {s \in strictSet : \A d \in displayed : ~Overlaps(s, d)}

\* Mutant: only what is displayed decides.
SendReadinessDisplayed(displayed, residual) ==
    [ready_to_send |-> displayed = {}, risk_level |-> ReportRisk(Cardinality(displayed)),
     detection_count |-> Cardinality(displayed) + Cardinality(residual),
     remaining_risks |-> {DetectionType(d) : d \in displayed \cup residual}]

\* check_send_readiness.  A displayed detection makes the report
\* "review-required", so its branch for a clean report is that for no
\* detection at all.
SendReadiness(displayed, residual) ==
    LET report == ReportRisk(Cardinality(displayed))
        risk == IF residual = {} THEN report
                ELSE IF "high-risk" \in {report, ReportRisk(Cardinality(residual))} THEN "high-risk"
                ELSE "moderate-risk"
    IN [ready_to_send |-> displayed = {} /\ residual = {}, risk_level |-> risk,
        detection_count |-> Cardinality(displayed) + Cardinality(residual),
        remaining_risks |-> {DetectionType(d) : d \in displayed \cup residual}]

-----------------------------------------------------------------------------
(* The preview.                                                            *)

EngineInit ==
    /\ DetectorInit
    /\ replaced = <<>>
    /\ mappings = <<>>
    /\ origin = "none"
    /\ readiness = SendReadiness({}, {})
    /\ pending = {}
    /\ restored = <<>>

DetectionStep == DetectorStep /\ UNCHANGED previewVars

\* The rest of manual_preview, once both lists are known: the texts replace
\* the spans, each pair is saved, and the response is judged.
Answer(from, list, texts) ==
    /\ pass' = "answered"
    /\ origin' = from
    /\ replaced' = Spliced(list, texts)
    /\ mappings' = [i \in DOMAIN list |-> [original |-> Label(list[i]), replaced |-> texts[i]]]
    /\ readiness' = SendReadiness(shown, Residual(selected, shown))
    /\ UNCHANGED <<content, policy, matches, remaining, selected, shown, pending, restored>>

StrictPassDone == pass = "strict" /\ remaining = {}

\* Nothing to mask: the content is answered as it is.
LeaveUntouched ==
    /\ StrictPassDone /\ shown = {}
    /\ Answer("none", <<>>, <<>>)

\* TokenReplacer.replace, for the strategies alias and strict_token.
ReplaceWithTokens ==
    /\ StrictPassDone /\ shown # {} /\ policy # "local_rewrite"
    /\ Answer("token", InOrder(shown), Tokens(InOrder(shown)))

\* The local model answered.
RewriteWithModel(items) ==
    /\ StrictPassDone /\ shown # {} /\ policy = "local_rewrite"
    /\ Answer(IF Parses(items, InOrder(shown)) THEN "model" ELSE "fallback",
              InOrder(shown), Rewritten(items, InOrder(shown)))

\* No model is configured, or the call failed, timed out or was no JSON.
RewriteWithPlaceholders ==
    /\ StrictPassDone /\ shown # {} /\ policy = "local_rewrite"
    /\ Answer("fallback", InOrder(shown), FallbackTexts(InOrder(shown)))

-----------------------------------------------------------------------------
(* The restore of the text as it was answered.                             *)

StartRestore ==
    /\ pass = "answered"
    /\ pass' = "restoring"
    /\ restored' = replaced
    /\ pending' = DOMAIN mappings
    /\ UNCHANGED <<content, policy, matches, remaining, selected, shown,
                   replaced, mappings, origin, readiness>>

\* Mutant: the mappings are substituted in the order they were saved.
FirstSaved(i) == i \in pending /\ \A j \in pending : i <= j

\* sorted(..., key=len(replaced), reverse=True), which is stable.
LongestPending(i) ==
    /\ i \in pending
    /\ \A j \in pending :
        \/ Len(mappings[i].replaced) > Len(mappings[j].replaced)
        \/ Len(mappings[i].replaced) = Len(mappings[j].replaced) /\ i <= j

RestoreNext(i) ==
    /\ pass = "restoring"
    /\ LongestPending(i)
    /\ restored' = Substitute(restored, mappings[i].replaced, mappings[i].original)
    /\ pending' = pending \ {i}
    /\ UNCHANGED <<detectorVars, replaced, mappings, origin, readiness>>

\* The engine keeps nothing of a preview: the next one has its own session.
Return ==
    /\ pass = "restoring" /\ pending = {}
    /\ pass' = "idle"
    /\ content' = <<>> /\ policy' = "default" /\ matches' = {} /\ selected' = {} /\ shown' = {}
    /\ replaced' = <<>> /\ mappings' = <<>> /\ origin' = "none"
    /\ readiness' = SendReadiness({}, {}) /\ restored' = <<>>
    /\ UNCHANGED <<remaining, pending>>

EngineNext ==
    \/ DetectionStep
    \/ LeaveUntouched
    \/ ReplaceWithTokens
    \/ \E n \in 0..MaxItems : \E items \in [1..n -> Outputs] : RewriteWithModel(items)
    \/ RewriteWithPlaceholders
    \/ StartRestore
    \/ \E i \in pending : RestoreNext(i)
    \/ Return

EngineSpec == EngineInit /\ [][EngineNext]_vars

-----------------------------------------------------------------------------
(* Properties.                                                             *)

\* ready_to_send is true only of a text in which no pattern of any policy
\* matches anything, and that text is the content itself.  The check compares
\* two greedy selections, and neither holds every candidate.
ReadyMeansNoCandidate ==
    pass = "answered" /\ readiness.ready_to_send =>
        CandidatesOf(content, matches) = {} /\ replaced = content

\* The content has no placeholder of its own, and goes on with a digit neither
\* where a numeral would end nor behind a placeholder's word.
OrdinaryContent ==
    LET digitAt(i) == i <= Len(content) /\ content[i].kind = "digit"
    IN /\ \A i \in DOMAIN content : content[i].kind = "word" => ~digitAt(i + 1)
       /\ \A d \in shown : ~digitAt(d.end)

\* Restoring the answered text gives the content back: always for tokens, and
\* for deterministic placeholders unless a digit of the content makes another
\* placeholder of one.  One numeral may begin another: "1" and "10".
RoundTrip ==
    /\ pass = "restoring" /\ pending = {}
    /\ origin \in {"none", "token"} \/ (origin = "fallback" /\ OrdinaryContent)
    => restored = content

\* No two detections of one preview share a replacement text, unless a model
\* wrote it: restore could not tell them apart.
ReplacementsDistinct ==
    origin # "model" =>
        \A i, j \in DOMAIN mappings : mappings[i].replaced = mappings[j].replaced => i = j

\* Local rewriting preserves restore semantics: the answered text restores to
\* the content, as it does under the token strategies.
RewriteRoundTrip ==
    pass = "restoring" /\ pending = {} /\ origin \in {"model", "fallback"} => restored = content
=================================================================================
