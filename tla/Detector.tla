-------------------------------- MODULE Detector --------------------------------
(***************************************************************************)
(* RegexDetector of engine/src/detector.py, as the manual preview runs it: *)
(* one pass under the policy of the request (what the user is shown), then *)
(* one strict pass (what the readiness check compares it with).            *)
(*                                                                         *)
(* The patterns are numbered in the order of their priority; what a        *)
(* regular expression matches in a text is left open.  A match is a span   *)
(* of the normalized text; a candidate is the span of the original text it *)
(* is mapped back to.  Positions count from 1 and an end is exclusive.     *)
(***************************************************************************)
EXTENDS Naturals, Sequences, FiniteSets

CONSTANTS
    Patterns,     \* the positions in the order of priority
    Core,         \* the patterns of the types the default policy detects
    Contents,     \* the texts a request may carry
    Width,        \* how many characters NFKC makes of one; 0 when it is dropped
    MaxMatch,     \* bound on the length of a match, for model checking
    MaxFound      \* bound on the matches in a text, for model checking

Policies == {"default", "strict_token", "local_rewrite"}

ASSUME PatternsAssumption == Patterns \subseteq Nat /\ IsFiniteSet(Patterns) /\ Core \subseteq Patterns
ASSUME ContentsAssumption == Contents \subseteq Seq(DOMAIN Width)
ASSUME BoundAssumption == MaxFound \in Nat
ASSUME WidthAssumption == \A char \in DOMAIN Width : Width[char] \in Nat

VARIABLES
    content,    \* the text being previewed
    policy,     \* the policy of the request
    matches,    \* the valid matches of all patterns in the normalized text
    pass,       \* "idle", "shown", "strict", and then the engine's steps
    remaining,  \* candidates of this pass the selection has still to look at
    selected,   \* candidates of this pass that are taken
    shown       \* the detections of the first pass

detectorVars == <<content, policy, matches, pass, remaining, selected, shown>>

Candidate == [pattern : Patterns, start : Nat, end : Nat]
Match == [pattern : Patterns, from : Nat, to : Nat]

-----------------------------------------------------------------------------
(* Normalization, and the way back.                                        *)

\* position_map: for every character of the normalized text, the position of
\* the original character it comes from.
PositionMap(text) ==
    LET upTo[i \in 0..Len(text)] ==
            IF i = 0 THEN <<>>
            ELSE upTo[i - 1] \o [n \in 1..Width[text[i]] |-> i]
    IN upTo[Len(text)]

\* The non-empty spans of the normalized text, of at most MaxMatch characters.
Spans(text) ==
    LET length == Len(PositionMap(text))
    IN {span \in (1..length) \X (2..(length + 1)) :
            span[1] < span[2] /\ span[2] - span[1] <= MaxMatch}

\* Mutant: the exclusive end is mapped like the start.
RemapSpanShort(map, m) ==
    [pattern |-> m.pattern, start |-> map[m.from],
     end |-> IF m.to > Len(map) THEN map[Len(map)] + 1 ELSE map[m.to]]

RemapSpan(map, m) ==
    [pattern |-> m.pattern, start |-> map[m.from], end |-> map[m.to - 1] + 1]

CandidatesOf(text, ms) == {RemapSpan(PositionMap(text), m) : m \in ms}

-----------------------------------------------------------------------------
(* Policies.                                                               *)

\* The preview detects under strict_token for local_rewrite too.
EnabledForPolicy(p, pol) == pol # "default" \/ p \in Core

\* _find_candidates.  The patterns that only a strict policy consults are
\* further members of Patterns, outside Core and after all the others.
FindCandidates(text, ms, pol) ==
    {c \in CandidatesOf(text, ms) : EnabledForPolicy(c.pattern, pol)}

-----------------------------------------------------------------------------
(* The selection.                                                          *)

Overlaps(left, right) == left.start < right.end /\ right.start < left.end

\* Mutant: the sign of the length in the sort key is lost.
NotAfterShortest(left, right) ==
    \/ left.start < right.start
    \/ left.start = right.start /\ left.end < right.end
    \/ left.start = right.start /\ left.end = right.end /\ left.pattern <= right.pattern

\* The sort key (start, -(end - start), priority), and then the order in which
\* the candidates were found.
NotAfter(left, right) ==
    \/ left.start < right.start
    \/ left.start = right.start /\ left.end > right.end
    \/ left.start = right.start /\ left.end = right.end /\ left.pattern <= right.pattern

DetectorInit ==
    /\ content = <<>>
    /\ policy = "default"
    /\ matches = {}
    /\ pass = "idle"
    /\ remaining = {}
    /\ selected = {}
    /\ shown = {}

\* detect for the request: the valid matches found in the normalized text,
\* and the candidates among them.
Detect(text, pol, found) ==
    /\ content' = text
    /\ policy' = pol
    /\ matches' = found
    /\ pass' = "shown"
    /\ remaining' = FindCandidates(text, found, pol)
    /\ selected' = {}
    /\ shown' = {}

\* Mutant: only detections of the same pattern are compared.
SelectNextByPattern(c) ==
    /\ pass \in {"shown", "strict"}
    /\ c \in remaining
    /\ \A other \in remaining : NotAfter(c, other)
    /\ remaining' = remaining \ {c}
    /\ selected' = IF \E s \in selected : s.pattern = c.pattern /\ Overlaps(c, s)
                   THEN selected ELSE selected \cup {c}
    /\ UNCHANGED <<content, policy, matches, pass, shown>>

\* Mutant: a candidate that touches a taken one is passed over as well.
SelectNextApart(c) ==
    /\ pass \in {"shown", "strict"}
    /\ c \in remaining
    /\ \A other \in remaining : NotAfter(c, other)
    /\ remaining' = remaining \ {c}
    /\ selected' = IF \E s \in selected : c.start <= s.end THEN selected ELSE selected \cup {c}
    /\ UNCHANGED <<content, policy, matches, pass, shown>>

\* The next candidate in the order is taken unless it overlaps a taken one.
SelectNext(c) ==
    /\ pass \in {"shown", "strict"}
    /\ c \in remaining
    /\ \A other \in remaining : NotAfter(c, other)
    /\ remaining' = remaining \ {c}
    /\ selected' = IF \E s \in selected : Overlaps(c, s) THEN selected ELSE selected \cup {c}
    /\ UNCHANGED <<content, policy, matches, pass, shown>>

\* The list that is shown is complete; detect again with policy="strict_token".
FindStrict ==
    /\ pass = "shown" /\ remaining = {}
    /\ pass' = "strict"
    /\ shown' = selected
    /\ remaining' = FindCandidates(content, matches, "strict_token")
    /\ selected' = {}
    /\ UNCHANGED <<content, policy, matches>>

\* What the patterns may match in a text.  finditer finds any number of
\* matches of one pattern, of which none overlaps another.
MatchSets(text) ==
    LET none == <<>>
        hits == {[pattern |-> p, from |-> span[1], to |-> span[2]] : p \in Patterns, span \in Spans(text)}
        sets == {{hit[i] : i \in 1..MaxFound} \ {none} : hit \in [1..MaxFound -> hits \cup {none}]}
    IN {found \in sets : \A m, n \in found :
            m.pattern = n.pattern => m = n \/ m.to <= n.from \/ n.to <= m.from}

DetectorStep ==
    \/ /\ pass = "idle"
       /\ \E text \in Contents, pol \in Policies : \E found \in MatchSets(text) :
            Detect(text, pol, found)
    \/ \E c \in remaining : SelectNext(c)
    \/ FindStrict

-----------------------------------------------------------------------------
(* Properties.                                                             *)

\* What a pass has looked at so far.
PassPolicy == IF pass = "shown" THEN policy ELSE "strict_token"
Examined ==
    IF pass \in {"shown", "strict"} THEN FindCandidates(content, matches, PassPolicy) \ remaining ELSE {}

\* Two detections never share a character of the original text, although
\* their matches are found in the normalized one: the replacer writes from the
\* right to the left with the original positions.
SelectedDisjoint ==
    \A set \in {selected, shown} : \A c, d \in set : Overlaps(c, d) => c = d

\* A candidate is passed over only because something it overlaps is masked.
SelectionMaximal ==
    \A c \in Examined \ selected : \E s \in selected : Overlaps(c, s)

\* A candidate that is passed over keeps no more than a tail in clear: it
\* begins inside an earlier detection, or a detection that begins with it
\* reaches at least as far.
HeadsMasked ==
    \A c \in Examined : \E s \in selected :
        \/ s.start < c.start /\ c.start < s.end
        \/ s.start = c.start /\ c.end <= s.end

\* A span of the original holds every character its match came from, the
\* ones that expand under NFKC and the invisible ones in between included, and
\* begins and ends with one of them.
SpanCoversMatch ==
    \A m \in matches :
        LET map == PositionMap(content)
            span == RemapSpan(map, m)
            from == {map[i] : i \in m.from..(m.to - 1)}
        IN from \subseteq span.start..(span.end - 1) /\ {span.start, span.end - 1} \subseteq from
=================================================================================
