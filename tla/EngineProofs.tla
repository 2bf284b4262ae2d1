------------------------------ MODULE EngineProofs ------------------------------
(***************************************************************************)
(* What holds of every preview, for any patterns, texts and matches: the   *)
(* spans that are masked are disjoint and cover what was matched, no       *)
(* candidate is passed over without cause, a text is declared ready only   *)
(* if there was none at all, no two detections are replaced alike, and     *)
(* restoring the answered text gives the content back.                     *)
(***************************************************************************)
EXTENDS ManualPreviewEngine, Foundations, SequenceTheorems

-----------------------------------------------------------------------------
(* The detector, one pass at a time.                                       *)

LEMMA OverlapsSymmetric ==
    ASSUME NEW c, NEW d, Overlaps(c, d)
    PROVE  Overlaps(d, c)
  BY DEF Overlaps

\* A candidate joins the selected ones only if it touches none of them.
LEMMA SelectNextDisjoint ==
    ASSUME SelectedDisjoint, NEW c, SelectNext(c)
    PROVE  SelectedDisjoint'
  <1>1. CASE \E s \in selected : Overlaps(c, s)
    BY <1>1 DEF SelectNext, SelectedDisjoint, Overlaps
  <1>2. CASE ~ \E s \in selected : Overlaps(c, s)
    <2>1. selected' = selected \cup {c} /\ shown' = shown
      BY <1>2 DEF SelectNext
    <2>2. ASSUME NEW d \in selected', NEW e \in selected', Overlaps(d, e)
          PROVE  d = e
      BY <1>2, <2>1, <2>2, OverlapsSymmetric DEF SelectedDisjoint
    <2> QED BY <2>1, <2>2 DEF SelectedDisjoint, Overlaps
  <1> QED BY <1>1, <1>2

\* What every other step does to the two lists.
LEMMA ListsKept ==
    ASSUME \/ LeaveUntouched \/ ReplaceWithTokens \/ RewriteWithPlaceholders
           \/ \E n \in 0..MaxItems : \E items \in [1..n -> Outputs] : RewriteWithModel(items)
           \/ StartRestore \/ (\E i \in pending : RestoreNext(i)) \/ UNCHANGED vars
    PROVE  UNCHANGED <<content, policy, matches, remaining, selected, shown>>
  BY DEF LeaveUntouched, ReplaceWithTokens, RewriteWithPlaceholders, RewriteWithModel, Answer,
         StartRestore, RestoreNext, detectorVars, vars

LEMMA DisjointStep ==
    ASSUME SelectedDisjoint, [EngineNext]_vars
    PROVE  SelectedDisjoint'
  <1>1. ASSUME NEW text, NEW pol, NEW found, Detect(text, pol, found)
        PROVE  SelectedDisjoint'
    BY <1>1 DEF Detect, SelectedDisjoint
  <1>2. ASSUME FindStrict
        PROVE  SelectedDisjoint'
    BY <1>2 DEF FindStrict, SelectedDisjoint, Overlaps
  <1>3. ASSUME Return
        PROVE  SelectedDisjoint'
    BY <1>3 DEF Return, SelectedDisjoint
  <1>4. ASSUME UNCHANGED <<selected, shown>>
        PROVE  SelectedDisjoint'
    BY <1>4 DEF SelectedDisjoint, Overlaps
  <1> QED
    BY <1>1, <1>2, <1>3, <1>4, SelectNextDisjoint, ListsKept DEF EngineNext, DetectionStep, DetectorStep

-----------------------------------------------------------------------------
\* While the detector works on a pass, something examined and not taken
\* overlaps something taken.
LEMMA SelectNextMaximal ==
    ASSUME SelectionMaximal, NEW c, SelectNext(c)
    PROVE  SelectionMaximal'
  <1>1. Examined' \subseteq Examined \cup {c}
    BY DEF SelectNext, Examined, PassPolicy, FindCandidates, CandidatesOf, EnabledForPolicy
  <1>2. selected \subseteq selected'
    BY DEF SelectNext
  <1>3. c \in selected' \/ \E s \in selected' : Overlaps(c, s)
    BY DEF SelectNext
  <1>4. ASSUME NEW d \in Examined' \ selected'
        PROVE  \E s \in selected' : Overlaps(d, s)
    <2>1. CASE d = c
      BY <2>1, <1>3
    <2>2. CASE d # c
      BY <2>2, <1>1, <1>2 DEF SelectionMaximal
    <2> QED BY <2>1, <2>2
  <1> QED BY <1>4 DEF SelectionMaximal, Overlaps

LEMMA MaximalStep ==
    ASSUME SelectionMaximal, [EngineNext]_vars
    PROVE  SelectionMaximal'
  <1>1. ASSUME NEW text, NEW pol, NEW found, Detect(text, pol, found)
        PROVE  Examined' = {}
    BY <1>1 DEF Detect, Examined, PassPolicy, FindCandidates, CandidatesOf, EnabledForPolicy
  <1>2. ASSUME FindStrict
        PROVE  Examined' = {}
    BY <1>2 DEF FindStrict, Examined, PassPolicy, FindCandidates, CandidatesOf, EnabledForPolicy
  <1>3. ASSUME \/ LeaveUntouched \/ ReplaceWithTokens \/ RewriteWithPlaceholders
               \/ \E n \in 0..MaxItems : \E items \in [1..n -> Outputs] : RewriteWithModel(items)
               \/ StartRestore \/ (\E i \in pending : RestoreNext(i)) \/ Return
        PROVE  pass' \notin {"shown", "strict"}
    BY <1>3 DEF LeaveUntouched, ReplaceWithTokens, RewriteWithPlaceholders, RewriteWithModel, Answer,
                StartRestore, RestoreNext, Return, detectorVars
  <1>4. ASSUME pass' \notin {"shown", "strict"}
        PROVE  Examined' = {}
    BY <1>4 DEF Examined
  <1>5. ASSUME Examined' = {}
        PROVE  SelectionMaximal'
    BY <1>5 DEF SelectionMaximal
  <1>6. ASSUME UNCHANGED vars
        PROVE  SelectionMaximal'
    BY <1>6 DEF vars, detectorVars, SelectionMaximal, Examined, PassPolicy, FindCandidates, CandidatesOf,
                EnabledForPolicy, Overlaps
  <1> QED
    BY <1>1, <1>2, <1>3, <1>4, <1>5, <1>6, SelectNextMaximal DEF EngineNext, DetectionStep, DetectorStep

-----------------------------------------------------------------------------
(* Readiness.                                                              *)

\* Without detections the content is answered as it is.
LEMMA NothingSpliced == Spliced(<<>>, <<>>) = content
  <1> DEFINE Body(f) == [i \in 1..(Len(<<>>) + 1) |->
                IF i > Len(<<>>) THEN content
                ELSE SubSeq(f[i + 1], 1, <<>>[i].start - 1) \o <<>>[i]
                        \o SubSeq(f[i + 1], <<>>[i].end, Len(f[i + 1]))]
             whole == [i \in 1..1 |-> content]
             downTo == CHOOSE f : f = Body(f)
  <1>1. whole = Body(whole)
    OBVIOUS
  <1>2. downTo = Body(downTo)
    BY <1>1
  <1>3. downTo[1] = content
    BY <1>2
  <1> QED BY <1>3 DEF Spliced

LEMMA NothingFound ==
    ASSUME SelectionMaximal, StrictPassDone, selected = {}
    PROVE  CandidatesOf(content, matches) = {}
  <1>1. Examined = CandidatesOf(content, matches)
    BY DEF StrictPassDone, Examined, PassPolicy, FindCandidates, EnabledForPolicy
  <1> QED BY <1>1 DEF SelectionMaximal

LEMMA ReadyStep ==
    ASSUME SelectionMaximal, ReadyMeansNoCandidate, [EngineNext]_vars
    PROVE  ReadyMeansNoCandidate'
  <1> SUFFICES ASSUME pass' = "answered", readiness'.ready_to_send
               PROVE  CandidatesOf(content, matches)' = {} /\ replaced' = content'
    BY DEF ReadyMeansNoCandidate
  <1>1. CASE LeaveUntouched
    <2>1. readiness'.ready_to_send = (shown = {} /\ Residual(selected, shown) = {})
      BY <1>1 DEF LeaveUntouched, Answer, SendReadiness
    <2>2. selected = {}
      BY <1>1, <2>1 DEF LeaveUntouched, Residual
    <2>3. CandidatesOf(content, matches)' = {}
      BY <1>1, <2>2, NothingFound DEF LeaveUntouched, Answer, CandidatesOf
    <2> QED BY <1>1, <2>3, NothingSpliced DEF LeaveUntouched, Answer
  <1>2. ASSUME NEW from, NEW list, NEW texts, Answer(from, list, texts), shown # {}
        PROVE  FALSE
    BY <1>2 DEF Answer, SendReadiness
  <1>3. CASE ReplaceWithTokens \/ RewriteWithPlaceholders
             \/ \E n \in 0..MaxItems : \E items \in [1..n -> Outputs] : RewriteWithModel(items)
    BY <1>3, <1>2 DEF ReplaceWithTokens, RewriteWithPlaceholders, RewriteWithModel
  <1>4. CASE DetectionStep \/ StartRestore \/ (\E i \in pending : RestoreNext(i)) \/ Return
    BY <1>4 DEF DetectionStep, DetectorStep, Detect, SelectNext, FindStrict, StartRestore, RestoreNext,
                Return, detectorVars
  <1>5. CASE UNCHANGED vars
    BY <1>5 DEF vars, detectorVars, previewVars, ReadyMeansNoCandidate, CandidatesOf
  <1> QED BY <1>1, <1>3, <1>4, <1>5 DEF EngineNext

-----------------------------------------------------------------------------

\* The replacer writes over disjoint spans of the text, whatever the patterns
\* match and however the matches overlap.
THEOREM SpansNeverShared == EngineSpec => []SelectedDisjoint
  <1>1. EngineInit => SelectedDisjoint
    BY DEF EngineInit, DetectorInit, SelectedDisjoint
  <1> QED BY <1>1, DisjointStep, PTL DEF EngineSpec

\* A candidate stays unmasked only because a masked one overlaps it.
THEOREM NothingPassedOver == EngineSpec => []SelectionMaximal
  <1>1. EngineInit => SelectionMaximal
    BY DEF EngineInit, DetectorInit, SelectionMaximal, Examined
  <1> QED BY <1>1, MaximalStep, PTL DEF EngineSpec

\* A text is declared ready to send only if no pattern of any policy found
\* anything in it, and it is then answered unchanged.
THEOREM ReadyTextIsClean == EngineSpec => []ReadyMeansNoCandidate
  <1>1. EngineInit => SelectionMaximal /\ ReadyMeansNoCandidate
    BY DEF EngineInit, DetectorInit, SelectionMaximal, Examined, ReadyMeansNoCandidate
  <1> QED BY <1>1, MaximalStep, ReadyStep, PTL DEF EngineSpec

-----------------------------------------------------------------------------
(* The way back from the normalized text.                                  *)

\* The positions of one pass over the first i characters.
LEMMA PositionMapEquation ==
    ASSUME NEW text \in Seq(DOMAIN Width)
    PROVE  \E upTo :
              /\ PositionMap(text) = upTo[Len(text)]
              /\ upTo[0] = <<>>
              /\ \A i \in 1..Len(text) : upTo[i] = upTo[i - 1] \o [n \in 1..Width[text[i]] |-> i]
  <1> DEFINE S == 0..Len(text)
             T == Seq(Nat)
             mu == [i \in S |-> i]
             Part(i) == [n \in 1..Width[text[i]] |-> i]
             Rhs(i, g) == IF i = 0 THEN <<>> ELSE g[i - 1] \o Part(i)
             F == [x \in S \X [S -> T] |-> Rhs(x[1], x[2])]
  <1>1. Len(text) \in Nat /\ \A i \in 1..Len(text) : Width[text[i]] \in Nat
    BY WidthAssumption
  <1>2. \A i \in 1..Len(text) : Part(i) \in Seq(Nat)
    BY <1>1
  <1>3. ASSUME NEW i \in S, NEW g \in [S -> T]
        PROVE  Rhs(i, g) \in T
    <2>1. CASE i = 0
      BY <2>1
    <2>2. CASE i # 0
      <3>1. i \in 1..Len(text) /\ i - 1 \in S
        BY <1>1, <2>2
      <3> HIDE DEF Part
      <3>2. g[i - 1] \in Seq(Nat) /\ Part(i) \in Seq(Nat)
        BY <1>2, <3>1
      <3>3. g[i - 1] \o Part(i) \in Seq(Nat)
        BY <3>2, ConcatProperties
      <3> QED BY <2>2, <3>3
    <2> QED BY <2>1, <2>2
  <1>4. mu \in [S -> Nat] /\ T # {}
    <2>1. <<>> \in T
      OBVIOUS
    <2>2. S \subseteq Nat
      BY <1>1
    <2>3. mu \in [S -> Nat]
      <3> HIDE DEF S
      <3> QED BY <2>2
    <2>4. T # {}
      <3> HIDE DEF T
      <3> QED BY <2>1
    <2> QED BY <2>3, <2>4
  <1>5. F \in [S \X [S -> T] -> T]
    <2> HIDE DEF Rhs, S, T
    <2> QED BY <1>3
  <1>6. LooksBack(S, T, mu, F)
    <2> SUFFICES ASSUME NEW i \in S, NEW g \in [S -> T], NEW h \in [S -> T],
                        \A j \in S : mu[j] < mu[i] => g[j] = h[j]
                 PROVE  F[<<i, g>>] = F[<<i, h>>]
      <3> HIDE DEF F, S, T, mu
      <3> QED BY DEF LooksBack
    <2>0. F[<<i, g>>] = Rhs(i, g) /\ F[<<i, h>>] = Rhs(i, h)
      <3> HIDE DEF Rhs, S, T
      <3> QED OBVIOUS
    <2>1. i # 0 => i - 1 \in S /\ i - 1 < i
      BY <1>1
    <2> QED BY <2>0, <2>1
  <1>7. PICK g : Solves(S, T, F, g)
    <2> HIDE DEF F, S, T, mu
    <2> QED BY <1>4, <1>5, <1>6, SolutionExists
  <1>8. g = [i \in S |-> Rhs(i, g)]
    BY <1>7 DEF Solves
  <1> DEFINE upTo == CHOOSE f : f = [i \in S |-> Rhs(i, f)]
  <1>9. upTo = [i \in S |-> Rhs(i, upTo)]
    BY <1>8
  <1>10. PositionMap(text) = upTo[Len(text)]
    BY DEF PositionMap
  <1>11. upTo[0] = <<>> /\ \A i \in 1..Len(text) : upTo[i] = upTo[i - 1] \o Part(i)
    <2>1. ASSUME NEW i \in 1..Len(text)
          PROVE  upTo[i] = upTo[i - 1] \o Part(i)
      <3>1. i \in S /\ i # 0
        BY <1>1
      <3> QED BY <1>9, <3>1
    <2>2. upTo[0] = <<>>
      <3>1. 0 \in S
        BY <1>1
      <3> QED BY <1>9, <3>1
    <2> QED BY <2>1, <2>2
  <1> HIDE DEF upTo
  <1> QED BY <1>10, <1>11

\* The positions are those of the text, and they never go back.
Positions(map, i) ==
    /\ map \in Seq(1..i)
    /\ \A m, n \in 1..Len(map) : m <= n => map[m] <= map[n]

LEMMA PositionMapFacts ==
    ASSUME NEW text \in Seq(DOMAIN Width)
    PROVE  Positions(PositionMap(text), Len(text))
  <1>1. PICK upTo :
              /\ PositionMap(text) = upTo[Len(text)]
              /\ upTo[0] = <<>>
              /\ \A i \in 1..Len(text) : upTo[i] = upTo[i - 1] \o [n \in 1..Width[text[i]] |-> i]
    BY PositionMapEquation
  <1> DEFINE P == {i \in Nat : i <= Len(text) => Positions(upTo[i], i)}
  <1>2. 0 \in P
    <2>1. Positions(<<>>, 0)
      BY DEF Positions
    <2> QED BY <1>1, <2>1
  <1>3. ASSUME NEW i \in P
        PROVE  i + 1 \in P
    <2> SUFFICES ASSUME i + 1 <= Len(text)
                 PROVE  Positions(upTo[i + 1], i + 1)
      OBVIOUS
    <2> DEFINE old == upTo[i]
               j == i + 1
               w == Width[text[j]]
               new == [n \in 1..w |-> j]
               map == upTo[j]
    <2>1. j \in 1..Len(text) /\ j - 1 = i /\ w \in Nat /\ Positions(old, i)
      BY WidthAssumption
    <2>2. map = old \o new
      BY <1>1, <2>1
    <2>3. new \in Seq(1..j) /\ Len(new) = w /\ \A n \in 1..w : new[n] = j
      <3> HIDE DEF w, j
      <3> QED BY <2>1
    <2>4. old \in Seq(1..j) /\ Len(old) \in Nat /\ \A n \in 1..Len(old) : old[n] \in 1..i
      BY <2>1 DEF Positions
    <2> HIDE DEF old, new, map, w, j
    <2>5. /\ map \in Seq(1..j) /\ Len(map) = Len(old) + w
          /\ \A n \in 1..Len(map) : map[n] = IF n <= Len(old) THEN old[n] ELSE new[n - Len(old)]
      BY <2>2, <2>3, <2>4, ConcatProperties
    <2>6. ASSUME NEW m \in 1..Len(map), NEW n \in 1..Len(map), m <= n
          PROVE  map[m] <= map[n]
      <3>1. CASE n <= Len(old)
        <4>1. m \in 1..Len(old) /\ n \in 1..Len(old)
          BY <2>4, <2>5, <2>6, <3>1
        <4>2. map[m] = old[m] /\ map[n] = old[n]
          BY <2>5, <4>1
        <4> QED BY <2>1, <2>6, <4>1, <4>2 DEF Positions
      <3>2. CASE ~(n <= Len(old))
        <4>1. n - Len(old) \in 1..w
          BY <2>1, <2>4, <2>5, <3>2
        <4>2. map[n] = j
          BY <2>3, <2>5, <3>2, <4>1
        <4>3. map[m] \in 1..j
          BY <2>5, ElementOfSeq
        <4> QED BY <2>1, <4>2, <4>3
      <3> QED BY <3>1, <3>2
    <2> QED BY <2>5, <2>6 DEF Positions, map, j
  <1>4. P = Nat
    <2> HIDE DEF P
    <2>1. P \in SUBSET Nat
      BY DEF P
    <2> QED BY <1>2, <1>3, <2>1, NatInSet
  <1> QED BY <1>1, <1>4

-----------------------------------------------------------------------------
(* What a pass works on: the matches lie in the normalized text, and their *)
(* spans in the original one.                                              *)

InText(m, length) ==
    /\ m = [pattern |-> m.pattern, from |-> m.from, to |-> m.to]
    /\ m.pattern \in Patterns
    /\ m.from \in 1..length /\ m.to \in 2..(length + 1) /\ m.from < m.to

MatchesInv ==
    /\ content \in Seq(DOMAIN Width)
    /\ IsFiniteSet(matches)
    /\ \A m \in matches : InText(m, Len(PositionMap(content)))

LEMMA MatchSetsFacts ==
    ASSUME NEW text \in Contents, NEW found \in MatchSets(text)
    PROVE  /\ IsFiniteSet(found)
           /\ \A m \in found : InText(m, Len(PositionMap(text)))
  <1> DEFINE none == <<>>
             length == Len(PositionMap(text))
             hits == {[pattern |-> p, from |-> span[1], to |-> span[2]] : p \in Patterns, span \in Spans(text)}
  <1>1. PICK hit \in [1..MaxFound -> hits \cup {none}] : found = {hit[i] : i \in 1..MaxFound} \ {none}
    BY DEF MatchSets
  <1>2. IsFiniteSet(found)
    <2>1. IsFiniteSet(1..MaxFound)
      BY BoundAssumption, FS_Interval
    <2>2. IsFiniteSet({hit[i] : i \in 1..MaxFound})
      <3>1. DOMAIN hit = 1..MaxFound
        OBVIOUS
      <3> HIDE DEF hits
      <3> QED BY <2>1, <3>1, FiniteImage
    <2> QED BY <1>1, <2>2, FS_Subset
  <1>3. ASSUME NEW m \in found
        PROVE  InText(m, length)
    <2>1. m \in hits
      BY <1>1
    <2>2. PICK p \in Patterns, span \in Spans(text) : m = [pattern |-> p, from |-> span[1], to |-> span[2]]
      BY <2>1
    <2>3. span[1] \in 1..length /\ span[2] \in 2..(length + 1) /\ span[1] < span[2]
      BY DEF Spans
    <2> QED BY <2>2, <2>3 DEF InText
  <1> QED BY <1>2, <1>3

LEMMA MatchesStep == MatchesInv /\ [EngineNext]_vars => MatchesInv'
  <1> SUFFICES ASSUME MatchesInv, [EngineNext]_vars
               PROVE  MatchesInv'
    OBVIOUS
  <1>1. ASSUME UNCHANGED <<content, matches>>
        PROVE  MatchesInv'
    BY <1>1 DEF MatchesInv
  <1>2. ASSUME NEW text \in Contents, NEW pol \in Policies, NEW found \in MatchSets(text),
               Detect(text, pol, found)
        PROVE  MatchesInv'
    BY <1>2, MatchSetsFacts, ContentsAssumption DEF Detect, MatchesInv
  <1>3. ASSUME Return
        PROVE  MatchesInv'
    BY <1>3, FS_EmptySet DEF Return, MatchesInv
  <1>4. ASSUME NEW c, SelectNext(c)
        PROVE  UNCHANGED <<content, matches>>
    BY <1>4 DEF SelectNext
  <1>5. ASSUME FindStrict
        PROVE  UNCHANGED <<content, matches>>
    BY <1>5 DEF FindStrict
  <1> QED BY <1>1, <1>2, <1>3, <1>4, <1>5, ListsKept DEF EngineNext, DetectionStep, DetectorStep

LEMMA MatchesHold == EngineSpec => []MatchesInv
  <1>1. EngineInit => MatchesInv
    BY FS_EmptySet DEF EngineInit, DetectorInit, MatchesInv
  <1> QED BY <1>1, MatchesStep, PTL DEF EngineSpec

\* A span, of a match and of the text it is mapped back to.
LEMMA RemapSpanFacts ==
    ASSUME NEW text \in Seq(DOMAIN Width), NEW m, InText(m, Len(PositionMap(text)))
    PROVE  LET map == PositionMap(text)
               c == RemapSpan(map, m)
           IN /\ c = [pattern |-> m.pattern, start |-> map[m.from], end |-> map[m.to - 1] + 1]
              /\ c.start \in 1..Len(text) /\ c.end \in 2..(Len(text) + 1) /\ c.start < c.end
              /\ \A i \in m.from..(m.to - 1) : map[i] \in c.start..(c.end - 1)
  <1> DEFINE map == PositionMap(text)
             c == RemapSpan(map, m)
             first == m.from
             last == m.to - 1
  <1>1. Positions(map, Len(text)) /\ Len(text) \in Nat
    BY PositionMapFacts
  <1>2. /\ first \in 1..Len(map) /\ last \in 1..Len(map) /\ first <= last /\ Len(map) \in Nat
    BY <1>1 DEF InText, Positions
  <1>3. \A i \in 1..Len(map) : map[i] \in 1..Len(text)
    BY <1>1, ElementOfSeq DEF Positions
  <1>4. c = [pattern |-> m.pattern, start |-> map[first], end |-> map[last] + 1]
    BY DEF RemapSpan
  <1>5. ASSUME NEW i \in first..last
        PROVE  map[first] <= map[i] /\ map[i] <= map[last] /\ map[i] \in 1..Len(text)
    BY <1>1, <1>2, <1>3 DEF Positions
  <1> HIDE DEF map, first, last
  <1>6. map[first] <= map[last] /\ map[first] \in 1..Len(text) /\ map[last] \in 1..Len(text)
    BY <1>2, <1>3, <1>5
  <1>7. c.start = map[first] /\ c.end = map[last] + 1
    BY <1>4
  <1>8. /\ c.start \in 1..Len(text) /\ c.end \in 2..(Len(text) + 1) /\ c.start < c.end
        /\ \A i \in first..last : map[i] \in c.start..(c.end - 1)
    <2> HIDE DEF c
    <2> QED BY <1>1, <1>5, <1>6, <1>7
  <1> QED BY <1>4, <1>8 DEF map, first, last

LEMMA CandidateFacts ==
    ASSUME MatchesInv, NEW c \in CandidatesOf(content, matches)
    PROVE  /\ c = [pattern |-> c.pattern, start |-> c.start, end |-> c.end]
           /\ c.pattern \in Patterns /\ c.pattern \in Nat
           /\ c.start \in 1..Len(content) /\ c.end \in 2..(Len(content) + 1) /\ c.start < c.end
  <1>1. PICK m \in matches : c = RemapSpan(PositionMap(content), m)
    BY DEF CandidatesOf
  <1>2. InText(m, Len(PositionMap(content))) /\ content \in Seq(DOMAIN Width)
    BY DEF MatchesInv
  <1>3. m.pattern \in Patterns /\ m.pattern \in Nat
    BY <1>2, PatternsAssumption DEF InText
  <1>4. c = [pattern |-> m.pattern, start |-> PositionMap(content)[m.from], end |-> PositionMap(content)[m.to - 1] + 1]
    BY <1>1, <1>2, RemapSpanFacts
  <1>5. c.start \in 1..Len(content) /\ c.end \in 2..(Len(content) + 1) /\ c.start < c.end
    BY <1>1, <1>2, RemapSpanFacts
  <1> QED BY <1>3, <1>4, <1>5

\* What is masked in the original is what was matched in the normalized text,
\* neither less nor more, whatever NFKC does to the characters.
THEOREM SpansCoverMatches == EngineSpec => []SpanCoversMatch
  <1>1. MatchesInv => SpanCoversMatch
    <2> SUFFICES ASSUME MatchesInv, NEW m \in matches
                 PROVE  LET map == PositionMap(content)
                            span == RemapSpan(map, m)
                            from == {map[i] : i \in m.from..(m.to - 1)}
                        IN from \subseteq span.start..(span.end - 1) /\ {span.start, span.end - 1} \subseteq from
      BY DEF SpanCoversMatch
    <2> DEFINE map == PositionMap(content)
               span == RemapSpan(map, m)
               from == {map[i] : i \in m.from..(m.to - 1)}
    <2>1. InText(m, Len(map)) /\ content \in Seq(DOMAIN Width)
      BY DEF MatchesInv
    <2>2. /\ span = [pattern |-> m.pattern, start |-> map[m.from], end |-> map[m.to - 1] + 1]
          /\ span.start \in 1..Len(content) /\ span.end \in 2..(Len(content) + 1)
          /\ \A i \in m.from..(m.to - 1) : map[i] \in span.start..(span.end - 1)
      BY <2>1, RemapSpanFacts
    <2>3. from \subseteq span.start..(span.end - 1)
      BY <2>2
    <2>4. m.from \in m.from..(m.to - 1) /\ m.to - 1 \in m.from..(m.to - 1)
      BY <2>1, PositionMapFacts DEF InText, Positions
    <2>5. span.start \in from
      BY <2>2, <2>4
    <2>6. span.end - 1 \in from
      <3>1. span.end - 1 = map[m.to - 1]
        <4>1. span.end = map[m.to - 1] + 1
          BY <2>2
        <4>2. map[m.to - 1] \in span.start..(span.end - 1) /\ span.start \in Nat /\ span.end \in Nat
          BY <2>2, <2>4
        <4> HIDE DEF span, map
        <4> QED BY <4>1, <4>2
      <3> HIDE DEF span
      <3> QED BY <2>4, <3>1
    <2> QED BY <2>3, <2>5, <2>6
  <1> QED BY <1>1, MatchesHold, PTL

-----------------------------------------------------------------------------
(* The order in which a pass looks at its candidates.                      *)

OrderInv ==
    pass \in {"shown", "strict"} =>
        /\ remaining \subseteq FindCandidates(content, matches, PassPolicy)
        /\ selected \subseteq Examined
        /\ \A e \in Examined, r \in remaining : NotAfter(e, r)

SelectionInv == MatchesInv /\ SelectionMaximal /\ OrderInv /\ HeadsMasked

\* The candidate a step takes from the remaining ones is the only one that it examines.
LEMMA ExaminedNext ==
    ASSUME OrderInv, NEW c, SelectNext(c)
    PROVE  /\ Examined' = Examined \cup {c}
           /\ remaining' = remaining \ {c}
           /\ c \in FindCandidates(content, matches, PassPolicy)
  <1>1. FindCandidates(content, matches, PassPolicy)' = FindCandidates(content, matches, PassPolicy)
    BY DEF SelectNext, PassPolicy, FindCandidates, CandidatesOf, EnabledForPolicy
  <1>2. pass \in {"shown", "strict"} /\ pass' = pass /\ c \in remaining /\ remaining' = remaining \ {c}
    BY DEF SelectNext
  <1> QED BY <1>1, <1>2 DEF OrderInv, Examined

LEMMA SelectNextOrder ==
    ASSUME OrderInv, NEW c, SelectNext(c)
    PROVE  OrderInv'
  <1>1. /\ Examined' = Examined \cup {c}
        /\ remaining' = remaining \ {c}
    BY ExaminedNext
  <1>2. FindCandidates(content, matches, PassPolicy)' = FindCandidates(content, matches, PassPolicy)
    BY DEF SelectNext, PassPolicy, FindCandidates, CandidatesOf, EnabledForPolicy
  <1>3. pass \in {"shown", "strict"} /\ \A other \in remaining : NotAfter(c, other)
    BY DEF SelectNext
  <1>4. selected' \subseteq selected \cup {c}
    BY DEF SelectNext
  <1> QED BY <1>1, <1>2, <1>3, <1>4 DEF OrderInv, NotAfter

LEMMA SelectNextHeads ==
    ASSUME SelectionInv, NEW c, SelectNext(c)
    PROVE  HeadsMasked'
  <1>1. /\ Examined' = Examined \cup {c}
        /\ c \in FindCandidates(content, matches, PassPolicy)
        /\ pass \in {"shown", "strict"} /\ c \in remaining
    BY ExaminedNext DEF SelectionInv, SelectNext
  <1>2. ASSUME NEW d \in FindCandidates(content, matches, PassPolicy)
        PROVE  d.start \in Nat /\ d.end \in Nat
    <2>1. d \in CandidatesOf(content, matches) /\ MatchesInv
      BY <1>2 DEF FindCandidates, SelectionInv
    <2> QED BY <2>1, CandidateFacts
  <1>3. Examined \subseteq FindCandidates(content, matches, PassPolicy) /\ selected \subseteq Examined
    BY <1>1 DEF Examined, SelectionInv, OrderInv
  <1>4. selected \subseteq selected'
    BY DEF SelectNext
  <1>5. \E s \in selected' :
            \/ s.start < c.start /\ c.start < s.end
            \/ s.start = c.start /\ c.end <= s.end
    <2>1. CASE \E s \in selected : Overlaps(c, s)
      <3>1. PICK s \in selected : Overlaps(c, s)
        BY <2>1
      <3>2. NotAfter(s, c)
        BY <1>1, <1>3 DEF SelectionInv, OrderInv
      <3>3. s.start \in Nat /\ s.end \in Nat /\ c.start \in Nat /\ c.end \in Nat
        BY <1>1, <1>2, <1>3
      <3> QED BY <1>4, <3>1, <3>2, <3>3 DEF NotAfter, Overlaps
    <2>2. CASE ~(\E s \in selected : Overlaps(c, s))
      <3>1. c \in selected'
        BY <2>2 DEF SelectNext
      <3> QED BY <1>1, <1>2, <3>1
    <2> QED BY <2>1, <2>2
  <1> QED BY <1>1, <1>4, <1>5 DEF SelectionInv, HeadsMasked

LEMMA SelectionStep ==
    ASSUME SelectionInv, [EngineNext]_vars
    PROVE  SelectionInv'
  <1>1. MatchesInv' /\ SelectionMaximal'
    BY MatchesStep, MaximalStep DEF SelectionInv
  <1> SUFFICES OrderInv' /\ HeadsMasked'
    BY <1>1 DEF SelectionInv
  <1>2. ASSUME pass' \in {"shown", "strict"} => selected' = {} /\ Examined' = {}
                        /\ remaining' \subseteq FindCandidates(content, matches, PassPolicy)'
        PROVE  OrderInv' /\ HeadsMasked'
    BY <1>2 DEF OrderInv, HeadsMasked, Examined
  <1>3. ASSUME NEW text, NEW pol, NEW found, Detect(text, pol, found)
        PROVE  OrderInv' /\ HeadsMasked'
    <2>1. selected' = {} /\ remaining' = FindCandidates(content, matches, PassPolicy)'
      BY <1>3 DEF Detect, PassPolicy, FindCandidates, CandidatesOf, EnabledForPolicy
    <2> QED BY <2>1, <1>2 DEF Examined
  <1>4. ASSUME FindStrict
        PROVE  OrderInv' /\ HeadsMasked'
    <2>1. selected' = {} /\ remaining' = FindCandidates(content, matches, PassPolicy)'
      BY <1>4 DEF FindStrict, PassPolicy, FindCandidates, CandidatesOf, EnabledForPolicy
    <2> QED BY <2>1, <1>2 DEF Examined
  <1>5. ASSUME \/ LeaveUntouched \/ ReplaceWithTokens \/ RewriteWithPlaceholders
               \/ \E n \in 0..MaxItems : \E items \in [1..n -> Outputs] : RewriteWithModel(items)
               \/ StartRestore \/ (\E i \in pending : RestoreNext(i)) \/ Return
        PROVE  OrderInv' /\ HeadsMasked'
    <2>1. pass' \notin {"shown", "strict"}
      BY <1>5 DEF LeaveUntouched, ReplaceWithTokens, RewriteWithPlaceholders, RewriteWithModel, Answer,
                  StartRestore, RestoreNext, Return, detectorVars
    <2> QED BY <2>1, <1>2
  <1>6. ASSUME UNCHANGED vars
        PROVE  OrderInv' /\ HeadsMasked'
    BY <1>6 DEF vars, detectorVars, SelectionInv, OrderInv, HeadsMasked, Examined, PassPolicy,
                FindCandidates, CandidatesOf, EnabledForPolicy, NotAfter
  <1>7. ASSUME NEW c, SelectNext(c)
        PROVE  OrderInv' /\ HeadsMasked'
    BY <1>7, SelectNextOrder, SelectNextHeads DEF SelectionInv
  <1> QED BY <1>3, <1>4, <1>5, <1>6, <1>7 DEF EngineNext, DetectionStep, DetectorStep

\* Of a candidate that is passed over no more than a tail stays unmasked,
\* whatever the patterns match and in whatever order the matches were found.
THEOREM OnlyTailsStayClear == EngineSpec => []HeadsMasked
  <1>1. EngineInit => SelectionInv
    BY FS_EmptySet DEF EngineInit, DetectorInit, MatchesInv, SelectionInv, SelectionMaximal, Examined, OrderInv,
                       HeadsMasked
  <1>2. SelectionInv => HeadsMasked
    BY DEF SelectionInv
  <1> QED BY <1>1, <1>2, SelectionStep, PTL DEF EngineSpec

-----------------------------------------------------------------------------
(* Numerals.                                                               *)

Digit(n) == Atom("digit", "", n)
Digits == {Digit(0), Digit(1)}

LEMMA NumeralEquation ==
    /\ \A n \in Nat : NumeralOf[n] \in Seq(Digits) /\ NumeralOf[n] # <<>>
    /\ \A n \in Nat : n < 2 => NumeralOf[n] = <<Digit(n)>>
    /\ \A n \in Nat : ~(n < 2) => NumeralOf[n] = NumeralOf[n \div 2] \o <<Digit(n % 2)>>
  <1> DEFINE T == Seq(Digits)
             mu == [n \in Nat |-> n]
             Rhs(n, g) == IF n < 2 THEN <<Digit(n)>> ELSE g[n \div 2] \o <<Digit(n % 2)>>
             F == [x \in Nat \X [Nat -> T] |-> Rhs(x[1], x[2])]
  <1>1. \A n \in Nat : n < 2 => <<Digit(n)>> \in T
    <2>1. <<Digit(0)>> \in T /\ <<Digit(1)>> \in T
      BY DEF Digits
    <2>2. \A n \in Nat : n < 2 => n = 0 \/ n = 1
      OBVIOUS
    <2> QED BY <2>1, <2>2
  <1>2. \A n \in Nat : <<Digit(n % 2)>> \in T
    <2>1. \A n \in Nat : n % 2 = 0 \/ n % 2 = 1
      OBVIOUS
    <2>2. <<Digit(0)>> \in T /\ <<Digit(1)>> \in T
      BY DEF Digits
    <2> QED BY <2>1, <2>2
  <1>3. \A n \in Nat : n \div 2 \in Nat
    OBVIOUS
  <1>4. \A n \in Nat : ~(n < 2) => n \div 2 < n
    OBVIOUS
  <1>5. ASSUME NEW n \in Nat, NEW g \in [Nat -> T]
        PROVE  Rhs(n, g) \in T
    <2>1. CASE n < 2
      BY <1>1, <2>1
    <2>2. CASE ~(n < 2)
      <3>1. g[n \div 2] \in T
        BY <1>3
      <3> DEFINE last == <<Digit(n % 2)>>
      <3>2. last \in T
        BY <1>2
      <3>3. g[n \div 2] \o last \in T
        <4> HIDE DEF last
        <4> QED BY <3>1, <3>2, ConcatProperties
      <3> QED BY <2>2, <3>3
    <2> QED BY <2>1, <2>2
  <1>6. F \in [Nat \X [Nat -> T] -> T]
    <2> HIDE DEF Rhs, T
    <2> QED BY <1>5
  <1>7. LooksBack(Nat, T, mu, F)
    <2> SUFFICES ASSUME NEW n \in Nat, NEW g \in [Nat -> T], NEW h \in [Nat -> T],
                        \A j \in Nat : mu[j] < mu[n] => g[j] = h[j]
                 PROVE  F[<<n, g>>] = F[<<n, h>>]
      <3> HIDE DEF F, T, mu
      <3> QED BY DEF LooksBack
    <2>1. F[<<n, g>>] = Rhs(n, g) /\ F[<<n, h>>] = Rhs(n, h)
      <3> HIDE DEF Rhs, T
      <3> QED OBVIOUS
    <2>2. ~(n < 2) => g[n \div 2] = h[n \div 2]
      BY <1>3, <1>4
    <2> QED BY <2>1, <2>2
  <1>8. mu \in [Nat -> Nat] /\ T # {}
    <2>1. <<>> \in T
      OBVIOUS
    <2> QED BY <2>1
  <1>9. PICK g : Solves(Nat, T, F, g)
    <2> HIDE DEF F, T, mu
    <2> QED BY <1>6, <1>7, <1>8, SolutionExists
  <1>10. g = [n \in Nat |-> Rhs(n, g)]
    BY <1>9 DEF Solves
  <1>11. NumeralOf = [n \in Nat |-> Rhs(n, NumeralOf)]
    <2> DEFINE f == CHOOSE f : f = [n \in Nat |-> Rhs(n, f)]
    <2>1. f = [n \in Nat |-> Rhs(n, f)]
      BY <1>10
    <2>2. NumeralOf = f
      BY DEF NumeralOf, Digit
    <2> QED BY <2>1, <2>2
  <1>12. \A n \in Nat : NumeralOf[n] = Rhs(n, NumeralOf)
    <2> HIDE DEF Rhs
    <2> QED BY <1>11
  <1> DEFINE P == {k \in Nat : \A n \in Nat : n < k => NumeralOf[n] \in T}
  <1>13. ASSUME NEW k \in P
         PROVE  k + 1 \in P
    <2> SUFFICES ASSUME NEW n \in Nat, n < k + 1
                 PROVE  NumeralOf[n] \in T
      <3> HIDE DEF T
      <3> QED OBVIOUS
    <2>1. CASE n < 2
      BY <1>1, <1>12, <2>1
    <2>2. CASE ~(n < 2)
      <3> DEFINE last == <<Digit(n % 2)>>
      <3>1. n \div 2 \in Nat /\ n \div 2 < k
        BY <1>3, <1>4, <2>2
      <3>2. NumeralOf[n \div 2] \in T /\ last \in T
        BY <1>2, <3>1
      <3>3. NumeralOf[n] = NumeralOf[n \div 2] \o last
        BY <1>12, <2>2
      <3> HIDE DEF last
      <3> QED BY <3>2, <3>3, ConcatProperties
    <2> QED BY <2>1, <2>2
  <1>14. P = Nat
    <2>1. 0 \in P
      OBVIOUS
    <2> HIDE DEF P
    <2>2. P \in SUBSET Nat
      BY DEF P
    <2> QED BY <1>13, <2>1, <2>2, NatInSet
  <1>15. \A n \in Nat : NumeralOf[n] \in T
    <2> SUFFICES ASSUME NEW n \in Nat
                 PROVE  NumeralOf[n] \in T
      OBVIOUS
    <2>1. n + 1 \in Nat /\ n < n + 1
      OBVIOUS
    <2>2. n + 1 \in P
      <3> HIDE DEF P
      <3> QED BY <1>14, <2>1
    <2> QED BY <2>1, <2>2
  <1>16. ASSUME NEW n \in Nat
         PROVE  NumeralOf[n] # <<>>
    <2>1. CASE n < 2
      <3>1. NumeralOf[n] = <<Digit(n)>>
        BY <1>12, <2>1
      <3>2. <<Digit(n)>> # <<>>
        OBVIOUS
      <3> QED BY <3>1, <3>2
    <2>2. CASE ~(n < 2)
      <3> DEFINE last == <<Digit(n % 2)>>
                 front == NumeralOf[n \div 2]
      <3>1. NumeralOf[n] = front \o last /\ front \in T /\ last \in T /\ last # <<>>
        BY <1>2, <1>3, <1>12, <1>15, <2>2
      <3> HIDE DEF last, front, T
      <3> QED BY <3>1, ConcatEqualIffEmpty DEF T
    <2> QED BY <2>1, <2>2
  <1> QED BY <1>12, <1>15, <1>16

\* Two numbers never have the same numeral.
LEMMA NumeralsDiffer ==
    ASSUME NEW m \in Nat, NEW n \in Nat, NumeralOf[m] = NumeralOf[n]
    PROVE  m = n
  <1> DEFINE P == {k \in Nat : \A i, j \in Nat : i < k /\ NumeralOf[i] = NumeralOf[j] => i = j}
  <1>1. ASSUME NEW i \in Nat, ~(i < 2), NEW j \in Nat, j < 2
        PROVE  NumeralOf[i] # NumeralOf[j]
    <2> DEFINE front == NumeralOf[i \div 2]
               last == <<Digit(i % 2)>>
    <2>1. NumeralOf[i] = front \o last /\ NumeralOf[j] = <<Digit(j)>>
      BY <1>1, NumeralEquation
    <2>2. i \div 2 \in Nat /\ (i % 2 = 0 \/ i % 2 = 1)
      OBVIOUS
    <2>3. front \in Seq(Digits) /\ front # <<>>
      BY <2>2, NumeralEquation
    <2>4. last \in Seq(Digits) /\ Len(last) = 1
      BY <2>2 DEF Digits
    <2>5. Len(NumeralOf[j]) = 1
      BY <2>1
    <2>6. Len(front) \in Nat /\ Len(front) # 0
      <3> HIDE DEF front
      <3> QED BY <2>3
    <2>7. Len(front \o last) = Len(front) + 1
      <3> HIDE DEF front, last
      <3>1. Len(front \o last) = Len(front) + Len(last)
        BY <2>3, <2>4, ConcatProperties
      <3> QED BY <2>4, <3>1
    <2> HIDE DEF front, last
    <2>8. Len(front) + 1 # 1
      BY <2>6
    <2> QED BY <2>1, <2>5, <2>7, <2>8
  <1>2. ASSUME NEW k \in P
        PROVE  k + 1 \in P
    <2> SUFFICES ASSUME NEW i \in Nat, NEW j \in Nat, i < k + 1, NumeralOf[i] = NumeralOf[j]
                 PROVE  i = j
      OBVIOUS
    <2>1. CASE i < 2 /\ j < 2
      <3>1. <<Digit(i)>> = <<Digit(j)>>
        BY <2>1, NumeralEquation
      <3>2. Digit(i) = Digit(j)
        BY <3>1
      <3> QED BY <3>2 DEF Digit, Atom
    <2>2. CASE ~(i < 2) /\ ~(j < 2)
      <3> DEFINE a == <<Digit(i % 2)>>
                 b == <<Digit(j % 2)>>
                 s == NumeralOf[i \div 2]
                 t == NumeralOf[j \div 2]
      <3>1. /\ i \div 2 \in Nat /\ (i % 2 = 0 \/ i % 2 = 1) /\ i \div 2 < i
            /\ j \div 2 \in Nat /\ (j % 2 = 0 \/ j % 2 = 1)
        BY <2>2
      <3>2. s \o a = t \o b
        BY <2>2, NumeralEquation
      <3>3. s \in Seq(Digits) /\ t \in Seq(Digits)
        BY <3>1, NumeralEquation
      <3>4. a \in Seq(Digits) /\ b \in Seq(Digits) /\ Len(a) = 1 /\ Len(b) = 1
        BY <3>1 DEF Digits
      <3>5. s = t /\ a[1] = b[1]
        <4> HIDE DEF s, t, a, b
        <4>1. /\ Len(s \o a) = Len(s) + 1 /\ Len(t \o b) = Len(t) + 1
              /\ Len(s) \in Nat /\ Len(t) \in Nat
              /\ \A x \in 1 .. (Len(s) + 1) : (s \o a)[x] = IF x <= Len(s) THEN s[x] ELSE a[x - Len(s)]
              /\ \A x \in 1 .. (Len(t) + 1) : (t \o b)[x] = IF x <= Len(t) THEN t[x] ELSE b[x - Len(t)]
          <5>1. /\ Len(s \o a) = Len(s) + Len(a)
                /\ \A x \in 1 .. Len(s) + Len(a) : (s \o a)[x] = IF x <= Len(s) THEN s[x] ELSE a[x - Len(s)]
            BY <3>3, <3>4, ConcatProperties
          <5>2. /\ Len(t \o b) = Len(t) + Len(b)
                /\ \A x \in 1 .. Len(t) + Len(b) : (t \o b)[x] = IF x <= Len(t) THEN t[x] ELSE b[x - Len(t)]
            BY <3>3, <3>4, ConcatProperties
          <5> QED BY <3>3, <3>4, <5>1, <5>2
        <4>2. Len(s) = Len(t)
          BY <3>2, <4>1
        <4>3. \A x \in 1 .. Len(s) : s[x] = t[x]
          <5> SUFFICES ASSUME NEW x \in 1 .. Len(s)
                       PROVE  s[x] = t[x]
            OBVIOUS
          <5>1. x \in 1 .. (Len(s) + 1) /\ x \in 1 .. (Len(t) + 1) /\ x <= Len(s) /\ x <= Len(t)
            BY <4>1, <4>2
          <5>2. (s \o a)[x] = s[x] /\ (t \o b)[x] = t[x]
            BY <4>1, <5>1
          <5> QED BY <3>2, <5>2
        <4>4. a[1] = b[1]
          <5>1. (s \o a)[Len(s) + 1] = a[1]
            BY <4>1
          <5>2. (t \o b)[Len(t) + 1] = b[1]
            BY <4>1
          <5> QED BY <3>2, <4>2, <5>1, <5>2
        <4>5. s = t
          BY <3>3, <4>2, <4>3, SeqEqual
        <4> QED BY <4>4, <4>5
      <3>6. i % 2 = j % 2
        BY <3>5 DEF Digit, Atom
      <3>7. i \div 2 = j \div 2
        <4>1. i \div 2 < k /\ NumeralOf[i \div 2] = NumeralOf[j \div 2]
          BY <3>1, <3>5
        <4> QED BY <3>1, <4>1
      <3>8. i = 2 * (i \div 2) + (i % 2) /\ j = 2 * (j \div 2) + (j % 2)
        OBVIOUS
      <3> QED BY <3>6, <3>7, <3>8
    <2> QED BY <1>1, <2>1, <2>2
  <1>3. P = Nat
    <2>1. 0 \in P
      OBVIOUS
    <2> HIDE DEF P
    <2>2. P \in SUBSET Nat
      BY DEF P
    <2> QED BY <1>2, <2>1, <2>2, NatInSet
  <1>4. m + 1 \in P /\ m < m + 1
    BY <1>3
  <1> QED BY <1>4

-----------------------------------------------------------------------------
(* Replacement texts.                                                      *)

\* The list of the detections is as long as their set is large.
List(list) == \E n \in Nat : DOMAIN list = 1..n

\* Of two detections of one type the later one has the larger counter.
LEMMA CountersDiffer ==
    ASSUME NEW list, List(list), NEW i \in DOMAIN list, NEW j \in DOMAIN list,
           DetectionType(list[i]) = DetectionType(list[j]), CounterAt(list, i) = CounterAt(list, j)
    PROVE  i = j
  <1> DEFINE same(k) == {h \in 1..k : DetectionType(list[h]) = DetectionType(list[k])}
  <1>1. i \in Nat /\ j \in Nat /\ i >= 1 /\ j >= 1
    BY DEF List
  <1>2. ASSUME NEW h \in Nat, NEW k \in Nat, h < k, 1 <= h, DetectionType(list[h]) = DetectionType(list[k])
        PROVE  CounterAt(list, h) < CounterAt(list, k)
    <2> DEFINE S == same(h)
               T == same(k)
    <2>1. S \subseteq T /\ k \in T /\ k \notin S
      BY <1>2
    <2>2. IsFiniteSet(T)
      <3>1. IsFiniteSet(1..k)
        BY FS_Interval
      <3> QED BY <3>1, FS_Subset
    <2> HIDE DEF S, T
    <2>3. Cardinality(S) <= Cardinality(T) /\ Cardinality(S) # Cardinality(T)
      BY <2>1, <2>2, FS_Subset
    <2>4. Cardinality(S) \in Nat /\ Cardinality(T) \in Nat
      BY <2>1, <2>2, FS_Subset, FS_CardinalityType
    <2>5. CounterAt(list, h) = Cardinality(S) /\ CounterAt(list, k) = Cardinality(T)
      BY DEF CounterAt, S, T
    <2> QED BY <2>3, <2>4, <2>5
  <1>3. ASSUME NEW h \in Nat, NEW k \in Nat, h < k, 1 <= h, DetectionType(list[h]) = DetectionType(list[k]),
               CounterAt(list, h) = CounterAt(list, k)
        PROVE  FALSE
    <2>1. CounterAt(list, h) \in Nat
      <3> DEFINE S == same(h)
      <3>1. IsFiniteSet(1..h)
        BY FS_Interval
      <3>2. IsFiniteSet(S)
        BY <3>1, FS_Subset
      <3>3. CounterAt(list, h) = Cardinality(S)
        BY DEF CounterAt
      <3> HIDE DEF S
      <3> QED BY <3>2, <3>3, FS_CardinalityType
    <2> QED BY <1>2, <1>3, <2>1
  <1>4. ~(i < j) /\ ~(j < i)
    BY <1>1, <1>3
  <1> QED BY <1>1, <1>4

LEMMA CounterType ==
    ASSUME NEW list, List(list), NEW i \in DOMAIN list
    PROVE  CounterAt(list, i) \in Nat
  <1> DEFINE S == {h \in 1..i : DetectionType(list[h]) = DetectionType(list[i])}
  <1>1. i \in Nat
    BY DEF List
  <1>2. IsFiniteSet(1..i)
    BY <1>1, FS_Interval
  <1>3. IsFiniteSet(S)
    BY <1>2, FS_Subset
  <1>4. CounterAt(list, i) = Cardinality(S)
    BY DEF CounterAt
  <1> HIDE DEF S
  <1> QED BY <1>3, <1>4, FS_CardinalityType

Distinct(texts) == \A i, j \in DOMAIN texts : texts[i] = texts[j] => i = j

LEMMA TokensDistinct ==
    ASSUME NEW list, List(list)
    PROVE  DOMAIN Tokens(list) = DOMAIN list /\ Distinct(Tokens(list))
  <1>1. DOMAIN Tokens(list) = DOMAIN list
    BY DEF Tokens
  <1>2. ASSUME NEW i \in DOMAIN list, NEW j \in DOMAIN list, Tokens(list)[i] = Tokens(list)[j]
        PROVE  i = j
    <2> DEFINE a == Token(DetectionType(list[i]), CounterAt(list, i))
               b == Token(DetectionType(list[j]), CounterAt(list, j))
    <2>1. Tokens(list)[i] = <<a>> /\ Tokens(list)[j] = <<b>>
      BY DEF Tokens
    <2>2. a = b
      <3> HIDE DEF a, b
      <3>1. <<a>>[1] = <<b>>[1]
        BY <1>2, <2>1
      <3> QED BY <3>1
    <2>3. DetectionType(list[i]) = DetectionType(list[j]) /\ CounterAt(list, i) = CounterAt(list, j)
      BY <2>2 DEF Token, Atom
    <2> QED BY <2>3, CountersDiffer
  <1> QED BY <1>1, <1>2 DEF Distinct

LEMMA FallbackDistinct ==
    ASSUME NEW list, List(list)
    PROVE  DOMAIN FallbackTexts(list) = DOMAIN list /\ Distinct(FallbackTexts(list))
  <1>1. DOMAIN FallbackTexts(list) = DOMAIN list
    BY DEF FallbackTexts
  <1>2. ASSUME NEW i \in DOMAIN list, NEW j \in DOMAIN list, FallbackTexts(list)[i] = FallbackTexts(list)[j]
        PROVE  i = j
    <2> DEFINE a == Word(DetectionType(list[i]))
               b == Word(DetectionType(list[j]))
               m == CounterAt(list, i)
               n == CounterAt(list, j)
               s == NumeralOf[m]
               t == NumeralOf[n]
               S == Digits \cup {a, b}
    <2>1. <<a>> \o s = <<b>> \o t
      BY <1>2 DEF FallbackTexts
    <2>2. m \in Nat /\ n \in Nat
      BY CounterType
    <2>3. s \in Seq(Digits) /\ t \in Seq(Digits)
      <3> HIDE DEF m, n
      <3> QED BY <2>2, NumeralEquation
    <2>4. s \in Seq(S) /\ t \in Seq(S) /\ <<a>> \in Seq(S) /\ <<b>> \in Seq(S)
      <3> HIDE DEF s, t, a, b
      <3> QED BY <2>3
    <2>5. a = b
      <3> HIDE DEF s, t, a, b, S
      <3>1. (<<a>> \o s)[1] = a
        <4>1. \A x \in 1 .. Len(<<a>>) + Len(s) :
                 (<<a>> \o s)[x] = IF x <= Len(<<a>>) THEN <<a>>[x] ELSE s[x - Len(<<a>>)]
          BY <2>4, ConcatProperties
        <4>2. Len(<<a>>) = 1 /\ Len(s) \in Nat
          BY <2>4
        <4> QED BY <4>1, <4>2
      <3>2. (<<b>> \o t)[1] = b
        <4>1. \A x \in 1 .. Len(<<b>>) + Len(t) :
                 (<<b>> \o t)[x] = IF x <= Len(<<b>>) THEN <<b>>[x] ELSE t[x - Len(<<b>>)]
          BY <2>4, ConcatProperties
        <4>2. Len(<<b>>) = 1 /\ Len(t) \in Nat
          BY <2>4
        <4> QED BY <4>1, <4>2
      <3> QED BY <2>1, <3>1, <3>2
    <2>6. s = t
      <3> HIDE DEF s, t, a, b, S
      <3>1. <<a>> \o s = <<a>> \o t
        BY <2>1, <2>5
      <3> QED BY <2>4, <3>1, ConcatSimplifications
    <2>7. m = n
      <3> HIDE DEF m, n
      <3> QED BY <2>2, <2>6, NumeralsDiffer
    <2>8. DetectionType(list[i]) = DetectionType(list[j])
      BY <2>5 DEF Word, Atom
    <2> QED BY <2>7, <2>8, CountersDiffer
  <1> QED BY <1>1, <1>2 DEF Distinct

-----------------------------------------------------------------------------
\* The detections that are shown are candidates of the content.
ShownInv ==
    /\ pass \in {"shown", "strict"} => selected \subseteq CandidatesOf(content, matches)
    /\ shown \subseteq CandidatesOf(content, matches)

LEMMA CandidatesFinite ==
    ASSUME MatchesInv
    PROVE  IsFiniteSet(CandidatesOf(content, matches))
  <1> DEFINE f == [m \in matches |-> RemapSpan(PositionMap(content), m)]
  <1>1. CandidatesOf(content, matches) = {f[m] : m \in matches} /\ DOMAIN f = matches
    BY DEF CandidatesOf
  <1> HIDE DEF f
  <1> QED BY <1>1, FiniteImage DEF MatchesInv

LEMMA ShownStep ==
    ASSUME SelectionInv, ShownInv, [EngineNext]_vars
    PROVE  ShownInv'
  <1>1. ASSUME NEW text, NEW pol, NEW found, Detect(text, pol, found)
        PROVE  ShownInv'
    BY <1>1 DEF Detect, ShownInv
  <1>2. ASSUME NEW c, SelectNext(c)
        PROVE  ShownInv'
    <2>1. c \in CandidatesOf(content, matches)
      BY <1>2, ExaminedNext DEF SelectionInv, FindCandidates
    <2> QED BY <1>2, <2>1 DEF SelectNext, ShownInv, CandidatesOf
  <1>3. ASSUME FindStrict
        PROVE  ShownInv'
    BY <1>3 DEF FindStrict, ShownInv, CandidatesOf
  <1>4. ASSUME Return
        PROVE  ShownInv'
    BY <1>4 DEF Return, ShownInv
  <1>5. ASSUME UNCHANGED <<content, matches, selected, shown>>, pass' = pass \/ pass' \notin {"shown", "strict"}
        PROVE  ShownInv'
    BY <1>5 DEF ShownInv, CandidatesOf
  <1>6. ASSUME \/ LeaveUntouched \/ ReplaceWithTokens \/ RewriteWithPlaceholders
               \/ \E n \in 0..MaxItems : \E items \in [1..n -> Outputs] : RewriteWithModel(items)
               \/ StartRestore \/ (\E i \in pending : RestoreNext(i)) \/ UNCHANGED vars
        PROVE  UNCHANGED <<content, matches, selected, shown>> /\ (pass' = pass \/ pass' \notin {"shown", "strict"})
    BY <1>6 DEF LeaveUntouched, ReplaceWithTokens, RewriteWithPlaceholders, RewriteWithModel, Answer,
                StartRestore, RestoreNext, detectorVars, vars
  <1> QED BY <1>1, <1>2, <1>3, <1>4, <1>5, <1>6 DEF EngineNext, DetectionStep, DetectorStep

LEMMA ShownHolds == EngineSpec => [](SelectionInv /\ ShownInv)
  <1>1. EngineInit => SelectionInv /\ ShownInv
    BY FS_EmptySet DEF EngineInit, DetectorInit, MatchesInv, SelectionInv, SelectionMaximal, Examined, OrderInv,
                       HeadsMasked, ShownInv
  <1> QED BY <1>1, SelectionStep, ShownStep, PTL DEF EngineSpec

LEMMA DistinctStep ==
    ASSUME SelectionInv, ShownInv, ReplacementsDistinct, [EngineNext]_vars
    PROVE  ReplacementsDistinct'
  <1>1. ASSUME NEW from, NEW list, NEW texts, Answer(from, list, texts),
               DOMAIN texts = DOMAIN list, from # "model" => Distinct(texts)
        PROVE  ReplacementsDistinct'
    <2>1. origin' = from /\ DOMAIN mappings' = DOMAIN list
          /\ \A i \in DOMAIN list : mappings'[i].replaced = texts[i]
      BY <1>1 DEF Answer
    <2> QED BY <1>1, <2>1 DEF ReplacementsDistinct, Distinct
  <1>2. List(InOrder(shown))
    <2>1. IsFiniteSet(shown)
      BY CandidatesFinite, FS_Subset DEF SelectionInv, ShownInv
    <2>2. Cardinality(shown) \in Nat
      BY <2>1, FS_CardinalityType
    <2> QED BY <2>2 DEF List, InOrder
  <1> DEFINE list == InOrder(shown)
  <1>3. CASE LeaveUntouched
    <2>1. Answer("none", <<>>, <<>>) /\ Distinct(<<>>)
      BY <1>3 DEF LeaveUntouched, Distinct
    <2> QED BY <1>1, <2>1
  <1>4. CASE ReplaceWithTokens
    <2>1. Answer("token", list, Tokens(list))
      BY <1>4 DEF ReplaceWithTokens
    <2> HIDE DEF list
    <2> QED BY <1>1, <1>2, <2>1, TokensDistinct DEF list
  <1>5. CASE RewriteWithPlaceholders
    <2>1. Answer("fallback", list, FallbackTexts(list))
      BY <1>5 DEF RewriteWithPlaceholders
    <2> HIDE DEF list
    <2> QED BY <1>1, <1>2, <2>1, FallbackDistinct DEF list
  <1>6. ASSUME NEW n \in 0..MaxItems, NEW items \in [1..n -> Outputs], RewriteWithModel(items)
        PROVE  ReplacementsDistinct'
    <2>1. CASE Parses(items, list)
      <3>1. Answer("model", list, [i \in DOMAIN list |-> EnsureStable(items[i], i)])
        BY <1>6, <2>1 DEF RewriteWithModel, Rewritten
      <3> QED BY <1>1, <3>1
    <2>2. CASE ~Parses(items, list)
      <3>1. Answer("fallback", list, FallbackTexts(list))
        BY <1>6, <2>2 DEF RewriteWithModel, Rewritten
      <3> HIDE DEF list
      <3> QED BY <1>1, <1>2, <3>1, FallbackDistinct DEF list
    <2> QED BY <2>1, <2>2
  <1>7. CASE DetectionStep \/ StartRestore \/ (\E i \in pending : RestoreNext(i)) \/ UNCHANGED vars
    <2>1. UNCHANGED <<mappings, origin>>
      BY <1>7 DEF DetectionStep, StartRestore, RestoreNext, vars, previewVars
    <2> QED BY <2>1 DEF ReplacementsDistinct
  <1>8. CASE Return
    BY <1>8 DEF Return, ReplacementsDistinct
  <1> QED BY <1>3, <1>4, <1>5, <1>6, <1>7, <1>8 DEF EngineNext

\* No two detections of a preview share a replacement text, whatever they are,
\* unless a model wrote it: the counters of a type tell tokens and
\* placeholders apart, and no two numbers are written alike.
THEOREM ReplacementsTellApart == EngineSpec => []ReplacementsDistinct
  <1>1. EngineInit => ReplacementsDistinct
    BY DEF EngineInit, ReplacementsDistinct
  <1> QED BY <1>1, ShownHolds, DistinctStep, PTL DEF EngineSpec

-----------------------------------------------------------------------------
(* Where a text occurs in another one.                                     *)

\* The text occurs at position p.
Hit(old, text, p) ==
    /\ p + Len(old) <= Len(text) + 1
    /\ \A m \in 1..Len(old) : text[p + m - 1] = old[m]

\* It occurs nowhere in front of rest, not even reaching into it.
NoHits(old, front, rest) == \A p \in 1..Len(front) : ~Hit(old, front \o rest, p)

LEMMA HitIsOccurrence ==
    ASSUME NEW U, NEW old \in Seq(U), NEW text \in Seq(U), NEW p \in Nat, 1 <= p,
           p + Len(old) <= Len(text) + 1
    PROVE  OccursAt(old, text, p) <=> Hit(old, text, p)
  <1> DEFINE q == p + Len(old) - 1
             part == SubSeq(text, p, q)
  <1>1. Len(old) \in Nat /\ Len(text) \in Nat /\ q \in Int /\ p \in Int
    OBVIOUS
  <1>2. \A i \in p..q : text[i] \in U
    <2> SUFFICES ASSUME NEW i \in p..q
                 PROVE  text[i] \in U
      OBVIOUS
    <2>1. i \in 1..Len(text)
      BY <1>1
    <2> QED BY <2>1, ElementOfSeq
  <1>3. /\ part \in Seq(U)
        /\ Len(part) = IF p <= q THEN q - p + 1 ELSE 0
        /\ \A i \in 1..(q - p + 1) : part[i] = text[p + i - 1]
    <2> HIDE DEF q
    <2> QED BY <1>1, <1>2, SubSeqProperties
  <1>4. q - p + 1 = Len(old) /\ Len(part) = Len(old)
    BY <1>1, <1>3
  <1>5. part = old <=> \A m \in 1..Len(old) : part[m] = old[m]
    <2> HIDE DEF part
    <2> QED BY <1>3, <1>4, SeqEqual
  <1>6. \A m \in 1..Len(old) : part[m] = text[p + m - 1]
    <2> HIDE DEF part, q
    <2> QED BY <1>3, <1>4
  <1>7. OccursAt(old, text, p) <=> part = old
    BY DEF OccursAt
  <1> HIDE DEF part, q
  <1> QED BY <1>5, <1>6, <1>7 DEF Hit

\* Behind a front, a text occurs where it occurs in the rest.
LEMMA HitBehind ==
    ASSUME NEW U, NEW old \in Seq(U), NEW front \in Seq(U), NEW rest \in Seq(U),
           NEW p \in Nat, 1 <= p, Hit(old, front \o rest, Len(front) + p)
    PROVE  Hit(old, rest, p)
  <1> DEFINE text == front \o rest
  <1>1. /\ Len(text) = Len(front) + Len(rest)
        /\ \A i \in 1..(Len(front) + Len(rest)) :
              text[i] = IF i <= Len(front) THEN front[i] ELSE rest[i - Len(front)]
    BY ConcatProperties
  <1>2. Len(old) \in Nat /\ Len(front) \in Nat /\ Len(rest) \in Nat
    OBVIOUS
  <1>3. Hit(old, text, Len(front) + p)
    OBVIOUS
  <1> HIDE DEF text
  <1>4. p + Len(old) <= Len(rest) + 1
    BY <1>1, <1>2, <1>3 DEF Hit
  <1>5. ASSUME NEW m \in 1..Len(old)
        PROVE  rest[p + m - 1] = old[m]
    <2> DEFINE i == Len(front) + p + m - 1
    <2>1. i \in 1..(Len(front) + Len(rest)) /\ ~(i <= Len(front)) /\ i - Len(front) = p + m - 1
      BY <1>2, <1>4
    <2>2. text[i] = old[m]
      BY <1>3 DEF Hit
    <2>3. text[i] = rest[i - Len(front)]
      <3> HIDE DEF i
      <3> QED BY <1>1, <2>1
    <2> QED BY <2>1, <2>2, <2>3
  <1> QED BY <1>4, <1>5 DEF Hit

LEMMA NoHitsTogether ==
    ASSUME NEW U, NEW old \in Seq(U), NEW first \in Seq(U), NEW second \in Seq(U), NEW rest \in Seq(U),
           NoHits(old, first, second \o rest), NoHits(old, second, rest)
    PROVE  NoHits(old, first \o second, rest)
  <1>1. /\ (first \o second) \o rest = first \o (second \o rest)
        /\ Len(first \o second) = Len(first) + Len(second)
        /\ second \o rest \in Seq(U) /\ Len(first) \in Nat /\ Len(second) \in Nat
    BY ConcatAssociative, ConcatProperties
  <1>2. ASSUME NEW p \in 1..(Len(first) + Len(second)), Hit(old, first \o (second \o rest), p)
        PROVE  FALSE
    <2>1. CASE p <= Len(first)
      <3>1. p \in 1..Len(first)
        BY <1>1, <2>1
      <3> QED BY <1>2, <3>1 DEF NoHits
    <2>2. CASE ~(p <= Len(first))
      <3> DEFINE q == p - Len(first)
      <3>1. q \in 1..Len(second) /\ q \in Nat /\ 1 <= q /\ Len(first) + q = p
        BY <1>1, <2>2
      <3> HIDE DEF q
      <3>2. Hit(old, second \o rest, q)
        BY <1>1, <1>2, <3>1, HitBehind
      <3> QED BY <3>1, <3>2 DEF NoHits
    <2> QED BY <2>1, <2>2
  <1> QED BY <1>1, <1>2 DEF NoHits

\* A text does not occur where its first atom does not.
LEMMA NoHitsWithoutHead ==
    ASSUME NEW U, NEW old \in Seq(U), old # <<>>, NEW front \in Seq(U), NEW rest \in Seq(U),
           \A p \in 1..Len(front) : front[p] # old[1]
    PROVE  NoHits(old, front, rest)
  <1> SUFFICES ASSUME NEW p \in 1..Len(front), Hit(old, front \o rest, p)
               PROVE  FALSE
    BY DEF NoHits
  <1>1. Len(old) \in Nat /\ Len(old) # 0 /\ Len(front) \in Nat /\ Len(rest) \in Nat
    OBVIOUS
  <1>2. (front \o rest)[p] = front[p]
    <2>1. p \in 1..(Len(front) + Len(rest)) /\ p <= Len(front)
      BY <1>1
    <2> QED BY <2>1, ConcatProperties
  <1>3. 1 \in 1..Len(old) /\ p + 1 - 1 = p
    BY <1>1
  <1>4. (front \o rest)[p + 1 - 1] = old[1]
    BY <1>3 DEF Hit
  <1> QED BY <1>2, <1>3, <1>4

-----------------------------------------------------------------------------
(* Pieces of a text.                                                       *)

LEMMA Cut ==
    ASSUME NEW U, NEW text \in Seq(U), NEW a \in Nat, NEW b \in Nat,
           1 <= a, a <= b + 1, b <= Len(text)
    PROVE  /\ SubSeq(text, a, b) \in Seq(U)
           /\ Len(SubSeq(text, a, b)) = b - a + 1
           /\ \A i \in 1..(b - a + 1) : SubSeq(text, a, b)[i] = text[a + i - 1]
  <1>1. \A i \in a..b : text[i] \in U
    <2> SUFFICES ASSUME NEW i \in a..b
                 PROVE  text[i] \in U
      OBVIOUS
    <2>1. i \in 1..Len(text)
      OBVIOUS
    <2> QED BY <2>1, ElementOfSeq
  <1>2. /\ SubSeq(text, a, b) \in Seq(U)
        /\ Len(SubSeq(text, a, b)) = IF a <= b THEN b - a + 1 ELSE 0
        /\ \A i \in 1..(b - a + 1) : SubSeq(text, a, b)[i] = text[a + i - 1]
    BY <1>1, SubSeqProperties
  <1> DEFINE part == SubSeq(text, a, b)
             k == Len(part)
  <1>3. k = b - a + 1
    <2>1. k = IF a <= b THEN b - a + 1 ELSE 0
      BY <1>2
    <2> HIDE DEF k
    <2> QED BY <2>1
  <1> QED BY <1>2, <1>3

\* A text that is put together from two parts comes apart again.
LEMMA CutAtSeam ==
    ASSUME NEW U, NEW front \in Seq(U), NEW rest \in Seq(U)
    PROVE  /\ SubSeq(front \o rest, 1, Len(front)) = front
           /\ SubSeq(front \o rest, Len(front) + 1, Len(front \o rest)) = rest
  <1> DEFINE text == front \o rest
             m == Len(front)
             n == Len(rest)
  <1>1. /\ m \in Nat /\ n \in Nat /\ text \in Seq(U) /\ Len(text) = m + n
        /\ \A i \in 1..(m + n) : text[i] = IF i <= m THEN front[i] ELSE rest[i - m]
    BY ConcatProperties
  <1> HIDE DEF text, m, n
  <1> DEFINE p == SubSeq(text, 1, m)
             q == SubSeq(text, m + 1, m + n)
  <1>2. p \in Seq(U) /\ Len(p) = m /\ \A i \in 1..m : p[i] = text[i]
    <2>1. m - 1 + 1 = m /\ \A i \in 1..m : 1 + i - 1 = i
      BY <1>1
    <2>2. /\ p \in Seq(U) /\ Len(p) = m - 1 + 1
          /\ \A i \in 1..(m - 1 + 1) : p[i] = text[1 + i - 1]
      <3>1. 1 \in Nat /\ 1 <= 1 /\ 1 <= m + 1 /\ m <= Len(text)
        BY <1>1
      <3> HIDE DEF p
      <3> QED BY <1>1, <3>1, Cut DEF p
    <2> HIDE DEF p
    <2> QED BY <2>1, <2>2
  <1>3. q \in Seq(U) /\ Len(q) = n /\ \A i \in 1..n : q[i] = text[m + i]
    <2>1. (m + n) - (m + 1) + 1 = n /\ \A i \in 1..n : m + 1 + i - 1 = m + i
      BY <1>1
    <2>2. /\ q \in Seq(U) /\ Len(q) = (m + n) - (m + 1) + 1
          /\ \A i \in 1..((m + n) - (m + 1) + 1) : q[i] = text[m + 1 + i - 1]
      <3> DEFINE a == m + 1
                 b == m + n
      <3>1. a \in Nat /\ b \in Nat /\ 1 <= a /\ a <= b + 1 /\ b <= Len(text)
        BY <1>1
      <3> HIDE DEF a, b
      <3>2. /\ SubSeq(text, a, b) \in Seq(U) /\ Len(SubSeq(text, a, b)) = b - a + 1
            /\ \A i \in 1..(b - a + 1) : SubSeq(text, a, b)[i] = text[a + i - 1]
        BY <1>1, <3>1, Cut
      <3> QED BY <3>2 DEF a, b
    <2> HIDE DEF q
    <2> QED BY <2>1, <2>2
  <1>4. p = front
    <2>1. \A i \in 1..m : p[i] = front[i]
      <3> HIDE DEF p
      <3> QED BY <1>1, <1>2
    <2> HIDE DEF p
    <2> QED BY <1>2, <2>1, SeqEqual DEF m
  <1>5. q = rest
    <2>1. \A i \in 1..n : q[i] = rest[i]
      <3> HIDE DEF q
      <3> SUFFICES ASSUME NEW i \in 1..n
                   PROVE  q[i] = rest[i]
        OBVIOUS
      <3>1. m + i \in 1..(m + n) /\ ~(m + i <= m) /\ (m + i) - m = i
        BY <1>1
      <3> QED BY <1>1, <1>3, <3>1
    <2> HIDE DEF q
    <2> QED BY <1>3, <2>1, SeqEqual DEF n
  <1> QED BY <1>1, <1>4, <1>5 DEF text, m, n

-----------------------------------------------------------------------------
(* Substitution.                                                           *)

\* from is the scan of the text, from every position on.
Scans(U, text, old, new, from) ==
    /\ Substitute(text, old, new) = from[1]
    /\ from \in [1..(Len(text) + 1) -> Seq(U)]
    /\ \A i \in 1..(Len(text) + 1) :
          from[i] = IF i + Len(old) > Len(text) + 1 THEN SubSeq(text, i, Len(text))
                    ELSE IF OccursAt(old, text, i) THEN new \o from[i + Len(old)]
                    ELSE <<text[i]>> \o from[i + 1]

LEMMA SubstituteEquation ==
    ASSUME NEW U, NEW text \in Seq(U), NEW old \in Seq(U), old # <<>>, NEW new \in Seq(U)
    PROVE  \E from : Scans(U, text, old, new, from)
  <1> DEFINE n == Len(text)
             k == Len(old)
             S == 1..(n + 1)
             T == Seq(U)
             mu == [i \in S |-> n + 1 - i]
             Rhs(i, g) == IF i + k > n + 1 THEN SubSeq(text, i, n)
                          ELSE IF OccursAt(old, text, i) THEN new \o g[i + k]
                          ELSE <<text[i]>> \o g[i + 1]
             F == [x \in S \X [S -> T] |-> Rhs(x[1], x[2])]
  <1>1. n \in Nat /\ k \in Nat /\ k # 0
    OBVIOUS
  <1>2. ASSUME NEW i \in S
        PROVE  /\ i \in Nat /\ 1 <= i
               /\ i + k > n + 1 \/ (i + k \in S /\ i + 1 \in S /\ i \in 1..n /\ mu[i + k] < mu[i] /\ mu[i + 1] < mu[i])
    <2> HIDE DEF n, k
    <2>1. i \in Nat /\ 1 <= i /\ i <= n + 1
      BY <1>1
    <2>2. CASE i + k > n + 1
      BY <2>1, <2>2
    <2>3. CASE ~(i + k > n + 1)
      <3>1. i + k \in S /\ i + 1 \in S /\ i \in 1..n
        BY <1>1, <2>1, <2>3
      <3>2. mu[i + k] = n + 1 - (i + k) /\ mu[i + 1] = n + 1 - (i + 1) /\ mu[i] = n + 1 - i
        BY <3>1
      <3>3. mu[i + k] < mu[i] /\ mu[i + 1] < mu[i]
        <4> HIDE DEF mu
        <4> QED BY <1>1, <2>1, <3>2
      <3> QED BY <2>1, <3>1, <3>3
    <2> QED BY <2>2, <2>3
  <1>3. mu \in [S -> Nat] /\ T # {}
    <2>1. \A i \in S : n + 1 - i \in Nat
      <3> HIDE DEF n
      <3> QED BY <1>1
    <2>2. mu \in [S -> Nat]
      <3> HIDE DEF S, n
      <3> QED BY <2>1
    <2>3. <<>> \in T
      OBVIOUS
    <2> QED BY <2>2, <2>3
  <1>4. ASSUME NEW i \in S, NEW g \in [S -> T]
        PROVE  Rhs(i, g) \in T
    <2>1. CASE i + k > n + 1
      <3>1. i \in Nat /\ 1 <= i /\ i <= n + 1 /\ n \in Nat /\ n <= Len(text)
        BY <1>1
      <3>2. SubSeq(text, i, n) \in Seq(U)
        <4> HIDE DEF n, k, S
        <4> QED BY <3>1, Cut
      <3> QED BY <2>1, <3>2
    <2>2. CASE ~(i + k > n + 1)
      <3>1. i + k \in S /\ i + 1 \in S /\ i \in 1..n
        BY <1>2, <2>2
      <3>2. g[i + k] \in Seq(U) /\ g[i + 1] \in Seq(U) /\ text[i] \in U
        <4>1. g[i + k] \in T /\ g[i + 1] \in T
          <5> HIDE DEF S, T, k
          <5> QED BY <3>1
        <4> QED BY <3>1, <4>1, ElementOfSeq
      <3>3. <<text[i]>> \in Seq(U)
        BY <3>2
      <3>4. new \o g[i + k] \in T /\ <<text[i]>> \o g[i + 1] \in T
        <4> HIDE DEF k
        <4> QED BY <3>2, <3>3, ConcatProperties
      <3> QED BY <2>2, <3>4
    <2> QED BY <2>1, <2>2
  <1>5. F \in [S \X [S -> T] -> T]
    <2> HIDE DEF Rhs, S, T
    <2> QED BY <1>4
  <1>6. LooksBack(S, T, mu, F)
    <2> SUFFICES ASSUME NEW i \in S, NEW g \in [S -> T], NEW h \in [S -> T],
                        \A j \in S : mu[j] < mu[i] => g[j] = h[j]
                 PROVE  F[<<i, g>>] = F[<<i, h>>]
      <3> HIDE DEF F, S, T, mu
      <3> QED BY DEF LooksBack
    <2>1. F[<<i, g>>] = Rhs(i, g) /\ F[<<i, h>>] = Rhs(i, h)
      <3> HIDE DEF Rhs, S, T
      <3> QED OBVIOUS
    <2>2. i + k > n + 1 \/ (g[i + k] = h[i + k] /\ g[i + 1] = h[i + 1])
      <3> HIDE DEF mu, S, n, k
      <3> QED BY <1>2
    <2>3. Rhs(i, g) = Rhs(i, h)
      <3> HIDE DEF mu, S, n, k
      <3> QED BY <2>2
    <2> QED BY <2>1, <2>3
  <1>7. PICK g : Solves(S, T, F, g)
    <2> HIDE DEF F, S, T, mu
    <2> QED BY <1>3, <1>5, <1>6, SolutionExists
  <1>8. g = [i \in S |-> Rhs(i, g)]
    <2>1. g \in [S -> T] /\ \A i \in S : g[i] = F[<<i, g>>]
      <3> HIDE DEF F, S, T
      <3> QED BY <1>7 DEF Solves
    <2>2. \A i \in S : F[<<i, g>>] = Rhs(i, g)
      <3> HIDE DEF Rhs, S, T
      <3> QED BY <2>1
    <2> HIDE DEF Rhs, S, T, F
    <2> QED BY <2>1, <2>2
  <1> DEFINE from == CHOOSE f : f = [i \in S |-> Rhs(i, f)]
  <1>9. from = [i \in S |-> Rhs(i, from)]
    BY <1>8
  <1>10. Substitute(text, old, new) = from[1]
    BY DEF Substitute
  <1> HIDE DEF from
  <1> QED
    <2>1. \A i \in S : from[i] = Rhs(i, from)
      <3> HIDE DEF S, Rhs
      <3> QED BY <1>9
    <2> DEFINE P == {i \in S : \A j \in S : i <= j => from[j] \in T}
    <2>2. ASSUME NEW i \in S, \A j \in S : i < j => from[j] \in T
          PROVE  from[i] \in T
      <3>1. from[i] = Rhs(i, from)
        BY <2>1
      <3>2. CASE i + k > n + 1
        <4>1. i \in Nat /\ 1 <= i /\ i <= n + 1 /\ n \in Nat /\ n <= Len(text)
          BY <1>1
        <4>2. SubSeq(text, i, n) \in Seq(U)
          <5> HIDE DEF n, k, S
          <5> QED BY <4>1, Cut
        <4> QED BY <3>1, <3>2, <4>2
      <3>3. CASE ~(i + k > n + 1)
        <4>1. i + k \in S /\ i + 1 \in S /\ i \in 1..n /\ i < i + k /\ i < i + 1
          BY <1>1, <1>2, <3>3
        <4>2. from[i + k] \in Seq(U) /\ from[i + 1] \in Seq(U)
          <5> HIDE DEF S, k
          <5> QED BY <2>2, <4>1
        <4>3. text[i] \in U
          BY <4>1, ElementOfSeq
        <4>4. <<text[i]>> \in Seq(U)
          BY <4>3
        <4>5. new \o from[i + k] \in T /\ <<text[i]>> \o from[i + 1] \in T
          <5> HIDE DEF k
          <5> QED BY <4>2, <4>4, ConcatProperties
        <4> QED BY <3>1, <3>3, <4>5
      <3> QED BY <3>2, <3>3
    <2>3. \A i \in 1..(n + 1) : i \in P
      <3>1. n + 1 \in P
        <4>1. n + 1 \in S /\ ~(\E j \in S : n + 1 < j) /\ \A j \in S : n + 1 <= j => j = n + 1
          <5> HIDE DEF n
          <5> QED BY <1>1
        <4>2. from[n + 1] \in T
          <5> HIDE DEF S, T, n
          <5> QED BY <2>2, <4>1
        <4> QED
          <5> HIDE DEF S, T, n
          <5> QED BY <4>1, <4>2
      <3>2. ASSUME NEW i \in 1..n, i + 1 \in P
            PROVE  i \in P
        <4>1. i \in S /\ \A j \in S : (i < j => i + 1 <= j) /\ (i <= j => i = j \/ i + 1 <= j)
          <5> HIDE DEF n
          <5> QED BY <1>1
        <4>2. \A j \in S : i + 1 <= j => from[j] \in T
          <5> HIDE DEF S, T
          <5> QED BY <3>2
        <4>3. from[i] \in T
          <5> HIDE DEF S, T
          <5> QED BY <2>2, <4>1, <4>2
        <4> QED
          <5> HIDE DEF S, T
          <5> QED BY <4>1, <4>2, <4>3
      <3> HIDE DEF P, n
      <3> QED BY <1>1, <3>1, <3>2, CountDown
    <2>4. from \in [S -> T]
      <3>1. \A i \in S : from[i] \in T
        <4> HIDE DEF T, n
        <4> QED BY <1>1, <2>3
      <3>2. from = [i \in S |-> from[i]]
        <4> HIDE DEF S, Rhs
        <4> QED BY <1>9
      <3> HIDE DEF S, T
      <3> QED BY <3>1, <3>2
    <2> QED BY <1>10, <2>1, <2>4 DEF Scans

\* What occurs once in a text is replaced there, and the rest is kept.
LEMMA SubstituteOnce ==
    ASSUME NEW U, NEW front \in Seq(U), NEW old \in Seq(U), old # <<>>, NEW rest \in Seq(U),
           NEW new \in Seq(U), NoHits(old, front, old \o rest), NoHits(old, rest, <<>>)
    PROVE  Substitute(front \o (old \o rest), old, new) = front \o (new \o rest)
  <1> DEFINE text == front \o (old \o rest)
             f == Len(front)
             k == Len(old)
             m == Len(rest)
             n == Len(text)
             q == f + 1
             r == f + k + 1
  <1>1. f \in Nat /\ k \in Nat /\ m \in Nat /\ k # 0
    OBVIOUS
  <1>2. /\ old \o rest \in Seq(U) /\ front \o old \in Seq(U)
        /\ Len(old \o rest) = k + m /\ Len(front \o old) = f + k
        /\ \A i \in 1..(k + m) : (old \o rest)[i] = IF i <= k THEN old[i] ELSE rest[i - k]
    BY ConcatProperties
  <1>3. /\ text \in Seq(U) /\ n = f + (k + m)
        /\ \A i \in 1..(f + (k + m)) : text[i] = IF i <= f THEN front[i] ELSE (old \o rest)[i - f]
    <2> DEFINE ends == old \o rest
    <2>1. ends \in Seq(U) /\ Len(ends) = k + m
      BY <1>2
    <2>2. /\ front \o ends \in Seq(U) /\ Len(front \o ends) = Len(front) + Len(ends)
          /\ \A i \in 1..(Len(front) + Len(ends)) :
                (front \o ends)[i] = IF i <= Len(front) THEN front[i] ELSE ends[i - Len(front)]
      <3>1. ends \in Seq(U)
        BY <2>1
      <3> HIDE DEF ends, text, f, k, m, n
      <3> QED BY ONLY front \in Seq(U), <3>1, ConcatProperties
    <2> HIDE DEF ends
    <2> QED BY <2>1, <2>2 DEF ends
  <1>4. text = (front \o old) \o rest
    BY ConcatAssociative
  <1>5. Hit(old, text, q)
    <2>1. ASSUME NEW j \in 1..k
          PROVE  text[q + j - 1] = old[j]
      <3>1. q + j - 1 \in 1..(f + (k + m)) /\ ~(q + j - 1 <= f) /\ (q + j - 1) - f = j
            /\ j \in 1..(k + m) /\ j <= k
        <4> HIDE DEF f, k, m
        <4> QED BY <1>1
      <3>2. text[q + j - 1] = (old \o rest)[(q + j - 1) - f]
        <4> HIDE DEF text, f, k, m, q
        <4> QED BY <1>3, <3>1
      <3> QED BY <1>2, <3>1, <3>2
    <2>2. q + k <= n + 1
      <3> HIDE DEF text, f, k, m, n
      <3> QED BY <1>1, <1>3
    <2> QED BY <2>1, <2>2 DEF Hit
  <1>6. ASSUME NEW p \in 1..f
        PROVE  ~Hit(old, text, p)
    BY DEF NoHits
  <1>7. ASSUME NEW p \in r..n, Hit(old, text, p)
        PROVE  FALSE
    <2> DEFINE h == p - (f + k)
    <2>1. h \in Nat /\ 1 <= h /\ h \in 1..m /\ p = (f + k) + h
      <3> HIDE DEF f, k, m, n
      <3> QED BY <1>1, <1>3
    <2>2. Hit(old, (front \o old) \o rest, Len(front \o old) + h)
      <3> HIDE DEF f, k, h, text
      <3> QED BY <1>2, <1>4, <1>7, <2>1
    <2>3. Hit(old, rest, h)
      <3> HIDE DEF h
      <3> QED BY <1>2, <2>1, <2>2, HitBehind
    <2>4. rest \o <<>> = rest
      BY ConcatEmptySeq
    <2> HIDE DEF h
    <2> QED BY <2>1, <2>3, <2>4 DEF NoHits
  <1>8. PICK from : Scans(U, text, old, new, from)
    <2> HIDE DEF text
    <2> QED BY <1>3, SubstituteEquation
  <1>9. ASSUME NEW i \in 1..(n + 1)
        PROVE  /\ i + k > n + 1 => from[i] = SubSeq(text, i, n)
               /\ ~(i + k > n + 1) =>
                     from[i] = IF Hit(old, text, i) THEN new \o from[i + k] ELSE <<text[i]>> \o from[i + 1]
    <2>1. from[i] = IF i + k > n + 1 THEN SubSeq(text, i, n)
                    ELSE IF OccursAt(old, text, i) THEN new \o from[i + k]
                    ELSE <<text[i]>> \o from[i + 1]
      <3> HIDE DEF text
      <3> QED BY <1>8 DEF Scans
    <2>2. ~(i + k > n + 1) => (OccursAt(old, text, i) <=> Hit(old, text, i))
      <3>1. i \in Nat /\ 1 <= i /\ n \in Nat
        <4> HIDE DEF f, k, m, n
        <4> QED BY <1>1, <1>3
      <3>2. ~(i + k > n + 1) => i + Len(old) <= Len(text) + 1
        <4> HIDE DEF text
        <4> QED BY <1>3, <3>1
      <3> HIDE DEF text
      <3> QED BY <1>3, <3>1, <3>2, HitIsOccurrence
    <2> HIDE DEF text, k, n
    <2> QED BY <2>1, <2>2
  <1> HIDE DEF text, f, k, m, n
  <1>10. n \in Nat /\ r \in Nat /\ q \in Nat /\ r = q + k /\ q <= n /\ r <= n + 1 /\ 1 <= q
    BY <1>1, <1>3
  <1>11. n = Len(text) /\ text \in Seq(U)
    BY <1>3 DEF n
  <1> DEFINE P == {i \in Nat : r <= i => from[i] = SubSeq(text, i, n)}
  <1>12. \A i \in 1..(n + 1) : i \in P
    <2>1. n + 1 \in P
      <3>1. n + 1 \in 1..(n + 1) /\ n + 1 + k > n + 1 /\ n + 1 \in Nat
        BY <1>1, <1>10
      <3>2. from[n + 1] = SubSeq(text, n + 1, n)
        BY <1>9, <3>1
      <3> QED BY <3>1, <3>2
    <2>2. ASSUME NEW i \in 1..n, i + 1 \in P
          PROVE  i \in P
      <3> SUFFICES ASSUME r <= i
                   PROVE  from[i] = SubSeq(text, i, n)
        BY <1>10
      <3>1. i \in 1..(n + 1) /\ r <= i + 1 /\ i \in r..n /\ i \in 1..n
        BY <1>10
      <3>2. CASE i + k > n + 1
        <4> QED BY <1>9, <3>1, <3>2
      <3>3. CASE ~(i + k > n + 1)
        <4>1. from[i] = <<text[i]>> \o from[i + 1]
          BY <1>7, <1>9, <3>1, <3>3
        <4>2. from[i + 1] = SubSeq(text, i + 1, n)
          BY <2>2, <3>1
        <4>3. SubSeq(text, i, n) = <<text[i]>> \o SubSeq(text, i + 1, n)
          <5>1. i \in 1..Len(text) /\ n \in i..Len(text)
            BY <1>10, <1>11
          <5> QED BY <1>11, <5>1, SubSeqRecursiveFirst
        <4> QED BY <4>1, <4>2, <4>3
      <3> QED BY <3>2, <3>3
    <2> HIDE DEF P
    <2> QED BY <1>10, <2>1, <2>2, CountDown
  <1>13. from[q] = new \o rest
    <2>1. q \in 1..(n + 1) /\ ~(q + k > n + 1) /\ r \in 1..(n + 1) /\ r <= r
      BY <1>1, <1>10
    <2>2. from[q] = new \o from[q + k]
      BY <1>5, <1>9, <2>1
    <2>3. from[r] = SubSeq(text, r, n)
      BY <1>12, <2>1
    <2>4. SubSeq(text, Len(front \o old) + 1, Len(text)) = rest
      BY <1>2, <1>4, CutAtSeam
    <2>5. Len(front \o old) + 1 = r
      BY <1>2
    <2> QED BY <1>10, <1>11, <2>2, <2>3, <2>4, <2>5
  <1> DEFINE Q == {i \in Nat : from[i] = SubSeq(text, i, f) \o from[q]}
  <1>14. from[q] \in Seq(U)
    BY <1>13, ConcatProperties
  <1>15. \A i \in 1..(f + 1) : i \in Q
    <2>1. f + 1 \in Q
      <3>1. SubSeq(text, f + 1, f) = <<>>
        <4>1. f + 1 \in Int /\ f \in Int /\ f < f + 1
          BY <1>1
        <4> QED BY <4>1, SubSeqEmpty
      <3>2. <<>> \o from[q] = from[q]
        BY <1>14, ConcatEmptySeq
      <3>3. f + 1 \in Nat /\ f + 1 = q
        BY <1>1
      <3>4. from[f + 1] = SubSeq(text, f + 1, f) \o from[q]
        <4> HIDE DEF q
        <4> QED BY <3>1, <3>2, <3>3
      <3> HIDE DEF q
      <3> QED BY <3>3, <3>4
    <2>2. ASSUME NEW i \in 1..f, i + 1 \in Q
          PROVE  i \in Q
      <3>1. i \in 1..(n + 1) /\ ~(i + k > n + 1) /\ i \in Nat
        BY <1>1, <1>10
      <3>2. from[i] = <<text[i]>> \o from[i + 1]
        BY <1>6, <1>9, <3>1
      <3>3. from[i + 1] = SubSeq(text, i + 1, f) \o from[q]
        BY <2>2
      <3>4. i \in 1..Len(text) /\ f \in i..Len(text)
        BY <1>1, <1>10, <1>11
      <3>5. SubSeq(text, i, f) = <<text[i]>> \o SubSeq(text, i + 1, f)
        BY <1>11, <3>4, SubSeqRecursiveFirst
      <3>6. <<text[i]>> \in Seq(U) /\ SubSeq(text, i + 1, f) \in Seq(U)
        <4>1. text[i] \in U
          BY <1>11, <3>4, ElementOfSeq
        <4>2. SubSeq(text, i + 1, f) \in Seq(U)
          <5> DEFINE a == i + 1
          <5>1. a \in Nat /\ 1 <= a /\ a <= f + 1 /\ f <= Len(text)
            BY <1>1, <3>4
          <5> HIDE DEF a
          <5>2. SubSeq(text, a, f) \in Seq(U)
            BY <1>1, <1>11, <5>1, Cut
          <5> QED BY <5>2 DEF a
        <4> QED BY <4>1, <4>2
      <3>7. (<<text[i]>> \o SubSeq(text, i + 1, f)) \o from[q] = <<text[i]>> \o (SubSeq(text, i + 1, f) \o from[q])
        <4> DEFINE one == <<text[i]>>
                   two == SubSeq(text, i + 1, f)
                   three == from[q]
        <4> HIDE DEF one, two, three
        <4>1. one \in Seq(U) /\ two \in Seq(U) /\ three \in Seq(U)
          BY <1>14, <3>6 DEF one, two, three
        <4>2. (one \o two) \o three = one \o (two \o three)
          BY <4>1, ConcatAssociative
        <4> QED BY <4>2 DEF one, two, three
      <3> QED BY <3>1, <3>2, <3>3, <3>5, <3>7
    <2> HIDE DEF Q
    <2> QED BY <1>1, <2>1, <2>2, CountDown
  <1>16. from[1] = front \o (new \o rest)
    <2>1. 1 \in 1..(f + 1)
      BY <1>1
    <2>2. from[1] = SubSeq(text, 1, f) \o from[q]
      BY <1>15, <2>1
    <2>3. SubSeq(text, 1, f) = front
      BY <1>2, CutAtSeam DEF text, f
    <2> QED BY <1>13, <2>2, <2>3
  <1>17. Substitute(text, old, new) = from[1]
    BY <1>8 DEF Scans
  <1> QED BY <1>16, <1>17 DEF text

-----------------------------------------------------------------------------
(* The text that is answered: the gaps of the content, and between them    *)
(* what replaces the spans.                                                *)

\* The spans follow one another in the content.
InLine(list) ==
    /\ list \in Seq(Candidate)
    /\ \A i \in 1..Len(list) :
          1 <= list[i].start /\ list[i].start < list[i].end /\ list[i].end <= Len(content) + 1
    /\ \A i \in 1..Len(list) : i + 1 <= Len(list) => list[i].end <= list[i + 1].start

\* Where the gap in front of a span begins, what is in front of it, the gap
\* itself, and what is left behind the last span.
EndBefore(list, i) == IF i = 1 THEN 1 ELSE list[i - 1].end
Before(list, i) == SubSeq(content, 1, EndBefore(list, i) - 1)
Gap(list, i) == SubSeq(content, EndBefore(list, i), list[i].start - 1)
Leftover(list) == SubSeq(content, EndBefore(list, Len(list) + 1), Len(content))

LEMMA SpanFacts ==
    ASSUME NEW list, InLine(list), NEW i \in 1..Len(list)
    PROVE  /\ Len(list) \in Nat /\ list[i].start \in Nat /\ list[i].end \in Nat
           /\ list[i].pattern \in Patterns
           /\ 1 <= list[i].start /\ list[i].start < list[i].end /\ list[i].end <= Len(content) + 1
  <1>1. list \in Seq(Candidate)
    BY DEF InLine
  <1>2. list[i] \in Candidate
    BY <1>1, ElementOfSeq
  <1> QED BY <1>1, <1>2 DEF InLine, Candidate

LEMMA EndBeforeFacts ==
    ASSUME NEW U, content \in Seq(U), NEW list, InLine(list), NEW i \in 1..(Len(list) + 1)
    PROVE  /\ Len(list) \in Nat
           /\ EndBefore(list, i) \in Nat /\ 1 <= EndBefore(list, i) /\ EndBefore(list, i) <= Len(content) + 1
           /\ EndBefore(list, 1) = 1
           /\ i <= Len(list) => EndBefore(list, i) <= list[i].start /\ EndBefore(list, i + 1) = list[i].end
  <1>1. Len(list) \in Nat /\ Len(content) \in Nat
    BY DEF InLine
  <1>2. CASE i = 1
    <2>1. EndBefore(list, i) = 1 /\ EndBefore(list, i + 1) = list[1].end
      BY <1>2 DEF EndBefore
    <2>2. i <= Len(list) => 1 <= list[i].start
      BY <1>2, SpanFacts
    <2> QED BY <1>1, <1>2, <2>1, <2>2 DEF EndBefore
  <1>3. CASE i # 1
    <2>1. i - 1 \in 1..Len(list) /\ (i - 1) + 1 = i /\ (i + 1) - 1 = i /\ i + 1 # 1
      BY <1>1, <1>3
    <2>2. EndBefore(list, i) = list[i - 1].end /\ EndBefore(list, i + 1) = list[i].end
      BY <1>3, <2>1 DEF EndBefore
    <2>3. /\ list[i - 1].start \in Nat /\ list[i - 1].end \in Nat /\ 1 <= list[i - 1].start
          /\ list[i - 1].start < list[i - 1].end /\ list[i - 1].end <= Len(content) + 1
      BY <2>1, SpanFacts
    <2>4. i <= Len(list) => list[i - 1].end <= list[i].start
      BY <2>1 DEF InLine
    <2> QED BY <1>1, <2>2, <2>3, <2>4 DEF EndBefore
  <1> QED BY <1>2, <1>3

LEMMA PieceFacts ==
    ASSUME NEW U, content \in Seq(U), NEW list, InLine(list), NEW i \in 1..(Len(list) + 1)
    PROVE  /\ Before(list, i) \in Seq(U) /\ Len(Before(list, i)) = EndBefore(list, i) - 1
           /\ Leftover(list) \in Seq(U)
           /\ i <= Len(list) => Gap(list, i) \in Seq(U)
           /\ i <= Len(list) => Before(list, i) \o Gap(list, i) = SubSeq(content, 1, list[i].start - 1)
  <1> DEFINE e == EndBefore(list, i)
             f == EndBefore(list, Len(list) + 1)
             k == e - 1
  <1>1. Len(list) \in Nat /\ Len(content) \in Nat /\ Len(list) + 1 \in 1..(Len(list) + 1)
    BY DEF InLine
  <1>2. e \in Nat /\ 1 <= e /\ e <= Len(content) + 1 /\ f \in Nat /\ 1 <= f /\ f <= Len(content) + 1
    BY <1>1, EndBeforeFacts
  <1> HIDE DEF e, f
  <1>3. k \in Nat /\ 1 <= k + 1 /\ k <= Len(content) /\ 1 \in Nat /\ 1 <= 1 /\ k - 1 + 1 = k /\ k + 1 = e
    BY <1>1, <1>2
  <1> HIDE DEF k
  <1>4. SubSeq(content, 1, k) \in Seq(U) /\ Len(SubSeq(content, 1, k)) = k - 1 + 1
    BY <1>3, Cut
  <1>5. SubSeq(content, f, Len(content)) \in Seq(U)
    BY <1>1, <1>2, Cut
  <1>6. Before(list, i) = SubSeq(content, 1, k) /\ Leftover(list) = SubSeq(content, f, Len(content))
    BY DEF Before, Leftover, e, f, k
  <1>7. ASSUME i <= Len(list)
        PROVE  Gap(list, i) \in Seq(U) /\ Before(list, i) \o Gap(list, i) = SubSeq(content, 1, list[i].start - 1)
    <2> DEFINE b == list[i].start - 1
    <2>1. list[i].start \in Nat /\ 1 <= list[i].start /\ list[i].start < list[i].end /\ list[i].end \in Nat
          /\ list[i].end <= Len(content) + 1 /\ e <= list[i].start
      <3>1. i \in 1..Len(list)
        BY <1>1, <1>7
      <3>2. e <= list[i].start
        BY <1>7, EndBeforeFacts DEF e
      <3> QED BY <3>1, <3>2, SpanFacts
    <2>2. b \in Nat /\ e <= b + 1 /\ b <= Len(content)
      BY <1>1, <1>2, <2>1
    <2>3. Gap(list, i) = SubSeq(content, e, b)
      BY DEF Gap, e
    <2> HIDE DEF b
    <2>4. SubSeq(content, e, b) \in Seq(U)
      BY <1>2, <2>2, Cut
    <2>5. 1 \in 1..(Len(content) + 1) /\ k \in (1 - 1)..Len(content) /\ b \in k..Len(content)
      BY <1>1, <1>3, <2>2
    <2>6. SubSeq(content, 1, k) \o SubSeq(content, k + 1, b) = SubSeq(content, 1, b)
      BY <2>5, ConcatAdjacentSubSeq
    <2> QED BY <1>3, <1>6, <2>3, <2>4, <2>6 DEF b
  <1> QED BY <1>3, <1>4, <1>5, <1>6, <1>7 DEF k, e

\* One round of the loop.
Round(list, i, t, text) ==
    SubSeq(text, 1, list[i].start - 1) \o t \o SubSeq(text, list[i].end, Len(text))

Done(list, i, z, text) == text = Before(list, i + 1) \o z

LEMMA SpliceStep ==
    ASSUME NEW U, content \in Seq(U), NEW list, InLine(list), NEW i \in 1..Len(list),
           NEW t \in Seq(U), NEW z \in Seq(U),
           NEW text, Done(list, i, z, text)
    PROVE  Round(list, i, t, text) = Before(list, i) \o (Gap(list, i) \o (t \o z))
  <1> DEFINE s == list[i].start - 1
             e == list[i].end - 1
             A == SubSeq(content, 1, s)
             B == SubSeq(content, s + 1, e)
             C == SubSeq(content, 1, e)
             D == Before(list, i)
             G == Gap(list, i)
  <1>1. /\ Len(list) \in Nat /\ list[i].start \in Nat /\ list[i].end \in Nat /\ 1 <= list[i].start
        /\ list[i].start < list[i].end /\ list[i].end <= Len(content) + 1 /\ Len(content) \in Nat
    BY SpanFacts
  <1>2. /\ s \in Nat /\ e \in Nat /\ s <= e /\ e <= Len(content) /\ s - 1 + 1 = s /\ e - 1 + 1 = e
        /\ e + 1 = list[i].end
    BY <1>1
  <1>3. EndBefore(list, i + 1) = list[i].end /\ i \in 1..(Len(list) + 1) /\ i <= Len(list)
    BY <1>1, EndBeforeFacts
  <1>4. Before(list, i + 1) = C
    BY <1>3 DEF Before
  <1>5. A \in Seq(U) /\ Len(A) = s /\ B \in Seq(U) /\ C \in Seq(U) /\ Len(C) = e
    <2> HIDE DEF s, e
    <2>1. 1 \in Nat /\ 1 <= 1 /\ 1 <= s + 1 /\ 1 <= e + 1 /\ s <= Len(content)
      BY <1>1, <1>2
    <2>2. A \in Seq(U) /\ Len(A) = s - 1 + 1 /\ C \in Seq(U) /\ Len(C) = e - 1 + 1
      BY <1>2, <2>1, Cut
    <2> DEFINE r == s + 1
    <2>3. r \in Nat /\ 1 <= r /\ r <= e + 1
      BY <1>2
    <2> HIDE DEF r
    <2>4. SubSeq(content, r, e) \in Seq(U)
      BY <1>2, <2>3, Cut
    <2> QED BY <1>2, <2>2, <2>4 DEF r
  <1>6. C = A \o B
    <2> HIDE DEF s, e
    <2>1. 1 \in 1..(Len(content) + 1) /\ s \in (1 - 1)..Len(content) /\ e \in s..Len(content)
      BY <1>1, <1>2
    <2> QED BY <2>1, ConcatAdjacentSubSeq
  <1>7. D \in Seq(U) /\ G \in Seq(U) /\ D \o G = A
    BY <1>3, PieceFacts
  <1>12. text = C \o z
    BY <1>4 DEF Done
  <1> HIDE DEF A, B, C, D, G
  <1>8. text = C \o z /\ text = A \o (B \o z) /\ B \o z \in Seq(U)
    <2>1. A \in Seq(U) /\ B \in Seq(U) /\ z \in Seq(U)
      BY <1>5
    <2>2. (A \o B) \o z = A \o (B \o z)
      BY ONLY <2>1, ConcatAssociative
    <2>3. B \o z \in Seq(U)
      BY ONLY <2>1, ConcatProperties
    <2> QED BY <1>6, <1>12, <2>2, <2>3
  <1>9. SubSeq(text, 1, s) = A /\ SubSeq(text, e + 1, Len(text)) = z
    <2>1. SubSeq(A \o (B \o z), 1, Len(A)) = A
      BY <1>5, <1>8, CutAtSeam
    <2>2. SubSeq(C \o z, Len(C) + 1, Len(C \o z)) = z
      BY <1>5, CutAtSeam
    <2> HIDE DEF s, e
    <2> QED BY <1>5, <1>8, <2>1, <2>2
  <1>10. (A \o t) \o z = D \o (G \o (t \o z))
    <2>1. t \o z \in Seq(U)
      BY ConcatProperties
    <2>4. A \in Seq(U) /\ D \in Seq(U) /\ G \in Seq(U) /\ t \in Seq(U) /\ z \in Seq(U)
      BY <1>5, <1>7
    <2>2. (A \o t) \o z = A \o (t \o z)
      BY ONLY <2>4, ConcatAssociative
    <2> DEFINE y == t \o z
    <2>5. y \in Seq(U)
      BY <2>1
    <2> HIDE DEF y
    <2>3. (D \o G) \o y = D \o (G \o y)
      BY ONLY <2>4, <2>5, ConcatAssociative
    <2> QED BY <1>7, <2>2, <2>3 DEF y
  <1>11. SubSeq(text, 1, list[i].start - 1) = A /\ SubSeq(text, list[i].end, Len(text)) = z
    BY <1>2, <1>9
  <1> QED BY <1>10, <1>11 DEF D, G, Round

TextsOf(U, list, texts) == \A i \in 1..Len(list) : texts[i] \in Seq(U)

\* tail[i] is the answered text from the gap in front of the i-th span on.
Tails(U, list, texts, tail) ==
    /\ tail \in [1..(Len(list) + 1) -> Seq(U)]
    /\ tail[Len(list) + 1] = Leftover(list)
    /\ \A i \in 1..Len(list) : tail[i] = Gap(list, i) \o (texts[i] \o tail[i + 1])

LEMMA TailsExist ==
    ASSUME NEW U, content \in Seq(U), NEW list, InLine(list), NEW texts, TextsOf(U, list, texts)
    PROVE  \E tail : Tails(U, list, texts, tail)
  <1> DEFINE n == Len(list)
             S == 1..(n + 1)
             T == Seq(U)
             mu == [i \in S |-> n + 1 - i]
             Rhs(i, g) == IF i = n + 1 THEN Leftover(list) ELSE Gap(list, i) \o (texts[i] \o g[i + 1])
             F == [x \in S \X [S -> T] |-> Rhs(x[1], x[2])]
  <1>1. n \in Nat
    BY DEF InLine
  <1>2. ASSUME NEW i \in S
        PROVE  /\ i \in Nat /\ 1 <= i
               /\ i = n + 1 \/ (i \in 1..n /\ i + 1 \in S /\ mu[i + 1] < mu[i])
    <2> HIDE DEF n
    <2>1. i \in Nat /\ 1 <= i /\ i <= n + 1
      BY <1>1
    <2>2. CASE i # n + 1
      <3>1. i \in 1..n /\ i + 1 \in S
        BY <1>1, <2>1, <2>2
      <3>2. mu[i + 1] = n + 1 - (i + 1) /\ mu[i] = n + 1 - i
        BY <3>1
      <3> HIDE DEF mu
      <3> QED BY <1>1, <2>1, <3>1, <3>2
    <2> QED BY <2>1, <2>2
  <1>3. mu \in [S -> Nat] /\ T # {}
    <2>1. \A i \in S : n + 1 - i \in Nat
      <3> HIDE DEF n
      <3> QED BY <1>1
    <2>2. mu \in [S -> Nat]
      <3> HIDE DEF S, n
      <3> QED BY <2>1
    <2>3. <<>> \in T
      OBVIOUS
    <2> QED BY <2>2, <2>3
  <1>4. ASSUME NEW i \in S, NEW g \in [S -> T]
        PROVE  Rhs(i, g) \in T
    <2>1. Leftover(list) \in T
      BY PieceFacts
    <2>2. CASE i # n + 1
      <3>1. i \in 1..n /\ i + 1 \in S
        BY <1>2, <2>2
      <3> DEFINE y == texts[i]
                 z == g[i + 1]
                 x == Gap(list, i)
      <3>2. i <= n
        <4> HIDE DEF n
        <4> QED BY <1>1, <3>1
      <3>3. x \in T
        BY <3>2, PieceFacts
      <3>4. y \in T /\ z \in T
        <4> HIDE DEF S, T
        <4>1. z \in T
          BY <3>1
        <4>2. y \in T
          BY <3>1 DEF TextsOf, T
        <4> QED BY <4>1, <4>2
      <3>5. Rhs(i, g) = x \o (y \o z)
        BY <2>2
      <3> HIDE DEF x, y, z, Rhs
      <3>6. y \o z \in Seq(U)
        BY <3>4, ConcatProperties
      <3>7. x \o (y \o z) \in Seq(U)
        BY <3>3, <3>6, ConcatProperties
      <3> QED BY <3>5, <3>7
    <2> QED BY <2>1, <2>2
  <1>5. F \in [S \X [S -> T] -> T]
    <2> HIDE DEF Rhs, S, T
    <2> QED BY <1>4
  <1>6. LooksBack(S, T, mu, F)
    <2> SUFFICES ASSUME NEW i \in S, NEW g \in [S -> T], NEW h \in [S -> T],
                        \A j \in S : mu[j] < mu[i] => g[j] = h[j]
                 PROVE  F[<<i, g>>] = F[<<i, h>>]
      <3> HIDE DEF F, S, T, mu
      <3> QED BY DEF LooksBack
    <2>1. F[<<i, g>>] = Rhs(i, g) /\ F[<<i, h>>] = Rhs(i, h)
      <3> HIDE DEF Rhs, S, T
      <3> QED OBVIOUS
    <2>2. i = n + 1 \/ g[i + 1] = h[i + 1]
      <3> HIDE DEF mu, S, n
      <3> QED BY <1>2
    <2>3. Rhs(i, g) = Rhs(i, h)
      <3> HIDE DEF mu, S, n
      <3> QED BY <2>2
    <2> QED BY <2>1, <2>3
  <1>7. PICK g : Solves(S, T, F, g)
    <2> HIDE DEF F, S, T, mu
    <2> QED BY <1>3, <1>5, <1>6, SolutionExists
  <1>8. g \in [S -> T] /\ \A i \in S : g[i] = Rhs(i, g)
    <2>1. g \in [S -> T] /\ \A i \in S : g[i] = F[<<i, g>>]
      <3> HIDE DEF F, S, T
      <3> QED BY <1>7 DEF Solves
    <2>2. \A i \in S : F[<<i, g>>] = Rhs(i, g)
      <3> HIDE DEF Rhs, S, T
      <3> QED BY <2>1
    <2> HIDE DEF Rhs, S, T, F
    <2> QED BY <2>1, <2>2
  <1>9. g[n + 1] = Leftover(list)
    <2>1. n + 1 \in S
      <3> HIDE DEF n
      <3> QED BY <1>1
    <2> HIDE DEF n, S
    <2> QED BY <1>8, <2>1
  <1>10. ASSUME NEW i \in 1..n
         PROVE  g[i] = Gap(list, i) \o (texts[i] \o g[i + 1])
    <2>1. i \in S /\ i # n + 1
      <3> HIDE DEF n
      <3> QED BY <1>1
    <2> HIDE DEF n, S
    <2> QED BY <1>8, <2>1
  <1>11. Tails(U, list, texts, g)
    BY <1>8, <1>9, <1>10 DEF Tails
  <1> QED BY <1>11

\* The splicing of the code, from the last span to the first, comes to that.
LEMMA SplicedIsLaidOut ==
    ASSUME NEW U, content \in Seq(U), NEW list, InLine(list), NEW texts, TextsOf(U, list, texts),
           NEW tail, Tails(U, list, texts, tail)
    PROVE  Spliced(list, texts) = tail[1]
  <1> DEFINE n == Len(list)
             S == 1..(n + 1)
             Rhs(i, g) == IF i > n THEN content
                          ELSE SubSeq(g[i + 1], 1, list[i].start - 1) \o texts[i]
                                  \o SubSeq(g[i + 1], list[i].end, Len(g[i + 1]))
             whole(i) == Before(list, i) \o tail[i]
             w == [i \in S |-> whole(i)]
  <1>1. n \in Nat
    BY DEF InLine
  <1>2. whole(n + 1) = content
    <2> DEFINE e == EndBefore(list, n + 1)
               k == e - 1
    <2>1. n + 1 \in S
      <3> HIDE DEF n
      <3> QED BY <1>1
    <2>2. e \in Nat /\ 1 <= e /\ e <= Len(content) + 1 /\ Len(content) \in Nat
      BY <2>1, EndBeforeFacts
    <2>3. tail[n + 1] = SubSeq(content, e, Len(content))
      BY DEF Tails, Leftover
    <2>4. Before(list, n + 1) = SubSeq(content, 1, k)
      BY DEF Before
    <2> HIDE DEF e
    <2>5. k + 1 = e /\ k \in (1 - 1)..Len(content) /\ 1 \in 1..(Len(content) + 1) /\ Len(content) \in k..Len(content)
      BY <2>2
    <2> HIDE DEF k
    <2>6. SubSeq(content, 1, k) \o SubSeq(content, k + 1, Len(content)) = SubSeq(content, 1, Len(content))
      BY <2>5, ConcatAdjacentSubSeq
    <2>7. SubSeq(content, 1, Len(content)) = content
      BY SubSeqFull
    <2> HIDE DEF n
    <2> QED BY <2>3, <2>4, <2>5, <2>6, <2>7
  <1>3. ASSUME NEW i \in 1..n, NEW text, text = whole(i + 1)
        PROVE  SubSeq(text, 1, list[i].start - 1) \o texts[i] \o SubSeq(text, list[i].end, Len(text)) = whole(i)
    <2> DEFINE t == texts[i]
               z == tail[i + 1]
    <2>1. t \in Seq(U)
      BY DEF TextsOf
    <2>2. z \in Seq(U)
      <3>1. i + 1 \in S
        <4> HIDE DEF n
        <4> QED BY <1>1
      <3> QED BY <3>1 DEF Tails
    <2>3. tail[i] = Gap(list, i) \o (t \o z)
      BY DEF Tails
    <2>4. text = Before(list, i + 1) \o z
      BY <1>3
    <2>6. i \in 1..Len(list)
      OBVIOUS
    <2> HIDE DEF t, z, n, whole, w, Rhs, S
    <2>7. Done(list, i, z, text)
      BY <2>4 DEF Done
    <2>5. Round(list, i, t, text) = Before(list, i) \o (Gap(list, i) \o (t \o z))
      BY <2>1, <2>2, <2>6, <2>7, SpliceStep
    <2> QED BY <2>3, <2>5 DEF t, z, whole, Round
  <1>4. w = [i \in S |-> Rhs(i, w)]
    <2>1. ASSUME NEW i \in S
          PROVE  whole(i) = Rhs(i, w)
      <3>1. CASE i = n + 1
        <4>1. i > n
          <5> HIDE DEF n
          <5> QED BY <1>1, <3>1
        <4> HIDE DEF n, whole
        <4> QED BY <1>2, <3>1, <4>1
      <3>2. CASE i # n + 1
        <4>1. ~(i > n) /\ i \in 1..n /\ i + 1 \in S
          <5> HIDE DEF n
          <5> QED BY <1>1, <3>2
        <4>2. w[i + 1] = whole(i + 1)
          BY <4>1
        <4>3. Rhs(i, w) = SubSeq(w[i + 1], 1, list[i].start - 1) \o texts[i]
                             \o SubSeq(w[i + 1], list[i].end, Len(w[i + 1]))
          BY <4>1
        <4> HIDE DEF n, whole, w, Rhs
        <4> QED BY <1>3, <4>1, <4>2, <4>3
      <3> QED BY <3>1, <3>2
    <2> HIDE DEF S, Rhs, whole
    <2> QED BY <2>1
  <1> DEFINE downTo == CHOOSE f : f = [i \in S |-> Rhs(i, f)]
  <1>5. downTo = [i \in S |-> Rhs(i, downTo)]
    <2> HIDE DEF w, S, Rhs
    <2> QED BY <1>4
  <1>6. Spliced(list, texts) = downTo[1]
    BY DEF Spliced
  <1> HIDE DEF downTo
  <1> DEFINE P == {i \in S : downTo[i] = whole(i)}
  <1>7. \A i \in 1..(n + 1) : i \in P
    <2>1. n + 1 \in P
      <3>1. n + 1 \in S /\ n + 1 > n
        <4> HIDE DEF n
        <4> QED BY <1>1
      <3>2. downTo[n + 1] = content
        <4> HIDE DEF n, S
        <4> QED BY <1>5, <3>1
      <3> HIDE DEF n, S, whole
      <3> QED BY <1>2, <3>1, <3>2
    <2>2. ASSUME NEW i \in 1..n, i + 1 \in P
          PROVE  i \in P
      <3>1. i \in S /\ ~(i > n)
        <4> HIDE DEF n
        <4> QED BY <1>1
      <3>2. downTo[i + 1] = whole(i + 1)
        <4> HIDE DEF n, S, whole
        <4> QED BY <2>2
      <3>3. downTo[i] = SubSeq(downTo[i + 1], 1, list[i].start - 1) \o texts[i]
                           \o SubSeq(downTo[i + 1], list[i].end, Len(downTo[i + 1]))
        <4> HIDE DEF n, S
        <4> QED BY <1>5, <3>1
      <3>4. downTo[i] = whole(i)
        <4> HIDE DEF n, whole
        <4> QED BY <1>3, <3>2, <3>3
      <3> HIDE DEF n, S, whole
      <3> QED BY <3>1, <3>4
    <2> HIDE DEF P, n
    <2> QED BY <1>1, <2>1, <2>2, CountDown
  <1>8. downTo[1] = whole(1)
    <2>1. 1 \in 1..(n + 1)
      <3> HIDE DEF n
      <3> QED BY <1>1
    <2> HIDE DEF n, whole, S
    <2> QED BY <1>7, <2>1
  <1>9. whole(1) = tail[1]
    <2>1. Before(list, 1) = SubSeq(content, 1, 0)
      <3>1. EndBefore(list, 1) - 1 = 0
        BY DEF EndBefore
      <3> QED BY <3>1 DEF Before
    <2>2. SubSeq(content, 1, 0) = <<>>
      BY SubSeqEmpty
    <2>3. tail[1] \in Seq(U)
      <3>1. 1 \in S
        <4> HIDE DEF n
        <4> QED BY <1>1
      <3> QED BY <3>1 DEF Tails
    <2> DEFINE z == tail[1]
    <2> HIDE DEF z
    <2>4. <<>> \o z = z
      BY <2>3, ConcatEmptySeq DEF z
    <2> QED BY <2>1, <2>2, <2>4 DEF z
  <1> QED BY <1>6, <1>8, <1>9

-----------------------------------------------------------------------------
(* What stands for a span is recognized: it begins with an atom that no    *)
(* atom of H follows in the content, goes on with atoms of H, and ends     *)
(* where the content goes on with none.                                    *)

Marks(U, list, texts, H) ==
    /\ TextsOf(U, list, texts)
    /\ \A i \in 1..Len(list) :
          /\ texts[i] # <<>>
          /\ texts[i][1] \notin H
          /\ \A m \in 2..Len(texts[i]) : texts[i][m] \in H
          /\ \A x \in 1..Len(content) : content[x] = texts[i][1] =>
                2 <= Len(texts[i]) /\ (x + 1 <= Len(content) => content[x + 1] \notin H)
          /\ list[i].end <= Len(content) => content[list[i].end] \notin H
    /\ \A i, j \in 1..Len(list) : texts[i] = texts[j] => i = j

\* The spans of open are still replaced, the others hold the original.
Mixed(list, texts, open) ==
    [j \in 1..Len(list) |-> IF j \in open THEN texts[j] ELSE Label(list[j])]

\* A text begins as the content does at position a, or with no atom of H.
GoesOn(H, a, rest) ==
    rest # <<>> => rest[1] \notin H \/ (a <= Len(content) /\ rest[1] = content[a])

LEMMA PieceOfContent ==
    ASSUME NEW U, content \in Seq(U), NEW a \in Nat, NEW b \in Nat, 1 <= a, a <= b + 1, b <= Len(content)
    PROVE  LET piece == SubSeq(content, a, b)
           IN /\ piece \in Seq(U)
              /\ piece = <<>> => a = b + 1
              /\ piece # <<>> => a <= b /\ piece[1] = content[a]
  <1> DEFINE piece == SubSeq(content, a, b)
             n == Len(piece)
  <1>1. piece \in Seq(U) /\ n = b - a + 1 /\ \A p \in 1..(b - a + 1) : piece[p] = content[a + p - 1]
    BY Cut
  <1> HIDE DEF piece
  <1>2. n \in Nat /\ (piece = <<>> <=> n = 0)
    BY <1>1
  <1>3. piece = <<>> => a = b + 1
    <2> HIDE DEF n
    <2> QED BY <1>1, <1>2
  <1>4. ASSUME piece # <<>>
        PROVE  a <= b /\ piece[1] = content[a]
    <2> HIDE DEF n
    <2>1. 1 \in 1..(b - a + 1) /\ a + 1 - 1 = a /\ a <= b
      BY <1>1, <1>2, <1>4
    <2>2. piece[1] = content[a + 1 - 1]
      BY <1>1, <2>1
    <2> QED BY <2>1, <2>2
  <1> QED BY <1>1, <1>3, <1>4 DEF piece

LEMMA LabelFacts ==
    ASSUME NEW U, content \in Seq(U), NEW list, InLine(list), NEW i \in 1..Len(list)
    PROVE  /\ Label(list[i]) \in Seq(U) /\ Label(list[i]) # <<>>
           /\ Label(list[i])[1] = content[list[i].start] /\ list[i].start <= Len(content)
  <1> DEFINE a == list[i].start
             b == list[i].end - 1
  <1>1. a \in Nat /\ b \in Nat /\ 1 <= a /\ a <= b + 1 /\ a <= b /\ b <= Len(content) /\ Len(content) \in Nat
    BY SpanFacts
  <1>2. Label(list[i]) = SubSeq(content, a, b)
    BY DEF Label
  <1> HIDE DEF a, b
  <1>3. /\ SubSeq(content, a, b) \in Seq(U)
        /\ SubSeq(content, a, b) = <<>> => a = b + 1
        /\ SubSeq(content, a, b) # <<>> => SubSeq(content, a, b)[1] = content[a]
    BY <1>1, PieceOfContent
  <1>4. a # b + 1 /\ a <= Len(content)
    BY <1>1
  <1> QED BY <1>2, <1>3, <1>4 DEF a

LEMMA MixedTexts ==
    ASSUME NEW U, content \in Seq(U), NEW list, InLine(list), NEW texts, TextsOf(U, list, texts), NEW open
    PROVE  TextsOf(U, list, Mixed(list, texts, open))
  <1> SUFFICES ASSUME NEW j \in 1..Len(list)
               PROVE  Mixed(list, texts, open)[j] \in Seq(U)
    BY DEF TextsOf
  <1>1. Label(list[j]) \in Seq(U) /\ texts[j] \in Seq(U)
    BY LabelFacts DEF TextsOf
  <1> QED BY <1>1 DEF Mixed

\* The first atom of two texts one behind the other.
LEMMA FirstAtom ==
    ASSUME NEW U, NEW s \in Seq(U), NEW t \in Seq(U)
    PROVE  (s \o t) # <<>> =>
              \/ s # <<>> /\ (s \o t)[1] = s[1]
              \/ s = <<>> /\ t # <<>> /\ (s \o t)[1] = t[1]
  <1>1. Len(s) \in Nat /\ Len(t) \in Nat
    OBVIOUS
  <1>2. CASE s = <<>>
    BY <1>2, ConcatEmptySeq
  <1>3. CASE s # <<>>
    <2>1. Len(s) # 0
      BY <1>3
    <2>2. 1 \in 1..(Len(s) + Len(t)) /\ 1 <= Len(s)
      BY <1>1, <2>1
    <2>3. (s \o t)[1] = s[1]
      BY <2>2, ConcatProperties
    <2> QED BY <1>3, <2>3
  <1> QED BY <1>2, <1>3

\* From a span on the text begins as the content does there, or afresh.
LEMMA BlockGoesOn ==
    ASSUME NEW U, content \in Seq(U), NEW list, InLine(list), NEW texts, NEW H, Marks(U, list, texts, H),
           NEW open, NEW k \in 1..Len(list), NEW z \in Seq(U)
    PROVE  /\ Mixed(list, texts, open)[k] \o z \in Seq(U)
           /\ Mixed(list, texts, open)[k] \o z # <<>>
           /\ GoesOn(H, list[k].start, Mixed(list, texts, open)[k] \o z)
  <1> DEFINE t == Mixed(list, texts, open)[k]
             a == list[k].start
  <1>1. t \in Seq(U) /\ t # <<>> /\ (t[1] \notin H \/ (a <= Len(content) /\ t[1] = content[a]))
    <2>1. CASE k \in open
      <3>1. t = texts[k]
        BY <2>1 DEF Mixed
      <3>2. texts[k] \in Seq(U) /\ texts[k] # <<>> /\ texts[k][1] \notin H
        BY DEF Marks, TextsOf
      <3> HIDE DEF t
      <3> QED BY <3>1, <3>2
    <2>2. CASE k \notin open
      <3>1. t = Label(list[k])
        BY <2>2 DEF Mixed
      <3>2. /\ Label(list[k]) \in Seq(U) /\ Label(list[k]) # <<>>
            /\ Label(list[k])[1] = content[a] /\ a <= Len(content)
        BY LabelFacts
      <3> HIDE DEF t
      <3> QED BY <3>1, <3>2
    <2> QED BY <2>1, <2>2
  <1> HIDE DEF t, a
  <1>2. t \o z \in Seq(U)
    BY <1>1, ConcatProperties
  <1>3. t \o z # <<>>
    BY <1>1, ConcatEqualIffEmpty
  <1>4. (t \o z)[1] = t[1]
    BY <1>1, <1>3, FirstAtom
  <1>5. GoesOn(H, a, t \o z)
    BY <1>1, <1>4 DEF GoesOn
  <1> QED BY <1>2, <1>3, <1>5 DEF t, a

\* Behind a span too; but there the content goes on with no atom of H.
LEMMA TailsGoOn ==
    ASSUME NEW U, content \in Seq(U), NEW list, InLine(list), NEW texts, NEW H, Marks(U, list, texts, H),
           NEW open, NEW tail, Tails(U, list, Mixed(list, texts, open), tail),
           NEW k \in 1..(Len(list) + 1)
    PROVE  GoesOn(H, EndBefore(list, k), tail[k])
  <1> DEFINE e == EndBefore(list, k)
  <1>1. Len(list) \in Nat /\ Len(content) \in Nat
    BY DEF InLine
  <1>2. e \in Nat /\ 1 <= e /\ e <= Len(content) + 1 /\ (k <= Len(list) => e <= list[k].start)
    BY EndBeforeFacts
  <1>3. CASE k = Len(list) + 1
    <2>1. tail[k] = SubSeq(content, e, Len(content))
      BY <1>3 DEF Tails, Leftover
    <2> HIDE DEF e
    <2>2. tail[k] # <<>> => e <= Len(content) /\ tail[k][1] = content[e]
      BY <1>1, <1>2, <2>1, PieceOfContent
    <2> QED BY <2>2 DEF GoesOn, e
  <1>4. CASE k # Len(list) + 1
    <2> DEFINE b == list[k].start - 1
               g == SubSeq(content, e, b)
               y == Mixed(list, texts, open)[k] \o tail[k + 1]
    <2>1. k \in 1..Len(list) /\ k + 1 \in 1..(Len(list) + 1) /\ k <= Len(list)
      BY <1>1, <1>4
    <2>2. tail[k] = g \o y
      BY <2>1 DEF Tails, Gap
    <2>3. tail[k + 1] \in Seq(U)
      BY <2>1 DEF Tails
    <2>4. y \in Seq(U) /\ y # <<>> /\ GoesOn(H, list[k].start, y)
      BY <2>1, <2>3, BlockGoesOn
    <2>5. list[k].start \in Nat /\ list[k].start <= Len(content)
      <3>1. list[k].start \in Nat /\ list[k].end \in Nat /\ list[k].start < list[k].end
            /\ list[k].end <= Len(content) + 1
        BY <2>1, SpanFacts
      <3> QED BY <1>1, <3>1
    <2>6. b \in Nat /\ e <= b + 1 /\ b <= Len(content) /\ b + 1 = list[k].start
      <3> HIDE DEF e
      <3> QED BY <1>1, <1>2, <2>1, <2>5
    <2> HIDE DEF e, b, y
    <2>7. /\ g \in Seq(U)
          /\ g = <<>> => e = b + 1
          /\ g # <<>> => e <= b /\ g[1] = content[e]
      BY <1>2, <2>6, PieceOfContent
    <2> HIDE DEF g
    <2>8. CASE g # <<>>
      <3>1. g \o y # <<>>
        BY <2>4, <2>7, ConcatEqualIffEmpty
      <3>2. (g \o y)[1] = g[1]
        BY <2>4, <2>7, <2>8, <3>1, FirstAtom
      <3>3. e <= Len(content)
        BY <1>1, <1>2, <2>6, <2>7, <2>8
      <3> QED BY <2>2, <2>7, <2>8, <3>2, <3>3 DEF GoesOn, e
    <2>9. CASE g = <<>>
      <3>1. tail[k] = y
        BY <2>2, <2>4, <2>9, ConcatEmptySeq
      <3>2. e = list[k].start
        BY <2>6, <2>7, <2>9
      <3> QED BY <2>4, <3>1, <3>2 DEF e
    <2> QED BY <2>8, <2>9
  <1> QED BY <1>3, <1>4

\* What is behind a span begins with no atom of H.
LEMMA TailsBeginAfresh ==
    ASSUME NEW U, content \in Seq(U), NEW list, InLine(list), NEW texts, NEW H, Marks(U, list, texts, H),
           NEW open, NEW tail, Tails(U, list, Mixed(list, texts, open), tail),
           NEW j \in 1..Len(list), tail[j + 1] # <<>>
    PROVE  tail[j + 1][1] \notin H
  <1> DEFINE k == j + 1
  <1>1. k \in 1..(Len(list) + 1) /\ j \in 1..(Len(list) + 1) /\ j <= Len(list)
    BY DEF InLine
  <1>2. EndBefore(list, k) = list[j].end
    BY <1>1, EndBeforeFacts
  <1>3. list[j].end <= Len(content) => content[list[j].end] \notin H
    BY DEF Marks
  <1> HIDE DEF k
  <1>4. GoesOn(H, EndBefore(list, k), tail[k])
    BY <1>1, TailsGoOn
  <1> QED BY <1>2, <1>3, <1>4 DEF GoesOn, k

\* The text of a pending span that is as long as any other.
Longest(list, texts, open, i) ==
    /\ i \in open /\ i \in 1..Len(list)
    /\ \A j \in 1..Len(list) : j \in open => Len(texts[j]) <= Len(texts[i])

\* The text of a span does not occur in a piece of the content.
LEMMA QuietPiece ==
    ASSUME NEW U, content \in Seq(U), NEW list, NEW texts, NEW H, Marks(U, list, texts, H),
           NEW i \in 1..Len(list), NEW a \in Nat, NEW b \in Nat, 1 <= a, a <= b + 1, b <= Len(content),
           NEW rest \in Seq(U), GoesOn(H, b + 1, rest)
    PROVE  NoHits(texts[i], SubSeq(content, a, b), rest)
  <1> DEFINE old == texts[i]
             piece == SubSeq(content, a, b)
             n == Len(piece)
             m == Len(old)
  <1>1. /\ old \in Seq(U) /\ old # <<>> /\ \A h \in 2..m : old[h] \in H
        /\ \A x \in 1..Len(content) : content[x] = old[1] =>
              2 <= m /\ (x + 1 <= Len(content) => content[x + 1] \notin H)
    BY DEF Marks, TextsOf
  <1>2. piece \in Seq(U) /\ n = b - a + 1 /\ \A p \in 1..n : piece[p] = content[a + p - 1]
    BY Cut
  <1>3. m \in Nat /\ m # 0 /\ n \in Nat /\ Len(rest) \in Nat /\ Len(content) \in Nat
    <2> HIDE DEF old, piece
    <2> QED BY <1>1, <1>2
  <1> HIDE DEF old, piece
  <1>4. /\ Len(piece \o rest) = n + Len(rest)
        /\ \A h \in 1..(n + Len(rest)) : (piece \o rest)[h] = IF h <= n THEN piece[h] ELSE rest[h - n]
    BY <1>2, ConcatProperties
  <1>5. ASSUME NEW p \in 1..n, Hit(old, piece \o rest, p)
        PROVE  FALSE
    <2> DEFINE x == a + p - 1
    <2>1. p + m <= n + Len(rest) + 1 /\ \A h \in 1..m : (piece \o rest)[p + h - 1] = old[h]
      BY <1>4, <1>5 DEF Hit
    <2> HIDE DEF m, n
    <2>2. 1 \in 1..m /\ p + 1 - 1 = p /\ p \in 1..(n + Len(rest)) /\ p <= n
          /\ x \in 1..Len(content) /\ x <= b
      BY <1>2, <1>3
    <2>3. content[x] = old[1]
      <3>1. (piece \o rest)[p + 1 - 1] = old[1]
        BY <2>1, <2>2
      <3>2. (piece \o rest)[p] = piece[p]
        BY <1>4, <2>2
      <3> QED BY <1>2, <2>2, <3>1, <3>2
    <2>4. 2 <= m /\ (x + 1 <= Len(content) => content[x + 1] \notin H)
      BY <1>1, <2>2, <2>3
    <2>5. 2 \in 1..m /\ 2 \in 2..m /\ p + 2 - 1 = p + 1 /\ p + 1 \in 1..(n + Len(rest))
      BY <1>3, <2>1, <2>4
    <2>6. (piece \o rest)[p + 1] \in H
      <3>1. (piece \o rest)[p + 2 - 1] = old[2]
        BY <2>1, <2>5
      <3> QED BY <1>1, <2>5, <3>1
    <2>7. CASE p + 1 <= n
      <3>1. p + 1 \in 1..n /\ a + (p + 1) - 1 = x + 1 /\ x + 1 <= Len(content)
        BY <1>2, <1>3, <2>7
      <3>2. (piece \o rest)[p + 1] = piece[p + 1] /\ piece[p + 1] = content[a + (p + 1) - 1]
        BY <1>2, <1>4, <2>5, <2>7, <3>1
      <3> QED BY <2>4, <2>6, <3>1, <3>2
    <2>8. CASE ~(p + 1 <= n)
      <3>1. (p + 1) - n = 1 /\ x = b /\ Len(rest) # 0
        BY <1>2, <1>3, <2>2, <2>5, <2>8
      <3>2. (piece \o rest)[p + 1] = rest[(p + 1) - n]
        BY <1>4, <2>5, <2>8
      <3>3. rest # <<>> /\ rest[1] \in H
        BY <2>6, <3>1, <3>2
      <3>4. b + 1 <= Len(content) /\ rest[1] = content[b + 1]
        BY <3>3 DEF GoesOn
      <3> QED BY <2>4, <3>1, <3>3, <3>4
    <2> QED BY <2>7, <2>8
  <1>6. NoHits(old, piece, rest)
    BY <1>5 DEF NoHits, n
  <1> QED BY <1>6 DEF old, piece

\* In particular in no gap, and not in what is left behind the last span.
LEMMA QuietGaps ==
    ASSUME NEW U, content \in Seq(U), NEW list, InLine(list), NEW texts, NEW H, Marks(U, list, texts, H),
           NEW open, NEW i \in 1..Len(list)
    PROVE  /\ \A k \in 1..Len(list) : \A z \in Seq(U) :
                 NoHits(texts[i], Gap(list, k), Mixed(list, texts, open)[k] \o z)
           /\ NoHits(texts[i], Leftover(list), <<>>)
  <1>1. Len(list) \in Nat /\ Len(content) \in Nat /\ Len(list) + 1 \in 1..(Len(list) + 1)
    BY DEF InLine
  <1>2. ASSUME NEW k \in 1..Len(list), NEW z \in Seq(U)
        PROVE  NoHits(texts[i], Gap(list, k), Mixed(list, texts, open)[k] \o z)
    <2> DEFINE e == EndBefore(list, k)
               b == list[k].start - 1
               y == Mixed(list, texts, open)[k] \o z
    <2>1. k \in 1..(Len(list) + 1) /\ k <= Len(list)
      BY <1>1
    <2>2. e \in Nat /\ 1 <= e /\ e <= list[k].start
      BY <2>1, EndBeforeFacts
    <2>3. list[k].start \in Nat /\ list[k].end \in Nat /\ list[k].start < list[k].end
          /\ list[k].end <= Len(content) + 1 /\ 1 <= list[k].start
      BY SpanFacts
    <2>4. b \in Nat /\ e <= b + 1 /\ b <= Len(content) /\ b + 1 = list[k].start
      <3> HIDE DEF e
      <3> QED BY <1>1, <2>2, <2>3
    <2>5. y \in Seq(U) /\ GoesOn(H, b + 1, y)
      <3> HIDE DEF b
      <3> QED BY <2>4, BlockGoesOn
    <2>6. Gap(list, k) = SubSeq(content, e, b)
      BY DEF Gap
    <2> HIDE DEF e, b, y
    <2>7. NoHits(texts[i], SubSeq(content, e, b), y)
      BY <2>2, <2>4, <2>5, QuietPiece
    <2> QED BY <2>6, <2>7 DEF y
  <1>3. NoHits(texts[i], Leftover(list), <<>>)
    <2> DEFINE e == EndBefore(list, Len(list) + 1)
               b == Len(content)
               none == <<>>
    <2>1. e \in Nat /\ 1 <= e /\ e <= b + 1 /\ b \in Nat /\ b <= Len(content)
      BY <1>1, EndBeforeFacts
    <2>2. Leftover(list) = SubSeq(content, e, b)
      BY DEF Leftover
    <2>3. none \in Seq(U) /\ GoesOn(H, b + 1, none)
      BY DEF GoesOn
    <2> HIDE DEF e, b, none
    <2>4. NoHits(texts[i], SubSeq(content, e, b), none)
      BY <2>1, <2>3, QuietPiece
    <2> QED BY <2>2, <2>4 DEF none
  <1> QED BY <1>2, <1>3

\* The text of one span occurs at no other one.
LEMMA QuietBlock ==
    ASSUME NEW U, content \in Seq(U), NEW list, InLine(list), NEW texts, NEW H, Marks(U, list, texts, H),
           NEW open, NEW tail, Tails(U, list, Mixed(list, texts, open), tail),
           NEW i, Longest(list, texts, open, i), NEW j \in 1..Len(list), j # i
    PROVE  NoHits(texts[i], Mixed(list, texts, open)[j], tail[j + 1])
  <1>1. Len(list) \in Nat /\ i \in 1..Len(list) /\ i \in open
    BY DEF InLine, Longest
  <1> DEFINE z == tail[j + 1]
             old == texts[i]
             t == texts[j]
             m == Len(old)
             n == Len(t)
  <1>2. j + 1 \in 1..(Len(list) + 1)
    BY <1>1
  <1>3. z \in Seq(U) /\ (z # <<>> => z[1] \notin H)
    <2>1. tail[j + 1] \in Seq(U)
      BY <1>2 DEF Tails
    <2>2. tail[j + 1] # <<>> => tail[j + 1][1] \notin H
      BY TailsBeginAfresh
    <2> QED BY <2>1, <2>2
  <1>4. CASE j \notin open
    <2> DEFINE a == list[j].start
               b == list[j].end - 1
    <2>1. Mixed(list, texts, open)[j] = SubSeq(content, a, b)
      BY <1>4 DEF Mixed, Label
    <2>2. a \in Nat /\ b \in Nat /\ 1 <= a /\ a <= b + 1 /\ b <= Len(content)
      BY SpanFacts
    <2> HIDE DEF a, b, z
    <2>3. GoesOn(H, b + 1, z)
      BY <1>3 DEF GoesOn
    <2>4. NoHits(texts[i], SubSeq(content, a, b), z)
      BY <1>1, <1>3, <2>2, <2>3, QuietPiece
    <2> QED BY <2>1, <2>4 DEF z
  <1>5. CASE j \in open
    <2>1. Mixed(list, texts, open)[j] = t
      BY <1>5 DEF Mixed
    <2>2. /\ old \in Seq(U) /\ old # <<>> /\ old[1] \notin H /\ \A h \in 2..m : old[h] \in H
          /\ t \in Seq(U) /\ t # <<>> /\ \A h \in 2..n : t[h] \in H
          /\ old # t /\ n <= m
      BY <1>1, <1>5 DEF Marks, TextsOf, Longest
    <2>3. m \in Nat /\ n \in Nat /\ Len(z) \in Nat /\ m # 0 /\ n # 0
      BY <1>3, <2>2
    <2>7. t \in Seq(U) /\ z \in Seq(U)
      BY <1>3, <2>2
    <2> HIDE DEF z, old, t
    <2>4. /\ Len(t \o z) = n + Len(z)
          /\ \A h \in 1..(n + Len(z)) : (t \o z)[h] = IF h <= n THEN t[h] ELSE z[h - n]
      BY ONLY <2>7, ConcatProperties DEF n
    <2>5. ASSUME NEW p \in 1..n, Hit(old, t \o z, p)
          PROVE  FALSE
      <3>1. p + m <= n + Len(z) + 1 /\ \A h \in 1..m : (t \o z)[p + h - 1] = old[h]
        BY <2>4, <2>5 DEF Hit
      <3> HIDE DEF m, n
      <3>2. CASE p # 1
        <4>1. p \in 2..n /\ 1 \in 1..m /\ p + 1 - 1 = p /\ p \in 1..(n + Len(z)) /\ p <= n
          BY <2>3, <3>2
        <4>2. (t \o z)[p] = old[1] /\ (t \o z)[p] = t[p] /\ t[p] \in H
          <5>1. (t \o z)[p + 1 - 1] = old[1]
            BY <3>1, <4>1
          <5>2. (t \o z)[p] = t[p]
            BY <2>4, <4>1
          <5> QED BY <2>2, <4>1, <5>1, <5>2
        <4> QED BY <2>2, <4>2
      <3>3. CASE p = 1
        <4>1. \A h \in 1..m : (t \o z)[h] = old[h]
          <5> SUFFICES ASSUME NEW h \in 1..m
                       PROVE  (t \o z)[h] = old[h]
            OBVIOUS
          <5>1. p + h - 1 = h
            BY <2>3, <3>3
          <5> QED BY <3>1, <5>1
        <4>2. \A h \in 1..n : t[h] = old[h]
          <5> SUFFICES ASSUME NEW h \in 1..n
                       PROVE  t[h] = old[h]
            OBVIOUS
          <5>1. h \in 1..m /\ h \in 1..(n + Len(z)) /\ h <= n
            BY <2>2, <2>3
          <5> QED BY <2>4, <4>1, <5>1
        <4>3. CASE m = n
          <5>1. Len(t) = Len(old) /\ \A h \in 1..Len(t) : t[h] = old[h]
            BY <4>2, <4>3 DEF m, n
          <5>2. t = old
            BY <2>2, <5>1, SeqEqual
          <5> QED BY <2>2, <5>2
        <4>4. CASE m # n
          <5>1. n + 1 \in 1..m /\ n + 1 \in 2..m /\ n + 1 \in 1..(n + Len(z)) /\ ~(n + 1 <= n) /\ (n + 1) - n = 1
                /\ Len(z) # 0
            BY <2>2, <2>3, <3>1, <3>3, <4>4
          <5>2. (t \o z)[n + 1] = z[(n + 1) - n]
            BY <2>4, <5>1
          <5>3. (t \o z)[n + 1] = old[n + 1] /\ old[n + 1] \in H
            BY <2>2, <4>1, <5>1
          <5>4. z # <<>>
            BY <5>1
          <5> QED BY <1>3, <5>1, <5>2, <5>3, <5>4
        <4> QED BY <4>3, <4>4
      <3> QED BY <3>2, <3>3
    <2>6. NoHits(old, t, z)
      BY <2>5 DEF NoHits, n
    <2> QED BY <2>1, <2>6 DEF old, z
  <1> QED BY <1>4, <1>5

\* What occurs in no part of a stretch of text does not occur in it.
LEMMA QuietAhead ==
    ASSUME NEW U, NEW old \in Seq(U), NEW g \in Seq(U), NEW t \in Seq(U), NEW z \in Seq(U), NEW rest \in Seq(U),
           NoHits(old, z, rest), NoHits(old, t, z \o rest), NoHits(old, g, (t \o z) \o rest)
    PROVE  NoHits(old, g \o (t \o z), rest)
  <1>1. NoHits(old, t \o z, rest)
    BY NoHitsTogether
  <1> DEFINE y == t \o z
  <1>2. y \in Seq(U)
    BY ConcatProperties
  <1>3. NoHits(old, g, y \o rest) /\ NoHits(old, y, rest)
    BY <1>1
  <1> HIDE DEF y
  <1>4. NoHits(old, g \o y, rest)
    BY <1>2, <1>3, NoHitsTogether
  <1> QED BY <1>4 DEF y

\* Substituting the longest pending text puts back its span and nothing else.
LEMMA RestoreOne ==
    ASSUME NEW U, content \in Seq(U), NEW list, InLine(list), NEW texts, NEW H, Marks(U, list, texts, H),
           NEW open, NEW i, Longest(list, texts, open, i)
    PROVE  Substitute(Spliced(list, Mixed(list, texts, open)), texts[i], Label(list[i]))
              = Spliced(list, Mixed(list, texts, open \ {i}))
  <1> DEFINE n == Len(list)
             M == Mixed(list, texts, open)
             N == Mixed(list, texts, open \ {i})
             old == texts[i]
             new == Label(list[i])
  <1>1. n \in Nat /\ i \in 1..n /\ i \in open /\ i + 1 \in 1..(n + 1)
    BY DEF InLine, Longest
  <1>2. TextsOf(U, list, texts) /\ TextsOf(U, list, M) /\ TextsOf(U, list, N)
    BY MixedTexts DEF Marks
  <1>3. old \in Seq(U) /\ old # <<>> /\ new \in Seq(U)
    BY <1>1, LabelFacts DEF Marks, TextsOf
  <1>4. /\ M[i] = old /\ N[i] = new
        /\ \A j \in 1..n : j # i => M[j] = N[j]
    BY <1>1 DEF Mixed
  <1>5. PICK tail : Tails(U, list, M, tail)
    <2> HIDE DEF M
    <2> QED BY <1>2, TailsExist
  <1>6. PICK last : Tails(U, list, N, last)
    <2> HIDE DEF N
    <2> QED BY <1>2, TailsExist
  <1>7. Spliced(list, M) = tail[1] /\ Spliced(list, N) = last[1]
    <2> HIDE DEF M, N
    <2> QED BY <1>2, <1>5, <1>6, SplicedIsLaidOut
  <1>8. ASSUME NEW j \in 1..n
        PROVE  /\ tail[j] = Gap(list, j) \o (M[j] \o tail[j + 1])
               /\ last[j] = Gap(list, j) \o (N[j] \o last[j + 1])
               /\ tail[j + 1] \in Seq(U) /\ last[j + 1] \in Seq(U)
               /\ M[j] \in Seq(U) /\ N[j] \in Seq(U)
               /\ Gap(list, j) \in Seq(U)
    <2>1. j + 1 \in 1..(n + 1) /\ j \in 1..(n + 1) /\ j <= n
      <3> HIDE DEF n
      <3> QED BY <1>1
    <2>2. /\ tail[j] = Gap(list, j) \o (M[j] \o tail[j + 1])
          /\ last[j] = Gap(list, j) \o (N[j] \o last[j + 1])
          /\ tail[j + 1] \in Seq(U) /\ last[j + 1] \in Seq(U)
      <3> HIDE DEF M, N
      <3> QED BY <1>5, <1>6, <2>1 DEF Tails
    <2>3. M[j] \in Seq(U) /\ N[j] \in Seq(U)
      <3> HIDE DEF M, N
      <3> QED BY <1>2 DEF TextsOf
    <2>4. Gap(list, j) \in Seq(U)
      BY <2>1, PieceFacts
    <2> QED BY <2>2, <2>3, <2>4
  <1>9. ASSUME NEW j \in 1..n, j # i
        PROVE  NoHits(old, M[j], tail[j + 1])
    BY <1>5, <1>9, QuietBlock
  <1>10. /\ \A j \in 1..n : \A z \in Seq(U) : NoHits(old, Gap(list, j), M[j] \o z)
         /\ NoHits(old, Leftover(list), <<>>)
    BY <1>1, QuietGaps
  <1>11. tail[n + 1] = Leftover(list) /\ last[n + 1] = Leftover(list)
         /\ Leftover(list) \in Seq(U)
    <2>1. Leftover(list) \in Seq(U)
      BY <1>1, PieceFacts
    <2> HIDE DEF M, N
    <2> QED BY <1>5, <1>6, <2>1 DEF Tails
  <1> HIDE DEF M, N, old, new, n
  \* What lies behind a stretch without the text of i.
  <1>12. ASSUME NEW j \in 1..n, j # i, NEW z \in Seq(U), NEW rest \in Seq(U), NoHits(old, z, rest),
                tail[j + 1] = z \o rest
         PROVE  NoHits(old, Gap(list, j) \o (M[j] \o z), rest)
    <2> DEFINE g == Gap(list, j)
               t == M[j]
      <2>1. g \in Seq(U) /\ t \in Seq(U) /\ z \o rest \in Seq(U)
      BY <1>8, ConcatProperties
    <2>2. NoHits(old, t, z \o rest)
      BY <1>9, <1>12
    <2>3. NoHits(old, g, t \o (z \o rest))
      BY <1>10, <2>1
    <2> HIDE DEF g, t
    <2>4. t \o (z \o rest) = (t \o z) \o rest
      BY <2>1, ConcatAssociative
    <2>5. NoHits(old, g, (t \o z) \o rest)
      BY <2>3, <2>4
    <2>6. NoHits(old, g \o (t \o z), rest)
      BY <1>3, <1>12, <2>1, <2>2, <2>5, QuietAhead
    <2> QED BY <2>6 DEF g, t
  <1> DEFINE P == {k \in Nat : i < k => tail[k] = last[k] /\ NoHits(old, tail[k], <<>>)}
  <1>13. \A k \in 1..(n + 1) : k \in P
    <2>1. n + 1 \in P
      <3>1. NoHits(old, Leftover(list), <<>>)
        BY <1>10
      <3>2. n + 1 \in Nat
        BY <1>1
      <3> QED BY <1>11, <3>1, <3>2
    <2>2. ASSUME NEW k \in 1..n, k + 1 \in P
          PROVE  k \in P
      <3> SUFFICES ASSUME i < k
                   PROVE  tail[k] = last[k] /\ NoHits(old, tail[k], <<>>)
        BY <1>1
      <3>1. i < k + 1 /\ k # i
        BY <1>1
      <3> DEFINE z == tail[k + 1]
      <3>2. tail[k + 1] = last[k + 1] /\ NoHits(old, z, <<>>)
        BY <2>2, <3>1
      <3>3. tail[k] = last[k]
        BY <1>4, <1>8, <3>1, <3>2 DEF n
      <3>4. z \in Seq(U)
        BY <1>8
      <3>5. z \o <<>> = z /\ <<>> \in Seq(U)
        <4> HIDE DEF z
        <4> QED BY <3>4, ConcatEmptySeq
      <3>6. NoHits(old, Gap(list, k) \o (M[k] \o z), <<>>)
        BY <1>12, <3>1, <3>2, <3>4, <3>5
      <3>7. tail[k] = Gap(list, k) \o (M[k] \o z)
        BY <1>8
      <3> QED BY <3>3, <3>6, <3>7
    <2> HIDE DEF P
    <2> QED BY <1>1, <2>1, <2>2, CountDown
  <1> DEFINE rest == tail[i + 1]
             R == old \o rest
             S == new \o rest
  <1>14. rest \in Seq(U) /\ last[i + 1] = rest /\ NoHits(old, rest, <<>>)
    <2>1. i < i + 1 /\ i + 1 \in 1..(n + 1)
      BY <1>1
    <2>2. i + 1 \in P
      BY <1>13, <2>1
    <2> QED BY <1>1, <1>8, <2>1, <2>2
  <1> HIDE DEF rest
  <1>15. R \in Seq(U) /\ S \in Seq(U)
    BY <1>3, <1>14, ConcatProperties
  <1> HIDE DEF R, S
  <1> DEFINE splits(k, x) == tail[k] = x \o R /\ last[k] = x \o S /\ NoHits(old, x, R)
             Q == {k \in Nat : \E x \in Seq(U) : splits(k, x)}
             h == i - 1
  <1>16. \A k \in 1..(h + 1) : k \in Q
    <2>1. h \in Nat /\ h + 1 = i
      BY <1>1
    <2>2. h + 1 \in Q
      <3> DEFINE g == Gap(list, i)
      <3>1. g \in Seq(U)
        BY <1>1, <1>8
      <3>2. NoHits(old, g, R)
        BY <1>1, <1>4, <1>10, <1>14 DEF R
      <3>3. tail[i] = g \o R /\ last[i] = g \o S
        BY <1>1, <1>4, <1>8, <1>14 DEF R, S, rest
      <3>4. splits(i, g)
        BY <3>2, <3>3
      <3> HIDE DEF g, splits
      <3>5. i \in Nat
        BY <1>1
      <3> QED BY <2>1, <3>1, <3>4, <3>5
    <2>3. ASSUME NEW k \in 1..h, k + 1 \in Q
          PROVE  k \in Q
      <3>1. k \in 1..n /\ k # i /\ k \in Nat
        BY <1>1
      <3>2. PICK x \in Seq(U) : splits(k + 1, x)
        BY <2>3
      <3> DEFINE g == Gap(list, k)
                 t == M[k]
                 y == t \o x
      <3>3. g \in Seq(U) /\ t \in Seq(U)
        BY <1>8, <3>1
      <3>4. NoHits(old, g \o (t \o x), R)
        BY <1>12, <1>15, <3>1, <3>2
      <3>5. tail[k] = g \o (t \o (x \o R)) /\ last[k] = g \o (t \o (x \o S))
        BY <1>4, <1>8, <3>1, <3>2 DEF n
      <3> HIDE DEF g, t
      <3>6. ASSUME NEW r \in Seq(U)
            PROVE  g \o (t \o (x \o r)) = (g \o y) \o r
        <4>1. (t \o x) \o r = t \o (x \o r)
          BY <3>3, ConcatAssociative
        <4>2. y \in Seq(U)
          BY <3>3, ConcatProperties
        <4> HIDE DEF y
        <4>3. (g \o y) \o r = g \o (y \o r)
          BY <3>3, <4>2, ConcatAssociative
        <4> QED BY <4>1, <4>3 DEF y
      <3>7. g \o y \in Seq(U)
        <4>1. y \in Seq(U)
          BY <3>3, ConcatProperties
        <4> HIDE DEF y
        <4> QED BY <3>3, <4>1, ConcatProperties
      <3>8. tail[k] = (g \o y) \o R /\ last[k] = (g \o y) \o S
        BY <1>15, <3>5, <3>6
      <3>9. splits(k, g \o y)
        BY <3>4, <3>8
      <3> DEFINE front == g \o y
      <3>10. front \in Seq(U) /\ splits(k, front)
        BY <3>7, <3>9
      <3> HIDE DEF front, splits
      <3> QED BY <3>1, <3>10
    <2> HIDE DEF Q, h
    <2> QED BY <2>1, <2>2, <2>3, CountDown
  <1>17. PICK x \in Seq(U) : splits(1, x)
    <2>1. 1 \in 1..(h + 1)
      BY <1>1
    <2> HIDE DEF h, splits
    <2> QED BY <1>16, <2>1
  <1>18. Substitute(x \o (old \o rest), old, new) = x \o (new \o rest)
    <2>1. NoHits(old, x, old \o rest)
      BY <1>17 DEF R
    <2> QED BY <1>3, <1>14, <2>1, SubstituteOnce
  <1>19. Substitute(tail[1], old, new) = last[1]
    BY <1>17, <1>18 DEF R, S
  <1> QED BY <1>7, <1>19 DEF M, N, old, new

\* Once no span is pending, the text is the content.
LEMMA NothingPending ==
    ASSUME NEW U, content \in Seq(U), NEW list, InLine(list), NEW texts
    PROVE  Spliced(list, Mixed(list, texts, {})) = content
  <1> DEFINE n == Len(list)
             M == Mixed(list, texts, {})
             L == Len(content)
  <1>1. n \in Nat /\ L \in Nat
    BY DEF InLine
  <1>2. \A j \in 1..n : M[j] = Label(list[j])
    BY DEF Mixed
  <1>3. TextsOf(U, list, M)
    BY <1>2, LabelFacts DEF TextsOf
  <1>4. PICK tail : Tails(U, list, M, tail)
    <2> HIDE DEF M
    <2> QED BY <1>3, TailsExist
  <1>5. Spliced(list, M) = tail[1]
    <2> HIDE DEF M
    <2> QED BY <1>3, <1>4, SplicedIsLaidOut
  <1> DEFINE P == {k \in Nat : tail[k] = SubSeq(content, EndBefore(list, k), L)}
  <1>6. \A k \in 1..(n + 1) : k \in P
    <2>1. n + 1 \in P
      <3>1. n + 1 \in Nat
        <4> HIDE DEF n
        <4> QED BY <1>1
      <3>2. tail[n + 1] = SubSeq(content, EndBefore(list, n + 1), L)
        BY <1>4 DEF Tails, Leftover
      <3> HIDE DEF n, L
      <3> QED BY <3>1, <3>2
    <2>2. ASSUME NEW k \in 1..n, k + 1 \in P
          PROVE  k \in P
      <3>1. k \in 1..(n + 1) /\ k <= n /\ k \in Nat
        <4> HIDE DEF n
        <4> QED BY <1>1
      <3> DEFINE a == EndBefore(list, k)
                 b == list[k].start - 1
                 c == list[k].end - 1
      <3>2. a \in Nat /\ 1 <= a /\ a <= list[k].start /\ EndBefore(list, k + 1) = list[k].end
        BY <3>1, EndBeforeFacts
      <3>3. list[k].start \in Nat /\ list[k].end \in Nat /\ list[k].start < list[k].end
            /\ list[k].end <= L + 1 /\ 1 <= list[k].start
        BY SpanFacts
      <3>4. /\ a \in 1..(L + 1) /\ b \in (a - 1)..L /\ c \in b..L /\ c \in (a - 1)..L /\ L \in c..L
            /\ b + 1 = list[k].start /\ c + 1 = list[k].end /\ a - 1 <= c
        <4> HIDE DEF a, L
        <4> QED BY <1>1, <3>2, <3>3
      <3>5. tail[k] = Gap(list, k) \o (Label(list[k]) \o tail[k + 1])
        <4> HIDE DEF M
        <4> QED BY <1>2, <1>4 DEF Tails
      <3>6. /\ Gap(list, k) = SubSeq(content, a, b)
            /\ Label(list[k]) = SubSeq(content, b + 1, c)
            /\ tail[k + 1] = SubSeq(content, c + 1, L)
        <4>1. Gap(list, k) = SubSeq(content, a, b)
          BY DEF Gap
        <4>2. Label(list[k]) = SubSeq(content, b + 1, c)
          BY <3>4 DEF Label
        <4>3. tail[k + 1] = SubSeq(content, c + 1, L)
          <5> HIDE DEF c, L
          <5> QED BY <2>2, <3>2, <3>4
        <4> QED BY <4>1, <4>2, <4>3
      <3> HIDE DEF a, b, c
      <3>7. SubSeq(content, b + 1, c) \o SubSeq(content, c + 1, L) = SubSeq(content, b + 1, L)
        <4> DEFINE d == b + 1
        <4>1. d \in 1..(L + 1) /\ c \in (d - 1)..L /\ L \in c..L
          <5> HIDE DEF L
          <5> QED BY <1>1, <3>2, <3>4
        <4> HIDE DEF d
        <4>2. SubSeq(content, d, c) \o SubSeq(content, c + 1, Len(content)) = SubSeq(content, d, Len(content))
          BY <4>1, ConcatAdjacentSubSeq
        <4> QED BY <4>2 DEF d
      <3>8. SubSeq(content, a, b) \o SubSeq(content, b + 1, L) = SubSeq(content, a, L)
        <4>1. L \in b..L
          <5> HIDE DEF L
          <5> QED BY <1>1, <3>4
        <4> QED BY <3>4, <4>1, ConcatAdjacentSubSeq
      <3>9. tail[k] = SubSeq(content, a, L)
        BY <3>5, <3>6, <3>7, <3>8
      <3> HIDE DEF L
      <3> QED BY <3>1, <3>9 DEF a
    <2> HIDE DEF P, n
    <2> QED BY <1>1, <2>1, <2>2, CountDown
  <1>7. tail[1] = content
    <2>1. 1 \in 1..(n + 1)
      <3> HIDE DEF n
      <3> QED BY <1>1
    <2>2. tail[1] = SubSeq(content, EndBefore(list, 1), L)
      <3> HIDE DEF n, L
      <3> QED BY <1>6, <2>1
    <2>3. EndBefore(list, 1) = 1
      BY DEF EndBefore
    <2> QED BY <2>2, <2>3, SubSeqFull
  <1> QED BY <1>5, <1>7

-----------------------------------------------------------------------------
(* The detections in the order of their positions.                         *)

Disjoint(set) == \A c, d \in set : Overlaps(c, d) => c = d

InContent(set) ==
    \A c \in set :
        /\ c \in Candidate
        /\ 1 <= c.start /\ c.start < c.end /\ c.end <= Len(content) + 1

LEMMA InOrderFacts ==
    ASSUME NEW set, IsFiniteSet(set), Disjoint(set), InContent(set)
    PROVE  /\ InLine(InOrder(set))
           /\ DOMAIN InOrder(set) = 1..Len(InOrder(set))
           /\ \A i \in 1..Len(InOrder(set)) : InOrder(set)[i] \in set
  <1> DEFINE R == {x \in set \X set : x[1].start < x[2].start}
             n == Cardinality(set)
             rank == RankOf(set, R)
             list == InOrder(set)
  <1>1. n \in Nat
    BY FS_CardinalityType
  <1>2. ASSUME NEW c \in set
        PROVE  c.start \in Nat /\ c.end \in Nat /\ 1 <= c.start /\ c.start < c.end /\ c.end <= Len(content) + 1
    BY DEF InContent, Candidate
  <1>3. \A c, d \in set : <<c, d>> \in R <=> c.start < d.start
    OBVIOUS
  <1>4. ASSUME NEW c \in set, NEW d \in set, c # d
        PROVE  c.start < d.start \/ d.start < c.start
    <2>1. ~Overlaps(c, d)
      BY <1>4 DEF Disjoint
    <2>2. CASE c.start = d.start
      <3>1. Overlaps(c, d)
        BY <1>2, <2>2 DEF Overlaps
      <3> QED BY <2>1, <3>1
    <2>3. CASE c.start # d.start
      BY <1>2, <2>3
    <2> QED BY <2>2, <2>3
  <1>5. StrictOrder(set, R)
    <2>1. \A s \in set : <<s, s>> \notin R
      <3> HIDE DEF R
      <3> QED BY <1>2, <1>3
    <2>2. \A s, t, u \in set : <<s, t>> \in R /\ <<t, u>> \in R => <<s, u>> \in R
      <3> HIDE DEF R
      <3> QED BY <1>2, <1>3
    <2>3. \A s, t \in set : s # t => <<s, t>> \in R \/ <<t, s>> \in R
      <3> HIDE DEF R
      <3> QED BY <1>3, <1>4
    <2> HIDE DEF R
    <2> QED BY <2>1, <2>2, <2>3 DEF StrictOrder
  <1>6. /\ rank \in Bijection(set, 0..(n - 1))
        /\ \A s, t \in set : <<s, t>> \in R => rank[s] < rank[t]
    <2> HIDE DEF R
    <2> QED BY <1>5, RankFacts
  <1>7. ASSUME NEW d \in set
        PROVE  rank[d] = Cardinality({e \in set : e.start < d.start})
    <2>1. rank[d] = Cardinality({t \in set : <<t, d>> \in R})
      <3> HIDE DEF R
      <3> QED BY DEF RankOf
    <2>2. {t \in set : <<t, d>> \in R} = {e \in set : e.start < d.start}
      <3> HIDE DEF R
      <3> QED BY <1>3
    <2> QED BY <2>1, <2>2
  <1> HIDE DEF rank, R, n
  <1>8. /\ DOMAIN list = 1..n /\ list = [i \in 1..n |-> list[i]]
        /\ \A i \in 1..n : list[i] = CHOOSE d \in set : Cardinality({e \in set : e.start < d.start}) = i - 1
    <2> DEFINE item(i) == CHOOSE d \in set : Cardinality({e \in set : e.start < d.start}) = i - 1
    <2>1. list = [i \in 1..n |-> item(i)]
      BY DEF InOrder, n
    <2> HIDE DEF item, list
    <2>2. DOMAIN list = 1..n /\ list = [i \in 1..n |-> list[i]] /\ \A i \in 1..n : list[i] = item(i)
      BY <2>1
    <2> QED BY <2>2 DEF item
  <1> HIDE DEF list
  <1>9. ASSUME NEW i \in 1..n
        PROVE  list[i] \in set /\ rank[list[i]] = i - 1
    <2>1. i - 1 \in 0..(n - 1)
      BY <1>1
    <2>2. \E d \in set : rank[d] = i - 1
      BY <1>6, <2>1 DEF Bijection, Surjection
    <2>3. PICK d \in set : Cardinality({e \in set : e.start < d.start}) = i - 1
      BY <1>7, <2>2
    <2>4. /\ list[i] \in set
          /\ Cardinality({e \in set : e.start < list[i].start}) = i - 1
      BY <1>8, <2>3
    <2> QED BY <1>7, <2>4
  <1>10. list \in Seq(Candidate) /\ Len(list) = n
    <2>1. list = [i \in 1..n |-> list[i]]
      BY <1>8
    <2>2. \A i \in 1..n : list[i] \in Candidate
      BY <1>9 DEF InContent
    <2>3. list \in [1..n -> Candidate]
      BY <2>1, <2>2
    <2> QED BY <1>1, <2>3
  <1>11. ASSUME NEW i \in 1..n, i + 1 <= n
         PROVE  list[i].end <= list[i + 1].start
    <2> DEFINE c == list[i]
               d == list[i + 1]
    <2>1. i + 1 \in 1..n /\ i \in Nat
      BY <1>1, <1>11
    <2>2. c \in set /\ d \in set /\ rank[c] = i - 1 /\ rank[d] = (i + 1) - 1
      BY <1>9, <2>1
    <2> HIDE DEF c, d
    <2>3. c # d
      BY <2>1, <2>2
    <2>4. ~(d.start < c.start)
      <3> SUFFICES ASSUME d.start < c.start
                   PROVE  FALSE
        OBVIOUS
      <3>1. rank[d] < rank[c]
        BY <1>3, <1>6, <2>2
      <3> QED BY <2>1, <2>2, <3>1
    <2>5. c.start < d.start
      BY <1>4, <2>2, <2>3, <2>4
    <2>6. ~Overlaps(c, d)
      BY <2>2, <2>3 DEF Disjoint
    <2>7. c.end <= d.start
      BY <1>2, <2>2, <2>5, <2>6 DEF Overlaps
    <2> QED BY <2>7 DEF c, d
  <1>12. InLine(list)
    BY <1>2, <1>9, <1>10, <1>11 DEF InLine
  <1> QED BY <1>8, <1>9, <1>10, <1>12 DEF list

-----------------------------------------------------------------------------
(* The replacement texts, in texts of the atoms of U.                      *)

Atoms(list) ==
    DOMAIN Width \cup Digits
        \cup {Word(DetectionType(list[i])) : i \in DOMAIN list}
        \cup {Token(DetectionType(list[i]), CounterAt(list, i)) : i \in DOMAIN list}

LEMMA TokensMark ==
    ASSUME content \in Seq(DOMAIN Width), NEW list, DOMAIN list = 1..Len(list), Len(list) \in Nat
    PROVE  Marks(Atoms(list), list, Tokens(list), {})
  <1> DEFINE atom(i) == Token(DetectionType(list[i]), CounterAt(list, i))
             texts == Tokens(list)
  <1>1. List(list)
    BY DEF List
  <1>2. \A i \in 1..Len(list) : texts[i] = <<atom(i)>>
    BY DEF Tokens
  <1>3. ASSUME NEW i \in 1..Len(list)
        PROVE  /\ texts[i] \in Seq(Atoms(list)) /\ texts[i] # <<>> /\ texts[i][1] = atom(i) /\ Len(texts[i]) = 1
               /\ atom(i).kind = "token"
    <2>1. atom(i) \in Atoms(list)
      BY DEF Atoms
    <2>2. atom(i).kind = "token"
      BY DEF Token, Atom
    <2> DEFINE a == atom(i)
               U == Atoms(list)
    <2>3. a \in U /\ texts[i] = <<a>>
      BY <1>2, <2>1
    <2> HIDE DEF a, texts, U
    <2>4. texts[i] \in Seq(U) /\ texts[i] # <<>> /\ texts[i][1] = a /\ Len(texts[i]) = 1
      BY <2>3
    <2> QED BY <2>2, <2>4 DEF a, U
  <1>4. ASSUME NEW x \in 1..Len(content)
        PROVE  content[x].kind # "token"
    <2>1. content[x] \in DOMAIN Width
      BY ElementOfSeq
    <2> QED BY <2>1, TokensAssumption
  <1>5. \A i, j \in 1..Len(list) : texts[i] = texts[j] => i = j
    BY <1>1, TokensDistinct DEF Distinct
  <1> HIDE DEF atom, texts
  <1>6. Marks(Atoms(list), list, texts, {})
    <2>1. ASSUME NEW i \in 1..Len(list), NEW x \in 1..Len(content), content[x] = texts[i][1]
          PROVE  FALSE
      BY <1>3, <1>4, <2>1
    <2>2. ASSUME NEW i \in 1..Len(list), NEW m \in 2..Len(texts[i])
          PROVE  FALSE
      <3>1. Len(texts[i]) = 1
        BY <1>3
      <3> DEFINE k == Len(texts[i])
      <3>2. k = 1 /\ m \in 2..k
        BY <3>1
      <3> HIDE DEF k
      <3> QED BY <3>2
    <2>3. TextsOf(Atoms(list), list, texts)
      BY <1>3 DEF TextsOf
    <2> QED BY <1>3, <1>5, <2>1, <2>2, <2>3 DEF Marks
  <1> QED BY <1>6 DEF texts

LEMMA PlaceholdersMark ==
    ASSUME content \in Seq(DOMAIN Width), OrdinaryContent,
           NEW list, DOMAIN list = 1..Len(list), Len(list) \in Nat, \A i \in 1..Len(list) : list[i] \in shown
    PROVE  Marks(Atoms(list), list, FallbackTexts(list), Digits)
  <1> DEFINE word(i) == Word(DetectionType(list[i]))
             number(i) == NumeralOf[CounterAt(list, i)]
             texts == FallbackTexts(list)
             U == Atoms(list)
  <1>1. List(list)
    BY DEF List
  <1>2. \A i \in 1..Len(list) : texts[i] = <<word(i)>> \o number(i)
    BY DEF FallbackTexts
  <1>3. ASSUME NEW i \in 1..Len(list)
        PROVE  /\ texts[i] \in Seq(U) /\ 2 <= Len(texts[i]) /\ texts[i] # <<>> /\ texts[i][1] = word(i)
               /\ \A m \in 2..Len(texts[i]) : texts[i][m] \in Digits
    <2>1. word(i) \in U
      BY DEF Atoms
    <2>2. number(i) \in Seq(Digits) /\ number(i) # <<>>
      BY <1>1, CounterType, NumeralEquation
    <2> HIDE DEF word, number
    <2> DEFINE w == <<word(i)>>
               d == number(i)
    <2>3. w \in Seq(U) /\ Len(w) = 1 /\ w[1] = word(i)
      <3> HIDE DEF U
      <3> QED BY <2>1
    <2>4. d \in Seq(U) /\ \A m \in 1..Len(d) : d[m] \in Digits
      <3>1. Digits \subseteq U
        BY DEF Atoms
      <3> HIDE DEF U
      <3>2. d \in Seq(U)
        BY <2>2, <3>1, SeqMonotonic
      <3>3. \A m \in 1..Len(d) : d[m] \in Digits
        BY <2>2, ElementOfSeq
      <3> QED BY <3>2, <3>3
    <2>5. texts[i] = w \o d
      BY <1>2
    <2> HIDE DEF w, d, texts, U
    <2>6. /\ w \o d \in Seq(U) /\ Len(w \o d) = Len(w) + Len(d)
          /\ \A m \in 1..(Len(w) + Len(d)) : (w \o d)[m] = IF m <= Len(w) THEN w[m] ELSE d[m - Len(w)]
      BY <2>3, <2>4, ConcatProperties
    <2>7. Len(d) \in Nat /\ Len(d) # 0
      BY <2>2, <2>4 DEF d
    <2>8. (w \o d)[1] = word(i) /\ 2 <= Len(w \o d) /\ Len(w \o d) # 0
      <3>1. 1 \in 1..(Len(w) + Len(d)) /\ 1 <= Len(w)
        BY <2>3, <2>7
      <3> QED BY <2>3, <2>6, <2>7, <3>1
    <2>9. ASSUME NEW m \in 2..Len(w \o d)
          PROVE  (w \o d)[m] \in Digits
      <3>1. m \in 1..(Len(w) + Len(d)) /\ ~(m <= Len(w)) /\ m - Len(w) \in 1..Len(d)
        BY <2>3, <2>6, <2>7
      <3>2. (w \o d)[m] = d[m - Len(w)]
        BY <2>6, <3>1
      <3> QED BY <2>4, <3>1, <3>2
    <2>10. w \o d # <<>>
      BY <2>8
    <2> QED BY <2>5, <2>6, <2>8, <2>9, <2>10
  <1>4. \A i \in 1..Len(list) : word(i).kind = "word"
    BY DEF Word, Atom
  <1>5. \A d \in Digits : d.kind = "digit"
    <2>1. Digit(0).kind = "digit" /\ Digit(1).kind = "digit"
      BY DEF Digit, Atom
    <2> QED BY <2>1 DEF Digits
  <1>6. /\ \A x \in 1..Len(content) : content[x].kind = "word" /\ x + 1 <= Len(content) => content[x + 1].kind # "digit"
        /\ \A i \in 1..Len(list) : list[i].end <= Len(content) => content[list[i].end].kind # "digit"
    BY DEF OrdinaryContent
  <1>7. \A i, j \in 1..Len(list) : texts[i] = texts[j] => i = j
    BY <1>1, FallbackDistinct DEF Distinct
  <1> HIDE DEF word, number, texts, U
  <1>8. Marks(U, list, texts, Digits)
    <2>1. ASSUME NEW i \in 1..Len(list), NEW x \in 1..Len(content), content[x] = texts[i][1], x + 1 <= Len(content)
          PROVE  content[x + 1] \notin Digits
      <3>1. content[x].kind = "word"
        BY <1>3, <1>4, <2>1
      <3>2. content[x + 1].kind # "digit"
        BY <1>6, <2>1, <3>1
      <3> QED BY <1>5, <3>2
    <2>2. ASSUME NEW i \in 1..Len(list)
          PROVE  texts[i][1] \notin Digits
      BY <1>3, <1>4, <1>5
    <2>3. TextsOf(U, list, texts)
      BY <1>3 DEF TextsOf
    <2>4. ASSUME NEW i \in 1..Len(list), list[i].end <= Len(content)
          PROVE  content[list[i].end] \notin Digits
      BY <1>5, <1>6, <2>4
    <2> QED BY <1>3, <1>7, <2>1, <2>2, <2>3, <2>4 DEF Marks
  <1> QED BY <1>8 DEF texts, U

-----------------------------------------------------------------------------
(* From the answer to the end of the restore.                              *)

\* The detections that are replaced, and their texts.
Listed == InOrder(shown)
Texts == IF origin = "token" THEN Tokens(Listed) ELSE FallbackTexts(Listed)

\* The text with the pending spans still replaced.
Unfinished == Spliced(Listed, Mixed(Listed, Texts, pending))

Invertible == origin = "token" \/ (origin = "fallback" /\ OrdinaryContent)

AnsweredInv ==
    pass \in {"answered", "restoring"} =>
        /\ origin = "none" => mappings = <<>> /\ replaced = content
        /\ origin \in {"token", "fallback"} =>
              /\ mappings = [i \in DOMAIN Listed |-> [original |-> Label(Listed[i]), replaced |-> Texts[i]]]
              /\ replaced = Spliced(Listed, Texts)

RestoringInv ==
    pass = "restoring" =>
        /\ pending \subseteq DOMAIN mappings
        /\ origin = "none" => restored = content
        /\ Invertible => restored = Unfinished

LEMMA TextsKept ==
    ASSUME UNCHANGED <<content, shown, origin, pending>>
    PROVE  UNCHANGED <<Listed, Texts, Invertible, Unfinished, Spliced(Listed, Texts)>>
  <1>1. UNCHANGED <<Listed, Texts, Invertible>>
    BY DEF Listed, Texts, Invertible, OrdinaryContent
  <1>2. UNCHANGED Spliced(Listed, Texts)
    BY <1>1 DEF Spliced
  <1>3. UNCHANGED Mixed(Listed, Texts, pending)
    BY <1>1 DEF Mixed, Label
  <1>4. UNCHANGED Unfinished
    BY <1>1, <1>3 DEF Unfinished, Spliced
  <1> QED BY <1>1, <1>2, <1>4

LEMMA ListedFacts ==
    ASSUME SelectionInv, ShownInv, SelectedDisjoint
    PROVE  /\ InLine(Listed) /\ DOMAIN Listed = 1..Len(Listed) /\ Len(Listed) \in Nat
           /\ \A i \in 1..Len(Listed) : Listed[i] \in shown
           /\ content \in Seq(DOMAIN Width)
  <1>1. MatchesInv /\ content \in Seq(DOMAIN Width)
    BY DEF SelectionInv, MatchesInv
  <1>2. IsFiniteSet(shown)
    BY <1>1, CandidatesFinite, FS_Subset DEF ShownInv
  <1>3. Disjoint(shown)
    BY DEF SelectedDisjoint, Disjoint
  <1>4. InContent(shown)
    <2> SUFFICES ASSUME NEW c \in shown
                 PROVE  c \in Candidate /\ 1 <= c.start /\ c.start < c.end /\ c.end <= Len(content) + 1
      BY DEF InContent
    <2>1. /\ c = [pattern |-> c.pattern, start |-> c.start, end |-> c.end]
          /\ c.pattern \in Patterns
          /\ c.start \in 1..Len(content) /\ c.end \in 2..(Len(content) + 1) /\ c.start < c.end
      BY <1>1, CandidateFacts DEF ShownInv
    <2>2. Len(content) \in Nat
      BY <1>1
    <2>3. c.start \in Nat /\ c.end \in Nat /\ 1 <= c.start /\ c.end <= Len(content) + 1
      BY <2>1, <2>2
    <2>4. c \in Candidate
      BY <2>1, <2>3 DEF Candidate
    <2> QED BY <2>1, <2>3, <2>4
  <1>5. InLine(Listed) /\ DOMAIN Listed = 1..Len(Listed) /\ \A i \in 1..Len(Listed) : Listed[i] \in shown
    BY <1>2, <1>3, <1>4, InOrderFacts DEF Listed
  <1>6. Len(Listed) \in Nat
    BY <1>5 DEF InLine
  <1> QED BY <1>1, <1>5, <1>6

LEMMA TextsMark ==
    ASSUME SelectionInv, ShownInv, SelectedDisjoint, Invertible
    PROVE  content \in Seq(Atoms(Listed)) /\ \E H : Marks(Atoms(Listed), Listed, Texts, H)
  <1>1. /\ DOMAIN Listed = 1..Len(Listed) /\ Len(Listed) \in Nat /\ content \in Seq(DOMAIN Width)
        /\ \A i \in 1..Len(Listed) : Listed[i] \in shown
    BY ListedFacts
  <1>2. content \in Seq(Atoms(Listed))
    <2> DEFINE U == Atoms(Listed)
    <2>1. DOMAIN Width \subseteq U
      BY DEF Atoms
    <2> HIDE DEF U
    <2>2. content \in Seq(U)
      BY <1>1, <2>1, SeqMonotonic
    <2> QED BY <2>2 DEF U
  <1>3. CASE origin = "token"
    <2>1. Texts = Tokens(Listed)
      BY <1>3 DEF Texts
    <2> QED BY <1>1, <1>2, <2>1, TokensMark
  <1>4. CASE origin = "fallback" /\ OrdinaryContent
    <2>1. Texts = FallbackTexts(Listed)
      BY <1>4 DEF Texts
    <2> QED BY <1>1, <1>2, <1>4, <2>1, PlaceholdersMark
  <1> QED BY <1>3, <1>4 DEF Invertible

LEMMA AllMixed ==
    ASSUME SelectionInv, ShownInv, SelectedDisjoint
    PROVE  Mixed(Listed, Texts, DOMAIN Listed) = Texts
  <1>1. DOMAIN Listed = 1..Len(Listed)
    BY ListedFacts
  <1>2. Texts = [j \in DOMAIN Listed |-> Texts[j]]
    <2>1. Tokens(Listed) = [j \in DOMAIN Listed |-> Tokens(Listed)[j]]
      <3> DEFINE e(j) == <<Token(DetectionType(Listed[j]), CounterAt(Listed, j))>>
      <3>1. Tokens(Listed) = [j \in DOMAIN Listed |-> e(j)]
        BY DEF Tokens
      <3> HIDE DEF e
      <3> QED BY <3>1
    <2>2. FallbackTexts(Listed) = [j \in DOMAIN Listed |-> FallbackTexts(Listed)[j]]
      <3> DEFINE e(j) == <<Word(DetectionType(Listed[j]))>> \o NumeralOf[CounterAt(Listed, j)]
      <3>1. FallbackTexts(Listed) = [j \in DOMAIN Listed |-> e(j)]
        BY DEF FallbackTexts
      <3> HIDE DEF e
      <3> QED BY <3>1
    <2> QED BY <2>1, <2>2 DEF Texts
  <1>3. Mixed(Listed, Texts, DOMAIN Listed) = [j \in DOMAIN Listed |-> Texts[j]]
    BY <1>1 DEF Mixed
  <1> QED BY <1>2, <1>3

\* An answer is made of the detections and their texts.
LEMMA AnswerMade ==
    ASSUME NEW from \in {"token", "fallback"}, NEW texts,
           texts = IF from = "token" THEN Tokens(Listed) ELSE FallbackTexts(Listed),
           Answer(from, Listed, texts)
    PROVE  AnsweredInv'
  <1>1. /\ origin' = from /\ UNCHANGED <<content, shown>>
        /\ replaced' = Spliced(Listed, texts)
        /\ mappings' = [i \in DOMAIN Listed |-> [original |-> Label(Listed[i]), replaced |-> texts[i]]]
    BY DEF Answer
  <1>2. Listed' = Listed
    BY <1>1 DEF Listed
  <1>3. Texts' = texts
    BY <1>1, <1>2 DEF Texts
  <1>4. Spliced(Listed, Texts)' = Spliced(Listed, texts)
    BY <1>1, <1>2, <1>3 DEF Spliced
  <1>5. [i \in DOMAIN Listed |-> [original |-> Label(Listed[i]), replaced |-> Texts[i]]]'
           = [i \in DOMAIN Listed |-> [original |-> Label(Listed[i]), replaced |-> texts[i]]]
    BY <1>1, <1>2, <1>3 DEF Label
  <1> QED BY <1>1, <1>4, <1>5 DEF AnsweredInv

LEMMA AnsweredStep ==
    ASSUME AnsweredInv, [EngineNext]_vars
    PROVE  AnsweredInv'
  <1>1. CASE LeaveUntouched
    <2>1. Answer("none", <<>>, <<>>)
      BY <1>1 DEF LeaveUntouched
    <2>2. origin' = "none" /\ content' = content /\ replaced' = Spliced(<<>>, <<>>) /\ mappings' = <<>>
      BY <2>1 DEF Answer
    <2> QED BY <2>2, NothingSpliced DEF AnsweredInv
  <1>2. CASE ReplaceWithTokens
    <2>1. Answer("token", Listed, Tokens(Listed))
      BY <1>2 DEF ReplaceWithTokens, Listed
    <2> QED BY <2>1, AnswerMade
  <1>3. ASSUME Answer("fallback", Listed, FallbackTexts(Listed))
        PROVE  AnsweredInv'
    BY <1>3, AnswerMade
  <1>4. CASE RewriteWithPlaceholders
    BY <1>3, <1>4 DEF RewriteWithPlaceholders, Listed
  <1>5. ASSUME NEW n \in 0..MaxItems, NEW items \in [1..n -> Outputs], RewriteWithModel(items)
        PROVE  AnsweredInv'
    <2>1. CASE Parses(items, Listed)
      <3>1. Answer("model", Listed, Rewritten(items, Listed))
        BY <1>5, <2>1 DEF RewriteWithModel, Listed
      <3>2. origin' = "model"
        BY <3>1 DEF Answer
      <3> QED BY <3>2 DEF AnsweredInv
    <2>2. CASE ~Parses(items, Listed)
      <3>1. Answer("fallback", Listed, FallbackTexts(Listed))
        BY <1>5, <2>2 DEF RewriteWithModel, Rewritten, Listed
      <3> QED BY <1>3, <3>1
    <2> QED BY <2>1, <2>2
  <1>6. CASE StartRestore \/ (\E i \in pending : RestoreNext(i)) \/ UNCHANGED vars
    <2>1. UNCHANGED <<content, shown, origin, mappings, replaced>> /\ (pass' = pass \/ pass = "answered")
      BY <1>6 DEF StartRestore, RestoreNext, vars, detectorVars, previewVars
    <2>2. Listed' = Listed
      BY <2>1 DEF Listed
    <2>3. Texts' = Texts
      BY <2>1, <2>2 DEF Texts
    <2>4. Spliced(Listed, Texts)' = Spliced(Listed, Texts)
      BY <2>1, <2>2, <2>3 DEF Spliced
    <2>5. [i \in DOMAIN Listed |-> [original |-> Label(Listed[i]), replaced |-> Texts[i]]]'
             = [i \in DOMAIN Listed |-> [original |-> Label(Listed[i]), replaced |-> Texts[i]]]
      BY <2>1, <2>2, <2>3 DEF Label
    <2> QED BY <2>1, <2>4, <2>5 DEF AnsweredInv
  <1>7. CASE DetectionStep \/ Return
    <2>1. pass' \notin {"answered", "restoring"}
      BY <1>7 DEF DetectionStep, DetectorStep, Detect, SelectNext, FindStrict, Return
    <2> QED BY <2>1 DEF AnsweredInv
  <1> QED BY <1>1, <1>2, <1>4, <1>5, <1>6, <1>7 DEF EngineNext

LEMMA RestoringStep ==
    ASSUME SelectionInv, ShownInv, SelectedDisjoint, AnsweredInv, RestoringInv, [EngineNext]_vars
    PROVE  RestoringInv'
  <1>1. ASSUME UNCHANGED <<content, shown, origin>>
        PROVE  UNCHANGED <<Listed, Texts, Invertible>>
    BY <1>1 DEF Listed, Texts, Invertible, OrdinaryContent
  <1>2. CASE StartRestore
    <2>1. /\ pass = "answered" /\ restored' = replaced /\ pending' = DOMAIN mappings
          /\ UNCHANGED <<content, shown, origin, mappings>>
      BY <1>2 DEF StartRestore
    <2>2. UNCHANGED <<Listed, Texts, Invertible>>
      BY <1>1, <2>1
    <2>3. ASSUME Invertible
          PROVE  restored' = Unfinished'
      <3>1. origin \in {"token", "fallback"}
        BY <2>3 DEF Invertible
      <3>2. replaced = Spliced(Listed, Texts) /\ pending' = DOMAIN Listed
        BY <2>1, <3>1 DEF AnsweredInv
      <3>3. Mixed(Listed, Texts, pending)' = Mixed(Listed, Texts, DOMAIN Listed)
        BY <2>1, <2>2, <3>2 DEF Mixed, Label
      <3>4. Mixed(Listed, Texts, pending)' = Texts
        BY <3>3, AllMixed
      <3>5. Unfinished' = Spliced(Listed, Texts)
        BY <2>1, <2>2, <3>4 DEF Unfinished, Spliced
      <3> QED BY <2>1, <3>2, <3>5
    <2> QED BY <2>1, <2>2, <2>3 DEF RestoringInv, AnsweredInv
  <1>3. ASSUME NEW i \in pending, RestoreNext(i)
        PROVE  RestoringInv'
    <2>1. /\ pass = "restoring" /\ LongestPending(i)
          /\ restored' = Substitute(restored, mappings[i].replaced, mappings[i].original)
          /\ pending' = pending \ {i}
          /\ UNCHANGED <<content, shown, origin, mappings>>
      BY <1>3 DEF RestoreNext, detectorVars
    <2>2. UNCHANGED <<Listed, Texts, Invertible>>
      BY <1>1, <2>1
    <2>3. pending \subseteq DOMAIN mappings /\ (origin = "none" => mappings = <<>>)
      BY <2>1 DEF RestoringInv, AnsweredInv
    <2>4. origin # "none"
      BY <2>3
    <2>5. ASSUME Invertible
          PROVE  restored' = Unfinished'
      <3>1. origin \in {"token", "fallback"}
        BY <2>5 DEF Invertible
      <3>2. mappings = [j \in DOMAIN Listed |-> [original |-> Label(Listed[j]), replaced |-> Texts[j]]]
        BY <2>1, <3>1 DEF AnsweredInv
      <3>3. /\ DOMAIN mappings = DOMAIN Listed
            /\ \A j \in DOMAIN Listed : mappings[j].original = Label(Listed[j]) /\ mappings[j].replaced = Texts[j]
        BY <3>2
      <3> DEFINE U == Atoms(Listed)
      <3>4. content \in Seq(U) /\ \E H : Marks(U, Listed, Texts, H)
        BY <2>5, TextsMark
      <3> HIDE DEF U
      <3>5. PICK H : Marks(U, Listed, Texts, H)
        BY <3>4
      <3>6. InLine(Listed) /\ DOMAIN Listed = 1..Len(Listed)
        BY ListedFacts
      <3>7. Longest(Listed, Texts, pending, i)
        <4>1. i \in 1..Len(Listed)
          BY <2>3, <3>3, <3>6
        <4>2. ASSUME NEW j \in 1..Len(Listed), j \in pending
              PROVE  Len(Texts[j]) <= Len(Texts[i])
          <5>1. Texts[j] \in Seq(U) /\ Texts[i] \in Seq(U)
            BY <3>5, <4>1 DEF Marks, TextsOf
          <5>2. Len(Texts[j]) \in Nat /\ Len(Texts[i]) \in Nat
            BY <5>1
          <5>3. mappings[j].replaced = Texts[j] /\ mappings[i].replaced = Texts[i]
            BY <3>3, <3>6, <4>1
          <5>4. Len(Texts[i]) > Len(Texts[j]) \/ Len(Texts[i]) = Len(Texts[j])
            BY <2>1, <4>2, <5>3 DEF LongestPending
          <5> QED BY <5>2, <5>4
        <4> QED BY <4>1, <4>2 DEF Longest
      <3>8. Substitute(Spliced(Listed, Mixed(Listed, Texts, pending)), Texts[i], Label(Listed[i]))
               = Spliced(Listed, Mixed(Listed, Texts, pending \ {i}))
        BY <3>4, <3>5, <3>6, <3>7, RestoreOne
      <3>9. restored = Spliced(Listed, Mixed(Listed, Texts, pending))
        BY <2>1, <2>5 DEF RestoringInv, Unfinished
      <3>10. restored' = Spliced(Listed, Mixed(Listed, Texts, pending \ {i}))
        <4>1. i \in DOMAIN Listed
          BY <2>3, <3>3
        <4> QED BY <2>1, <3>3, <3>8, <3>9, <4>1
      <3>11. Mixed(Listed, Texts, pending)' = Mixed(Listed, Texts, pending \ {i})
        BY <2>1, <2>2 DEF Mixed, Label
      <3>12. Unfinished' = Spliced(Listed, Mixed(Listed, Texts, pending \ {i}))
        BY <2>1, <2>2, <3>11 DEF Unfinished, Spliced
      <3> QED BY <3>10, <3>12
    <2> QED BY <2>1, <2>2, <2>3, <2>4, <2>5 DEF RestoringInv
  <1>4. CASE UNCHANGED vars
    <2>1. UNCHANGED <<content, shown, origin, mappings, pending, restored, pass>>
      BY <1>4 DEF vars, detectorVars, previewVars
    <2> QED BY <2>1, TextsKept DEF RestoringInv
  <1>5. CASE \/ DetectionStep \/ Return \/ LeaveUntouched \/ ReplaceWithTokens \/ RewriteWithPlaceholders
             \/ \E n \in 0..MaxItems : \E items \in [1..n -> Outputs] : RewriteWithModel(items)
    <2>1. pass' # "restoring"
      BY <1>5 DEF DetectionStep, DetectorStep, Detect, SelectNext, FindStrict, Return, LeaveUntouched,
                  ReplaceWithTokens, RewriteWithPlaceholders, RewriteWithModel, Answer
    <2> QED BY <2>1 DEF RestoringInv
  <1> QED BY <1>2, <1>3, <1>4, <1>5 DEF EngineNext

\* Restoring an answered text gives the content back, always for tokens, and
\* for the deterministic placeholders unless the content has one of its own or
\* goes on with a digit where one ends: substituting the longest text first,
\* each puts back its own span and touches no other, whatever the spans, the
\* types and their counters are.
THEOREM RestoreGivesBack == EngineSpec => []RoundTrip
  <1>1. EngineInit => AnsweredInv /\ RestoringInv
    BY DEF EngineInit, DetectorInit, AnsweredInv, RestoringInv
  <1>2. SelectionInv /\ ShownInv /\ SelectedDisjoint /\ AnsweredInv /\ RestoringInv => RoundTrip
    <2> SUFFICES ASSUME SelectionInv, ShownInv, SelectedDisjoint, RestoringInv, pass = "restoring", pending = {},
                        origin = "none" \/ Invertible
                 PROVE  restored = content
      BY DEF RoundTrip, Invertible
    <2>1. CASE origin = "none"
      BY <2>1 DEF RestoringInv
    <2>2. CASE Invertible
      <3>1. restored = Spliced(Listed, Mixed(Listed, Texts, {}))
        BY <2>2 DEF RestoringInv, Unfinished
      <3>2. InLine(Listed) /\ content \in Seq(DOMAIN Width)
        BY ListedFacts
      <3>3. Spliced(Listed, Mixed(Listed, Texts, {})) = content
        BY <3>2, NothingPending
      <3> QED BY <3>1, <3>3
    <2> QED BY <2>1, <2>2
  <1> QED BY <1>1, <1>2, ShownHolds, SpansNeverShared, AnsweredStep, RestoringStep, PTL DEF EngineSpec
=================================================================================
