------------------------------ MODULE TemplateProofs ------------------------------
(***************************************************************************)
(* What holds of promoted templates for any drafts, versions and number of *)
(* runs of the script, and of the page that shows them.                    *)
(***************************************************************************)
EXTENDS TemplateApproval, TLAPS

Steps == {"idle", "validated", "checked", "writing"}

ScriptTypeOK ==
    /\ approved \in [Versions -> Files \cup {NoFile, Partial}]
    /\ step \in [Promoters -> Steps]
    /\ target \in [Promoters -> Versions]
    /\ data \in [Promoters -> Drafts \cup {NoFile}]
    /\ raced \in [Promoters -> BOOLEAN]
    /\ shared \in [Promoters -> SUBSET Drafts]
    /\ mixed \in SUBSET Versions

-----------------------------------------------------------------------------
(* The invariant.                                                          *)

ValidDrafts == {draft \in Drafts : Valid(draft)}

\* What can be read of an approved file that no two runs had open at once is
\* what the promotion made of a valid draft.
PublishedFrom ==
    \A v \in Versions \ mixed :
        Whole(approved[v]) => \E draft \in ValidDrafts : approved[v] = Promoted(draft)

\* A run past its validation still holds what it has validated.
HoldsValid == \A p \in Promoters : step[p] # "idle" => data[p] \in ValidDrafts

\* What a run may assume of its target, and since when it may not.
CheckedFree ==
    \A p \in Promoters : step[p] = "checked" => approved[target[p]] = NoFile \/ raced[p]

WritingOwns ==
    \A p \in Promoters : step[p] = "writing" =>
        /\ approved[target[p]] # NoFile
        /\ approved[target[p]] = Partial \/ shared[p] # {}

SharersKnow ==
    \A p, q \in Promoters :
        step[p] = "writing" /\ step[q] = "writing" /\ target[p] = target[q] /\ p # q => shared[p] # {}

SharedIsMixed ==
    \A p \in Promoters : step[p] = "writing" /\ shared[p] # {} => target[p] \in mixed

ScriptInv ==
    /\ ScriptTypeOK /\ PublishedFrom /\ HoldsValid
    /\ CheckedFree /\ WritingOwns /\ SharersKnow /\ SharedIsMixed

\* Whether a draft is valid does not change.
LEMMA ValidDraftsConstant == ValidDrafts' = ValidDrafts
  BY DEF ValidDrafts, Valid, Consistent, NoDuplicates, PlaceholdersHaveFields, Required, Names, Fields

LEMMA ScriptInit == TemplateInit => ScriptInv
  BY TemplateAssumption
  DEF TemplateInit, ScriptInv, ScriptTypeOK, Steps, PublishedFrom, HoldsValid, CheckedFree,
      WritingOwns, SharersKnow, SharedIsMixed, Whole

\* A run that ends gives up what it held; the others go on as they were.
LEMMA ExitFacts ==
    ASSUME ScriptInv, NEW p \in Promoters, Exit(p)
    PROVE  /\ step' \in [Promoters -> Steps] /\ target' \in [Promoters -> Versions]
           /\ data' \in [Promoters -> Drafts \cup {NoFile}]
           /\ raced' \in [Promoters -> BOOLEAN] /\ shared' \in [Promoters -> SUBSET Drafts]
           /\ step'[p] = "idle"
           /\ \A q \in Promoters \ {p} :
                 /\ step'[q] = step[q] /\ target'[q] = target[q] /\ data'[q] = data[q]
                 /\ raced'[q] = raced[q] /\ shared'[q] = shared[q]
  BY TemplateAssumption DEF Exit, ScriptInv, ScriptTypeOK, Steps

LEMMA ValidateInv ==
    ASSUME ScriptInv, NEW p \in Promoters, NEW draft \in Drafts, NEW version \in Versions,
           Validate(p, draft, version)
    PROVE  ScriptInv'
  <1>1. ScriptTypeOK'
    BY DEF Validate, ScriptInv, ScriptTypeOK, Steps
  <1>2. /\ step'[p] = "validated" /\ data'[p] = draft /\ draft \in ValidDrafts /\ approved' = approved
        /\ \A q \in Promoters \ {p} :
              step'[q] = step[q] /\ target'[q] = target[q] /\ data'[q] = data[q]
        /\ raced' = raced /\ shared' = shared /\ mixed' = mixed
    BY DEF Validate, ScriptInv, ScriptTypeOK, ValidDrafts
  <1>3. PublishedFrom'
    BY ValidDraftsConstant, <1>2 DEF ScriptInv, PublishedFrom, Whole
  <1>4. HoldsValid'
    BY ValidDraftsConstant, <1>2 DEF ScriptInv, HoldsValid
  <1>5. CheckedFree' /\ WritingOwns' /\ SharersKnow' /\ SharedIsMixed'
    BY <1>2 DEF ScriptInv, CheckedFree, WritingOwns, SharersKnow, SharedIsMixed
  <1> QED BY <1>1, <1>3, <1>4, <1>5 DEF ScriptInv

\* A step that ends a run without touching a file.
LEMMA LeaveInv ==
    ASSUME ScriptInv, NEW p \in Promoters, Exit(p), UNCHANGED <<approved, mixed>>
    PROVE  ScriptInv'
  <1>1. ScriptTypeOK'
    BY ExitFacts DEF ScriptInv, ScriptTypeOK
  <1>2. PublishedFrom'
    BY ValidDraftsConstant DEF ScriptInv, PublishedFrom, Whole
  <1>3. HoldsValid'
    BY ValidDraftsConstant, ExitFacts DEF ScriptInv, HoldsValid
  <1>4. CheckedFree' /\ WritingOwns' /\ SharersKnow' /\ SharedIsMixed'
    BY ExitFacts DEF ScriptInv, CheckedFree, WritingOwns, SharersKnow, SharedIsMixed
  <1> QED BY <1>1, <1>2, <1>3, <1>4 DEF ScriptInv

LEMMA CheckTargetInv ==
    ASSUME ScriptInv, NEW p \in Promoters, CheckTarget(p)
    PROVE  ScriptInv'
  <1>1. CASE ~CheckPasses(p)
    BY <1>1, LeaveInv DEF CheckTarget
  <1>2. CASE CheckPasses(p)
    <2>1. /\ step' = [step EXCEPT ![p] = "checked"] /\ step[p] = "validated"
          /\ UNCHANGED <<approved, target, data, raced, shared, mixed>>
          /\ approved[target[p]] = NoFile
      BY <1>2 DEF CheckTarget, CheckPasses
    <2>2. ScriptTypeOK'
      BY <2>1 DEF ScriptInv, ScriptTypeOK, Steps
    <2>3. PublishedFrom'
      BY ValidDraftsConstant, <2>1 DEF ScriptInv, PublishedFrom, Whole
    <2>4. HoldsValid'
      BY ValidDraftsConstant, <2>1 DEF ScriptInv, ScriptTypeOK, HoldsValid
    <2>5. CheckedFree' /\ WritingOwns' /\ SharersKnow' /\ SharedIsMixed'
      BY <2>1 DEF ScriptInv, ScriptTypeOK, CheckedFree, WritingOwns, SharersKnow, SharedIsMixed
    <2> QED BY <2>2, <2>3, <2>4, <2>5 DEF ScriptInv
  <1> QED BY <1>1, <1>2

\* Opening the target tells the runs that have looked at it, and those that
\* have it open, that they are not alone.
LEMMA OpenTargetInv ==
    ASSUME ScriptInv, NEW p \in Promoters, OpenTarget(p)
    PROVE  ScriptInv'
  <1> DEFINE others(at) == {q \in Promoters \ {p} : target[q] = target[p] /\ step[q] = at}
  <1>1. /\ step' = [step EXCEPT ![p] = "writing"] /\ step[p] = "checked"
        /\ approved' = [approved EXCEPT ![target[p]] = Partial]
        /\ UNCHANGED <<target, data>>
        /\ raced' = [q \in Promoters |-> raced[q] \/ q \in others("checked")]
        /\ shared' = [q \in Promoters |->
               IF q = p THEN {data[other] : other \in others("writing")}
               ELSE shared[q] \cup (IF q \in others("writing") THEN {data[p]} ELSE {})]
        /\ mixed' = IF others("writing") = {} THEN mixed \ {target[p]} ELSE mixed \cup {target[p]}
    BY DEF OpenTarget
  <1>a. \A q \in Promoters : step[q] # "idle" => data[q] \in Drafts
    BY DEF ScriptInv, HoldsValid, ValidDrafts
  <1>b. shared' \in [Promoters -> SUBSET Drafts]
    <2>1. data[p] \in Drafts /\ \A q \in others("writing") : data[q] \in Drafts
      BY <1>1, <1>a
    <2>2. shared \in [Promoters -> SUBSET Drafts]
      BY DEF ScriptInv, ScriptTypeOK
    <2> HIDE DEF others
    <2> QED BY <1>1, <2>1, <2>2
  <1>2. ScriptTypeOK'
    BY <1>1, <1>b DEF ScriptInv, ScriptTypeOK, Steps
  <1>3. PublishedFrom'
    BY ValidDraftsConstant, <1>1 DEF ScriptInv, ScriptTypeOK, PublishedFrom, Whole
  <1>4. HoldsValid'
    BY ValidDraftsConstant, <1>1 DEF ScriptInv, ScriptTypeOK, HoldsValid
  <1>5. Partial # NoFile
    BY TemplateAssumption
  <1>6. CheckedFree'
    BY <1>1 DEF ScriptInv, ScriptTypeOK, CheckedFree
  <1>7. WritingOwns'
    BY <1>1, <1>5 DEF ScriptInv, ScriptTypeOK, WritingOwns
  <1>8. SharersKnow'
    <2> SUFFICES ASSUME NEW q \in Promoters, NEW r \in Promoters, step'[q] = "writing", step'[r] = "writing",
                        target[q] = target[r], q # r
                 PROVE  shared'[q] # {}
      BY <1>1 DEF SharersKnow
    <2>1. \A t \in Promoters \ {p} : step'[t] = step[t]
      BY <1>1 DEF ScriptInv, ScriptTypeOK
    <2>2. CASE q = p
      <3>1. r \in others("writing")
        BY <2>1, <2>2
      <3>2. shared'[p] = {data[other] : other \in others("writing")}
        BY <1>1
      <3> HIDE DEF others
      <3> QED BY <2>2, <3>1, <3>2
    <2>3. CASE q # p
      <3>1. shared'[q] = shared[q] \cup (IF q \in others("writing") THEN {data[p]} ELSE {})
        BY <1>1, <2>3
      <3>2. CASE r = p
        <4>1. q \in others("writing")
          BY <2>1, <2>3, <3>2
        <4> QED BY <3>1, <4>1
      <3>3. CASE r # p
        BY <2>1, <2>3, <3>1, <3>3 DEF ScriptInv, SharersKnow
      <3> QED BY <3>2, <3>3
    <2> QED BY <2>2, <2>3
  <1>9. SharedIsMixed'
    BY <1>1 DEF ScriptInv, ScriptTypeOK, SharedIsMixed
  <1> QED BY <1>2, <1>3, <1>4, <1>6, <1>7, <1>8, <1>9 DEF ScriptInv

\* A run that has its target open leaves there what it may have written.
LEMMA FillInv ==
    ASSUME ScriptInv, NEW p \in Promoters, step[p] = "writing", NEW content \in Written(p),
           approved' = [approved EXCEPT ![target[p]] = content], mixed' = mixed, Exit(p)
    PROVE  ScriptInv'
  <1>2. step[p] = "writing" /\ Exit(p)
    OBVIOUS
  <1>3. data[p] \in ValidDrafts /\ data[p] \in Drafts /\ shared[p] \in SUBSET Drafts
    BY DEF ScriptInv, ScriptTypeOK, HoldsValid, ValidDrafts
  <1>4. content # NoFile /\ content \in Files \cup {Partial}
    <2>1. \A draft \in Drafts : Promoted(draft) \in Files
      BY TemplateAssumption DEF Promoted, Files
    <2>2. \A drafts \in SUBSET Drafts : Mixtures(drafts) \subseteq Files \cup {Partial}
      <3> SUFFICES ASSUME NEW drafts \in SUBSET Drafts, NEW file \in Mixtures(drafts), file # Partial
                   PROVE  file \in Files
        OBVIOUS
      <3>1. \A draft \in drafts : draft \in Drafts /\ draft \in Files
        BY TemplateAssumption
      <3>2. {draft.sound : draft \in drafts} \subseteq BOOLEAN
        BY <3>1 DEF Files
      <3>3. /\ {draft.fields : draft \in drafts} \subseteq {draft.fields : draft \in Drafts}
            /\ {draft.placeholders : draft \in drafts} \subseteq {draft.placeholders : draft \in Drafts}
            /\ {draft.requiredRules : draft \in drafts} \subseteq {draft.requiredRules : draft \in Drafts}
        BY <3>1
      <3> QED BY <3>2, <3>3 DEF Mixtures, Files
    <2>3. shared[p] \cup {data[p]} \in SUBSET Drafts
      BY <1>3
    <2>4. content \in Files \cup {Partial}
      BY <1>3, <2>1, <2>2, <2>3 DEF Written
    <2> QED BY <2>4, TemplateAssumption
  <1>5. /\ approved' \in [Versions -> Files \cup {NoFile, Partial}]
        /\ approved'[target[p]] = content
        /\ \A v \in Versions : v # target[p] => approved'[v] = approved[v]
        /\ target[p] \in Versions
    BY <1>4 DEF ScriptInv, ScriptTypeOK
  <1>6. ScriptTypeOK'
    BY <1>2, <1>5, ExitFacts DEF ScriptInv, ScriptTypeOK
  <1>7. PublishedFrom'
    <2>1. target[p] \in mixed \/ content = Promoted(data[p])
      BY DEF ScriptInv, SharedIsMixed, Written
    <2> QED BY ValidDraftsConstant, <1>3, <1>5, <2>1 DEF ScriptInv, PublishedFrom, Whole, Promoted
  <1>8. HoldsValid'
    BY ValidDraftsConstant, <1>2, ExitFacts DEF ScriptInv, HoldsValid
  <1>9. ASSUME NEW q \in Promoters \ {p}
        PROVE  /\ step'[q] = step[q] /\ target'[q] = target[q] /\ target[q] \in Versions
               /\ raced'[q] = raced[q] /\ shared'[q] = shared[q]
    BY <1>2, ExitFacts DEF ScriptInv, ScriptTypeOK
  <1>10. step'[p] = "idle"
    BY <1>2, ExitFacts
  <1>11. CheckedFree'
    <2> SUFFICES ASSUME NEW q \in Promoters \ {p}, step[q] = "checked"
                 PROVE  approved'[target[q]] = NoFile \/ raced[q]
      BY <1>9, <1>10 DEF CheckedFree
    <2>1. CASE target[q] = target[p]
      BY <1>2, <2>1 DEF ScriptInv, CheckedFree, WritingOwns
    <2>2. CASE target[q] # target[p]
      BY <1>5, <1>9, <2>2 DEF ScriptInv, CheckedFree
    <2> QED BY <2>1, <2>2
  <1>12. WritingOwns'
    <2> SUFFICES ASSUME NEW q \in Promoters \ {p}, step[q] = "writing"
                 PROVE  /\ approved'[target[q]] # NoFile
                        /\ approved'[target[q]] = Partial \/ shared[q] # {}
      BY <1>9, <1>10 DEF WritingOwns
    <2>1. CASE target[q] = target[p]
      BY <1>2, <1>4, <1>5, <2>1 DEF ScriptInv, SharersKnow
    <2>2. CASE target[q] # target[p]
      BY <1>5, <1>9, <2>2 DEF ScriptInv, WritingOwns
    <2> QED BY <2>1, <2>2
  <1>13. SharersKnow'
    BY <1>9, <1>10 DEF ScriptInv, SharersKnow
  <1>14. SharedIsMixed'
    BY <1>9, <1>10 DEF ScriptInv, SharedIsMixed
  <1> QED BY <1>6, <1>7, <1>8, <1>11, <1>12, <1>13, <1>14 DEF ScriptInv

LEMMA PageInv ==
    ASSUME ScriptInv, UNCHANGED scriptVars
    PROVE  ScriptInv'
  BY ValidDraftsConstant
  DEF ScriptInv, ScriptTypeOK, PublishedFrom, HoldsValid, CheckedFree, WritingOwns, SharersKnow,
      SharedIsMixed, scriptVars, Whole

PageStep ==
    \/ \E version \in Versions : SelectTemplate(version)
    \/ TemplateLoaded \/ LoadingFails \/ ReloadPage
    \/ page = "ready" /\ \E key \in Keys(template), blank \in BOOLEAN : UpdateField(key, blank)
    \/ \E keys \in SUBSET SampleKeys : ReplaceValues(keys)

LEMMA ScriptStep == ScriptInv /\ [TemplateNext]_vars => ScriptInv'
  <1> SUFFICES ASSUME ScriptInv, [TemplateNext]_vars
               PROVE  ScriptInv'
    OBVIOUS
  <1>1. ASSUME NEW p \in Promoters, Kill(p)
        PROVE  ScriptInv'
    BY <1>1, LeaveInv, FillInv DEF Kill
  <1>4. ASSUME NEW p \in Promoters, WriteTarget(p)
        PROVE  ScriptInv'
    BY <1>4, FillInv DEF WriteTarget
  <1>2. ASSUME PageStep \/ UNCHANGED vars
        PROVE  UNCHANGED scriptVars
    BY <1>2 DEF PageStep, SelectTemplate, TemplateLoaded, LoadingFails, ReloadPage, UpdateField,
                ReplaceValues, vars, scriptVars
  <1>3. ASSUME PageStep \/ UNCHANGED vars
        PROVE  ScriptInv'
    BY <1>2, <1>3, PageInv
  <1> QED
    BY <1>1, <1>3, <1>4, ValidateInv, CheckTargetInv, OpenTargetInv DEF TemplateNext, PageStep

LEMMA ScriptInvHolds == TemplateSpec => []ScriptInv
  BY ScriptInit, ScriptStep, PTL DEF TemplateSpec

-----------------------------------------------------------------------------

\* However many runs of the script race and are killed, a file that can be
\* read is approved in status and approval and its parts agree, unless two
\* runs had it open at once: only valid drafts are promoted, unchanged but for
\* what the promotion itself sets.
THEOREM ApprovedIsValid == TemplateSpec => []PublishedValid
  <1>1. ASSUME NEW draft \in ValidDrafts
        PROVE  /\ Consistent(Promoted(draft))
               /\ Promoted(draft).status = "approved" /\ Promoted(draft).approval
    <2> DEFINE file == Promoted(draft)
    <2>1. Consistent(draft) /\ draft \in Files
      BY TemplateAssumption DEF ValidDrafts, Valid
    <2>2. /\ file.fields = draft.fields /\ file.placeholders = draft.placeholders
          /\ file.requiredRules = draft.requiredRules /\ file.sound = draft.sound
          /\ file.status = "approved" /\ file.approval
      BY <2>1 DEF Promoted, Files
    <2> HIDE DEF file
    <2>3. Consistent(file)
      BY <2>1, <2>2 DEF Consistent, NoDuplicates, PlaceholdersHaveFields, Required, Names, Fields
    <2> QED BY <2>2, <2>3 DEF file
  <1>2. ScriptInv => PublishedValid
    BY <1>1 DEF ScriptInv, PublishedFrom, PublishedValid
  <1> QED BY <1>2, ScriptInvHolds, PTL

\* Only the window between exists() and open("w") lets a run replace what
\* another one has approved.
THEOREM OnlyRacesOverwrite == TemplateSpec => OverwrittenOnlyInRace
  <1> DEFINE Step == \A v \in Versions :
           approved[v] # NoFile /\ approved'[v] # approved[v]
               => \E p \in {q \in Promoters : target[q] = v} :
                      \/ step[p] = "checked" /\ raced[p]
                      \/ step[p] = "writing" /\ (approved[v] = Partial \/ shared[p] # {})
  <1>1. ScriptInv /\ [TemplateNext]_vars => [Step]_vars
    <2> SUFFICES ASSUME ScriptInv, TemplateNext, NEW v \in Versions,
                        approved[v] # NoFile, approved'[v] # approved[v]
                 PROVE  \E p \in {q \in Promoters : target[q] = v} :
                            \/ step[p] = "checked" /\ raced[p]
                            \/ step[p] = "writing" /\ (approved[v] = Partial \/ shared[p] # {})
      OBVIOUS
    <2> DEFINE Fills(p) == /\ step[p] = "writing"
                           /\ \E content : approved' = [approved EXCEPT ![target[p]] = content]
    <2>1. PICK p \in Promoters : OpenTarget(p) \/ Fills(p)
      BY DEF TemplateNext, Validate, CheckTarget, WriteTarget, Kill, SelectTemplate, TemplateLoaded,
             LoadingFails, ReloadPage, UpdateField, ReplaceValues, scriptVars
    <2>2. target[p] = v
      BY <2>1 DEF OpenTarget, ScriptInv, ScriptTypeOK
    <2>3. CASE OpenTarget(p)
      BY <2>2, <2>3 DEF OpenTarget, ScriptInv, CheckedFree
    <2>4. CASE Fills(p)
      BY <2>2, <2>4 DEF ScriptInv, WritingOwns
    <2> QED BY <2>1, <2>3, <2>4
  <1> QED BY <1>1, ScriptInvHolds, PTL DEF TemplateSpec, OverwrittenOnlyInRace

\* A page that is loading has no values yet, so that a loaded template starts
\* without those of the one before it.
OwnInv == DocumentIsOwn /\ (page = "loading" => values = {})

\* What is entered for one template never shows in the document of another.
THEOREM DocumentsKeptApart == TemplateSpec => []DocumentIsOwn
  <1>1. TemplateInit => OwnInv
    BY DEF TemplateInit, OwnInv, DocumentIsOwn
  <1>2. OwnInv /\ [TemplateNext]_vars => OwnInv'
    <2> SUFFICES ASSUME OwnInv, [TemplateNext]_vars
                 PROVE  OwnInv'
      OBVIOUS
    <2>1. ASSUME UNCHANGED pageVars
          PROVE  OwnInv'
      BY <2>1 DEF OwnInv, DocumentIsOwn, pageVars
    <2>2. ASSUME NEW key, NEW blank, NEW keys, UpdateField(key, blank) \/ ReplaceValues(keys)
          PROVE  OwnInv'
      BY <2>2 DEF UpdateField, ReplaceValues, Entries, OwnInv, DocumentIsOwn
    <2>3. ASSUME NEW version, SelectTemplate(version)
          PROVE  OwnInv'
      BY <2>3 DEF SelectTemplate, OwnInv, DocumentIsOwn
    <2>4. ASSUME TemplateLoaded \/ LoadingFails \/ ReloadPage
          PROVE  OwnInv'
      BY <2>4 DEF TemplateLoaded, LoadingFails, ReloadPage, OwnInv, DocumentIsOwn
    <2>5. ASSUME NEW p \in Promoters, NEW draft, NEW version,
                 Validate(p, draft, version) \/ CheckTarget(p) \/ OpenTarget(p) \/ WriteTarget(p) \/ Kill(p)
          PROVE  UNCHANGED pageVars
      BY <2>5 DEF Validate, CheckTarget, OpenTarget, WriteTarget, Kill
    <2> QED BY <2>1, <2>2, <2>3, <2>4, <2>5 DEF TemplateNext, vars, pageVars
  <1>3. OwnInv => DocumentIsOwn
    BY DEF OwnInv
  <1> QED BY <1>1, <1>2, <1>3, PTL DEF TemplateSpec
=================================================================================
