----------------------------- MODULE TemplateApproval -----------------------------
(***************************************************************************)
(* From a draft template to the form that fills it:                        *)
(* scripts/promote_template.py validates a draft and writes it under       *)
(* templates/approved; the template mode of the frontend loads an approved *)
(* file and builds a form and a document from it.                          *)
(*                                                                         *)
(* Several people may run the script at once, and a run may be killed      *)
(* between its check for an existing file and the end of its write.  Of a  *)
(* template only what ties its parts together is kept: the fields, the     *)
(* placeholders of its text, its list of required fields and whether it    *)
(* says that it is approved; `sound' stands for the checks of one key at a *)
(* time.                                                                   *)
(***************************************************************************)
EXTENDS Integers, Sequences, FiniteSets

CONSTANTS
    Drafts,    \* what a draft file may contain:
               \*   [fields, placeholders, requiredRules, sound, status, approval]
    Versions,  \* the versions promoted to; the page's catalog lists them
    First,     \* defaultTemplateCatalogKey
    Promoters, \* the runs of the script
    NoFile,    \* there is no file
    Partial    \* a file that is not a JSON text: empty, cut off or garbled

\* What a file that parses may hold.
Files ==
    [fields : {draft.fields : draft \in Drafts}, placeholders : {draft.placeholders : draft \in Drafts},
     requiredRules : {draft.requiredRules : draft \in Drafts}, sound : BOOLEAN,
     status : {"draft", "review", "approved"}, approval : BOOLEAN]

ASSUME TemplateAssumption ==
    First \in Versions /\ Drafts \subseteq Files /\ NoFile \notin Files /\ NoFile # Partial

VARIABLES
    approved,  \* version -> the file under templates/approved
    step,      \* how far a run of the script is
    target,    \* the version it promotes to
    data,      \* the draft it has loaded and validated
    raced,     \* history: another run opened the target since this one checked it
    shared,    \* the texts other runs had for the target while this one had it open
    mixed,     \* history: the versions two runs had open at once when last opened
    page,      \* state.status of the template mode
    selected,  \* state.selectedTemplateKey
    template,  \* state.template
    values     \* state.values: [name, of]; of, a history, is the version it was entered for

scriptVars == <<approved, step, target, data, raced, shared, mixed>>
pageVars == <<page, selected, template, values>>
vars == <<approved, step, target, data, raced, shared, mixed, page, selected, template, values>>

Whole(file) == file \notin {NoFile, Partial}

Fields(template_) == {template_.fields[i] : i \in DOMAIN template_.fields}
Names(template_) == {field.name : field \in Fields(template_)}

-----------------------------------------------------------------------------
(* validate_template.  A field's name is stripped before it is looked at;  *)
(* `padded' says that the file has blanks around it.                       *)

\* required is True, not merely true
Required(template_) == {field.name : field \in {f \in Fields(template_) : f.required = "True"}}

NoDuplicates(template_) == Cardinality(Names(template_)) = Len(template_.fields)

PlaceholdersHaveFields(template_) == template_.placeholders \subseteq Names(template_)

\* The parts of the file agree with one another.
Consistent(template_) ==
    /\ template_.sound
    /\ template_.fields # <<>>
    /\ NoDuplicates(template_)
    /\ PlaceholdersHaveFields(template_)
    /\ template_.requiredRules = Required(template_)
    /\ Required(template_) \subseteq template_.placeholders

Valid(template_) ==
    /\ template_.status \in {"draft", "review"}
    /\ ~template_.approval
    /\ Consistent(template_)

-----------------------------------------------------------------------------
(* promote_template.py                                                     *)

\* promote_template
Promoted(draft) == [draft EXCEPT !.status = "approved", !.approval = TRUE]

\* main, up to mkdir: the draft is read once.  An invalid draft and a dry run
\* end here.
Validate(p, draft, version) ==
    /\ step[p] = "idle"
    /\ Valid(draft)
    /\ step' = [step EXCEPT ![p] = "validated"]
    /\ target' = [target EXCEPT ![p] = version]
    /\ data' = [data EXCEPT ![p] = draft]
    /\ UNCHANGED <<approved, raced, shared, mixed, pageVars>>

\* The run and what it held in memory are gone.
Exit(p) ==
    /\ step' = [step EXCEPT ![p] = "idle"]
    /\ target' = [target EXCEPT ![p] = First]
    /\ data' = [data EXCEPT ![p] = NoFile]
    /\ raced' = [raced EXCEPT ![p] = FALSE]
    /\ shared' = [shared EXCEPT ![p] = {}]

\* Mutant: an existing file is no reason to stop.
AlwaysPasses(p) == TRUE

CheckPasses(p) == approved[target[p]] = NoFile

\* output_path.exists()
CheckTarget(p) ==
    /\ step[p] = "validated"
    /\ IF CheckPasses(p)
       THEN step' = [step EXCEPT ![p] = "checked"] /\ UNCHANGED <<target, data, raced, shared>>
       ELSE Exit(p)
    /\ UNCHANGED <<approved, mixed, pageVars>>

\* open("w") creates or truncates
OpenTarget(p) ==
    /\ step[p] = "checked"
    /\ step' = [step EXCEPT ![p] = "writing"]
    /\ approved' = [approved EXCEPT ![target[p]] = Partial]
    /\ LET others(at) == {q \in Promoters \ {p} : target[q] = target[p] /\ step[q] = at}
       IN /\ raced' = [q \in Promoters |-> raced[q] \/ q \in others("checked")]
          /\ shared' = [q \in Promoters |->
                 IF q = p THEN {data[other] : other \in others("writing")}
                 ELSE shared[q] \union (IF q \in others("writing") THEN {data[p]} ELSE {})]
          /\ mixed' = IF others("writing") = {} THEN mixed \ {target[p]} ELSE mixed \union {target[p]}
    /\ UNCHANGED <<target, data, pageVars>>

\* Runs that have the file open write their buffers over one another from its
\* start: what is left is no JSON text, or one with parts of several drafts.
Mixtures(drafts) ==
    {Partial} \union
    [fields : {d.fields : d \in drafts}, placeholders : {d.placeholders : d \in drafts},
     requiredRules : {d.requiredRules : d \in drafts}, sound : {d.sound : d \in drafts},
     status : {"approved"}, approval : {TRUE}]

\* Mutant: the draft is read again when it is written.
WrittenAnew(p) == {Promoted(draft) : draft \in Drafts}

\* What the file may hold when the run is through with it.
Written(p) == IF shared[p] = {} THEN {Promoted(data[p])} ELSE Mixtures(shared[p] \union {data[p]})

\* json.dump and close
WriteTarget(p) ==
    /\ step[p] = "writing"
    /\ \E content \in Written(p) : approved' = [approved EXCEPT ![target[p]] = content]
    /\ Exit(p)
    /\ UNCHANGED <<mixed, pageVars>>

\* The run is killed; what it has opened stays behind, with as much as it had
\* written of it.
Kill(p) ==
    /\ step[p] # "idle"
    /\ \/ UNCHANGED approved
       \/ /\ step[p] = "writing" /\ shared[p] # {}
          /\ \E content \in Written(p) : approved' = [approved EXCEPT ![target[p]] = content]
    /\ Exit(p)
    /\ UNCHANGED <<mixed, pageVars>>

-----------------------------------------------------------------------------
(* template-mode-main.js                                                   *)

\* The name by which the form keeps a field's value.
Key(field) == [name |-> field.name, padded |-> field.padded]
Keys(template_) == {Key(field) : field \in Fields(template_)}

\* Mutant: the values survive the change of the template.
SelectTemplateKeeping(version) ==
    /\ page = "ready"
    /\ version # selected
    /\ selected' = version
    /\ page' = "loading"
    /\ UNCHANGED <<scriptVars, template, values>>

\* The select's change handler; it is rendered with a ready template only.
SelectTemplate(version) ==
    /\ page = "ready"
    /\ version # selected
    /\ selected' = version
    /\ values' = {}
    /\ page' = "loading"
    /\ UNCHANGED <<scriptVars, template>>

\* loadSelectedTemplate goes on: the file is there and parses ...
TemplateLoaded ==
    /\ page = "loading"
    /\ Whole(approved[selected])
    /\ template' = approved[selected]
    /\ page' = "ready"
    /\ UNCHANGED <<scriptVars, selected, values>>

\* ... or not, or the fetch failed.
LoadingFails ==
    /\ page = "loading"
    /\ page' = "error"
    /\ UNCHANGED <<scriptVars, selected, template, values>>

\* The error shell has no controls: only reloading the page helps.
ReloadPage ==
    /\ page' = "loading"
    /\ selected' = First
    /\ template' = NoFile
    /\ values' = {}
    /\ UNCHANGED scriptVars

Entries(keys) == {[key |-> key, of |-> selected] : key \in keys}

\* The value of one field is merged into those there are; a blank one counts
\* as none.
UpdateField(key, blank) ==
    /\ page = "ready"
    /\ values' = {value \in values : value.key # key} \union Entries(IF blank THEN {} ELSE {key})
    /\ UNCHANGED <<scriptVars, page, selected, template>>

\* fillSampleValues and resetValues replace them all.  The file's own
\* sample_values may name anything.
SampleKeys == UNION {Keys(draft) : draft \in Drafts}

ReplaceValues(keys) ==
    /\ page = "ready"
    /\ values' = Entries(keys)
    /\ UNCHANGED <<scriptVars, page, selected, template>>

-----------------------------------------------------------------------------

TemplateInit ==
    /\ approved = [v \in Versions |-> NoFile]
    /\ step = [p \in Promoters |-> "idle"]
    /\ target = [p \in Promoters |-> First]
    /\ data = [p \in Promoters |-> NoFile]
    /\ raced = [p \in Promoters |-> FALSE]
    /\ shared = [p \in Promoters |-> {}]
    /\ mixed = {}
    /\ page = "loading"
    /\ selected = First
    /\ template = NoFile
    /\ values = {}

TemplateNext ==
    \/ \E p \in Promoters :
           \/ step[p] = "idle" /\ \E draft \in Drafts, version \in Versions : Validate(p, draft, version)
           \/ CheckTarget(p) \/ OpenTarget(p) \/ WriteTarget(p) \/ Kill(p)
    \/ \E version \in Versions : SelectTemplate(version)
    \/ TemplateLoaded \/ LoadingFails \/ ReloadPage
    \/ page = "ready" /\ \E key \in Keys(template), blank \in BOOLEAN : UpdateField(key, blank)
    \/ \E keys \in SUBSET SampleKeys : ReplaceValues(keys)

TemplateSpec == TemplateInit /\ [][TemplateNext]_vars

-----------------------------------------------------------------------------

\* A file under templates/approved that can be read carries its approval, and
\* its parts agree as validate_template asks, whatever is edited, raced or
\* killed: what was validated is what is written.  Only a file that two runs
\* had open at once may be a mixture of theirs.
PublishedValid ==
    \A v \in Versions \ mixed :
        Whole(approved[v]) =>
            Consistent(approved[v]) /\ approved[v].status = "approved" /\ approved[v].approval

\* An approved file is replaced only by a run that had looked for it before
\* another one created it: "Refusing to overwrite existing approved template".
OverwrittenOnlyInRace ==
    [][\A v \in Versions :
           approved[v] # NoFile /\ approved'[v] # approved[v]
               => \E p \in {q \in Promoters : target[q] = v} :
                      \/ step[p] = "checked" /\ raced[p]
                      \/ step[p] = "writing" /\ (approved[v] = Partial \/ shared[p] # {})]_vars

\* The document on the page holds only what was entered for its own template.
DocumentIsOwn == page = "ready" => \A value \in values : value.of = selected
=============================================================================
