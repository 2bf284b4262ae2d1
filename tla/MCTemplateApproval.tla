--------------------------- MODULE MCTemplateApproval ---------------------------
(***************************************************************************)
(* Templates of no field, of one, and of two with distinct or the same     *)
(* name; texts with placeholders for both names, one or none.  Three of    *)
(* the drafts are valid, and two of their mixtures are not.                *)
(***************************************************************************)
EXTENDS TemplateApproval, TLC

Field(name, padded, required) == [name |-> name, padded |-> padded, required |-> required]
Plain(name) == Field(name, FALSE, "True")

DraftsOf(fieldLists) ==
    [fields : fieldLists, placeholders : SUBSET {"a", "b"}, requiredRules : SUBSET {"a", "b"},
     sound : BOOLEAN, status : {"draft", "approved"}, approval : BOOLEAN]

MCDrafts ==
    DraftsOf({<<>>, <<Plain("a")>>, <<Plain("a"), Plain("a")>>, <<Plain("a"), Field("b", FALSE, "False")>>})

MCSymmetry == Permutations(Promoters)
=============================================================================
