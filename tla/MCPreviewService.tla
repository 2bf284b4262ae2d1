------------------------------ MODULE MCPreviewService ------------------------------
(***************************************************************************)
(* Small instances of PreviewService.                                      *)
(***************************************************************************)
EXTENDS PreviewService, TLC

\* no definition names a mapping or a caller
MCSymmetry == Permutations(MappingIds) \cup Permutations(Owners)
=============================================================================
