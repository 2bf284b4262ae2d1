------------------------------ MODULE MCWorkbench ------------------------------
(* The bounds are in the configurations.                                     *)
EXTENDS Workbench
=============================================================================
