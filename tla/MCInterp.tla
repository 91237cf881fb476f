------------------------------ MODULE MCInterp ------------------------------
(* Instances of Interp for TLC.                                             *)
EXTENDS Interp
=============================================================================
