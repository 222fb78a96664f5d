------------------------------ MODULE MCReports ------------------------------
(***************************************************************************)
(* Instances of Reports for TLC.                                           *)
(***************************************************************************)
EXTENDS Reports, TLC

Symmetry == Permutations(Jobs) \cup Permutations(Requests)
=============================================================================
