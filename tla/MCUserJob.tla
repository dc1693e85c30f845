----------------------------- MODULE MCUserJob ------------------------------
(***************************************************************************)
(* Instances of UserJob for TLC: the callers, and the daemons, are         *)
(* interchangeable model values.                                           *)
(***************************************************************************)
EXTENDS UserJob, TLC

Symmetry == Permutations(Callers) \cup Permutations(Daemons)
=============================================================================
