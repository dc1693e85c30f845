---------------------------- MODULE MCXdmaEngine ----------------------------
(***************************************************************************)
(* Instances of XdmaEngine for TLC.  Calls are model values; those of one  *)
(* kind are interchangeable, which the runs of safety properties use.      *)
(***************************************************************************)
EXTENDS XdmaEngine, TLC

Symmetry == Permutations(Async) \cup Permutations(Sync)
=============================================================================
