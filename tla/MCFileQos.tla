----------------------------- MODULE MCFileQos -----------------------------
(***************************************************************************)
(* FileQos on small instances for TLC.                                     *)
(***************************************************************************)
EXTENDS FileQos, TLC

Symmetry == Permutations(Proc) \cup Permutations(File \ Private) \cup Permutations(Obj)
=============================================================================
