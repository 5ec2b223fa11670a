--------------------------- MODULE MCTaggedQueue ---------------------------
(***************************************************************************)
(* TaggedQueue on small instances for TLC.                                 *)
(***************************************************************************)
EXTENDS TaggedQueue, TLC

CONSTANTS ReadExpire, WriteExpire

MCFifoExpire == [d \in Dirs |-> IF d = READ THEN ReadExpire ELSE WriteExpire]

Symmetry == Permutations(ReadRq) \cup Permutations(Bio)
=============================================================================
