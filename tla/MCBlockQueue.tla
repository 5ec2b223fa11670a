---------------------------- MODULE MCBlockQueue ----------------------------
(***************************************************************************)
(* BlockQueue on small instances for TLC.                                  *)
(***************************************************************************)
EXTENDS BlockQueue, TLC

CONSTANTS ReadExpire, WriteExpire

MCFifoExpire == [d \in Dirs |-> IF d = READ THEN ReadExpire ELSE WriteExpire]

\* Requests of one free list and bios are interchangeable.
Symmetry == Permutations(ReadRq) \cup Permutations(WriteRq) \cup Permutations(Bio)
=============================================================================
