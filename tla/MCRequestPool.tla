--------------------------- MODULE MCRequestPool ---------------------------
(***************************************************************************)
(* RequestPool on small instances for TLC.                                 *)
(***************************************************************************)
EXTENDS RequestPool

CONSTANTS Rw, Special

\* A bio fresh from bio_alloc has only BIO_UPTODATE in bi_flags.
MCBios ==
  {[rw |-> d, bi_rw |-> {}, bi_flags |-> {BIO_UPTODATE}, special |-> s] :
     d \in Rw, s \in Special}
=============================================================================
