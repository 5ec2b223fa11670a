----------------------------- MODULE MCDirectIO -----------------------------
(***************************************************************************)
(* Requests for TLC.  Pages of two sectors, file system blocks of two.     *)
(***************************************************************************)
EXTENDS DirectIO

Blk(d, h) == [disk |-> d, hole |-> h]
Seg(f, n) == [first |-> f, len |-> n]

\* A file with an extent of two blocks, a hole, and a block elsewhere on disk.
Holey == <<Blk(10, FALSE), Blk(11, FALSE), Blk(30, TRUE), Blk(20, FALSE)>>
\* Blocks that are not there yet, the first two next to each other.
Sparse == <<Blk(10, TRUE), Blk(11, TRUE), Blk(20, TRUE), Blk(21, TRUE)>>

Ask(rw, async, offset, segs, map, size, bad) ==
  [rw |-> rw, async |-> async, bdev |-> TRUE, offset |-> offset, odd |-> FALSE,
   segs |-> segs, map |-> map, i_size |-> size, bad |-> bad]

MCRequests ==
  \* reads: aligned, over the hole and past the end, in two unaligned segments
  {Ask("READ", a, 0, <<Seg(0, 8)>>, Holey, 8, NONE) : a \in BOOLEAN} \cup
  {Ask("READ", a, 2, <<Seg(0, 8)>>, Holey, 7, NONE) : a \in BOOLEAN} \cup
  {Ask("READ", a, 1, <<Seg(1, 2), Seg(0, 2)>>, Holey, 8, NONE) : a \in BOOLEAN} \cup
  \* a read whose buffer ends too early
  {Ask("READ", a, 0, <<Seg(0, 4)>>, Holey, 8, <<1, 1>>) : a \in BOOLEAN} \cup
  \* writes: over holes, inside a block, with a fault
  {Ask("WRITE", a, 0, <<Seg(0, 8)>>, Sparse, 0, NONE) : a \in BOOLEAN} \cup
  {Ask("WRITE", a, 3, <<Seg(0, 2)>>, Sparse, 0, NONE) : a \in BOOLEAN} \cup
  {Ask("WRITE", a, 1, <<Seg(1, 4)>>, Sparse, 0, NONE) : a \in BOOLEAN} \cup
  {Ask("WRITE", a, 1, <<Seg(0, 1), Seg(1, 1)>>, Sparse, 0, NONE) : a \in BOOLEAN} \cup
  {Ask("WRITE", a, 1, <<Seg(1, 4)>>, Sparse, 0, <<1, 1>>) : a \in BOOLEAN} \cup
  {Ask("WRITE", a, 1, <<Seg(0, 4)>>, Sparse, 0, <<1, 1>>) : a \in BOOLEAN} \cup
  {Ask("WRITE", a, 0, <<Seg(0, 4)>>, Holey, 8, <<1, 1>>) : a \in BOOLEAN} \cup
  \* requests that are refused
  {[Ask("READ", FALSE, 1, <<Seg(0, 2)>>, Holey, 8, NONE) EXCEPT !.bdev = FALSE]} \cup
  {[Ask("READ", FALSE, 0, <<Seg(0, 2)>>, Holey, 8, NONE) EXCEPT !.odd = TRUE]}

\* A write inside a block whose very first page is not mapped.
MCFaults == {Ask("WRITE", a, 1, <<Seg(1, 4)>>, Sparse, 0, <<1, 0>>) : a \in BOOLEAN}

=============================================================================
