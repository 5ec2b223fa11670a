---------------------------- MODULE MCScsiBench ----------------------------
(* Small disks for ScsiBench. *)
EXTENDS ScsiBench

MCDisks ==
    [segments : 1..7, prefetch : {1, 2, 3, 5, 8}, policy : {"FIFO", "LRU"},
     write_buffer : {12}]
    \union [segments : {1}, prefetch : {1}, policy : {"LRU"},
            write_buffer : 5..20]

(* No blocks, a number that is no cylinder's, and a negative one. *)
MCUnset == {0, 7, -3}
=============================================================================
