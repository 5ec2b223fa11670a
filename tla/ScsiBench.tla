------------------------------ MODULE ScsiBench ------------------------------
(***************************************************************************)
(* A measurement of scsibench (main.cc): option -c or -w measures the      *)
(* disk's caches (CacheProbe), the seek and switch options search tracks   *)
(* (MinSearch).                                                            *)
(***************************************************************************)
EXTENDS CacheProbe, MinSearch

VARIABLE option   \* what main was asked for

vars == <<probeVars, searchVars, option>>

(* The part that is not asked for keeps a few initial states. *)
AnyOf(S) == {CHOOSE x \in S : TRUE}

PlainDisk ==
    /\ tracks \in AnyOf(Tracks)
    /\ best = [c \in Cylinders |-> 0]
    /\ bad = {}
    /\ cyl_size = loadMapping(bad)
    /\ logical_size = cyl_num * cylinder

Init ==
    \/ /\ option = "cache"
       /\ ProbeInit(Disks, Starts, {"warm", "write"})
       /\ SearchInit(AnyOf(Sizes), {"rr"})
       /\ PlainDisk
    \/ /\ option = "search"
       /\ ProbeInit(AnyOf(Disks), AnyOf(Starts), {"warm"})
       /\ SearchInit(Sizes, Methods)

Next ==
    \/ option = "cache" /\ ProbeNext /\ UNCHANGED <<searchVars, option>>
    \/ option = "search" /\ SearchNext /\ UNCHANGED <<probeVars, option>>

Spec == Init /\ [][Next]_vars
=============================================================================
