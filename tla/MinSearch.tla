------------------------------ MODULE MinSearch ------------------------------
(***************************************************************************)
(* The search scsibench measures seek and switch times with (scsibench.cc, *)
(* MTBRCrr, ww, rw and wr, seekToMin and seekCurve): after a command at a  *)
(* start block, which block of a range can be reached soonest, and how     *)
(* soon.  The range is a track in seekCurve, a whole cylinder elsewhere.   *)
(*                                                                         *)
(* The disk is external.  Reaching a block takes the seek, Seek, and the   *)
(* rotation from best[c], the block of cylinder c the head can catch       *)
(* first: one time unit per block, track blocks to a revolution, without   *)
(* skew from track to track.  So the times along a range rise, fall by     *)
(* almost a revolution once on every track, and rise again; the search     *)
(* narrows pos0 .. pos2 down to one of the falls.  Positions are counted   *)
(* from the first block of the range.                                      *)
(***************************************************************************)
EXTENDS Integers, Sequences

CONSTANTS
    Sizes,     \* numbers of blocks of a track
    Tracks,    \* numbers of tracks of a cylinder
    cyl_num,   \* number of cylinders
    Seek,      \* time of the seek alone
    Refused,   \* time of a command past the end of the disk
    Infinite,  \* 9.e+30
    Unset,     \* what the memory of a CylInfo may hold where size will be
    UINT       \* number of values of an unsigned int

(* Block numbers of the disk are below 2^31. *)
ASSUME SearchAssumption ==
    /\ cyl_num \in Nat \ {0}
    /\ {Seek, Refused, Infinite, UINT} \subseteq Nat
    /\ Sizes \subseteq Nat \ {0} /\ Tracks \subseteq Nat \ {0}
    /\ Unset \subseteq Int
    /\ \A s \in Sizes, t \in Tracks : 2 * (cyl_num * (t * s)) < UINT

VARIABLES
    track,      \* blocks of a track
    tracks,     \* track_per_cyl
    best,       \* best[c] is a block of cylinder c reached soonest
    bad,        \* the cylinders without a mapping (cyl_info[].bad)
    cyl_size,   \* blocks of each cylinder, as far as known (cyl_info[].size)
    method,     \* the function called
    prec, maxdistance, start_cyl,   \* its arguments, of seekCurve
    logical_size,   \* blocks of the disk
    at,         \* where it is
    cyl,        \* the cylinder measured
    first, size,    \* the range: its first block, its length
    pos0, pos1, pos2, time1, time2, mintime, n,   \* the search
    curve       \* the points seekCurve has printed: <<cylinder, time>>

disk_vars ==
    <<track, tracks, best, bad, cyl_size, method, prec, maxdistance, start_cyl, logical_size>>
search == <<first, size, pos0, pos1, pos2, time1, time2, mintime, n>>
searchVars == <<disk_vars, at, cyl, search, curve>>

Cylinders == 0..cyl_num - 1

cylinder == tracks * track
start_of(c) == c * cylinder

(* Time from the start block to block b, rotating with cylinder c          *)
(* (external).  Block numbers are unsigned.                                *)
rotation(c, b) == (b - start_of(c) - best[c]) % track
access_time(c, b) ==
    IF b % UINT < logical_size THEN Seek + rotation(c, b % UINT) ELSE Refused

-----------------------------------------------------------------------------
(* The search *)

(* The first two measurements, in the range of blocks from block from on.  *)
(* MTBRCwr sends the read command it has not set up yet, of block 0, where *)
(* the write of the start block belongs: the head comes from elsewhere,    *)
(* and the time has nothing to do with start.                              *)
Measure(from, blocks, middle) ==
    /\ first' = from /\ size' = blocks
    /\ pos0' = 0
    /\ pos1' = middle
    /\ pos2' = (blocks - 1) % UINT
    /\ time1' \in IF method = "wr" THEN Seek..Seek + track - 1
                  ELSE {access_time(cyl', from + pos1')}
    /\ time2' = access_time(cyl', from + pos2')
    /\ mintime' = Infinite
    /\ n' = 0

searching == n < 20 /\ pos1 # pos2 /\ pos0 # pos1

lower_half_keeps_time ==
    /\ mintime' = time1
    /\ pos2' = pos1
    /\ pos1' = pos0 + (pos1 - pos0) \div 2
    /\ UNCHANGED <<pos0, time2>>

(* The middle is sooner than the end: the fall is not above the middle. *)
lower_half ==
    /\ mintime' = time1
    /\ pos2' = pos1
    /\ pos1' = pos0 + (pos1 - pos0) \div 2
    /\ time2' = time1
    /\ UNCHANGED pos0

(* It is not: the fall is above the middle. *)
upper_half ==
    /\ mintime' = time2
    /\ pos0' = pos1
    /\ pos1' = pos1 + (pos2 - pos1) \div 2
    /\ UNCHANGED <<pos2, time2>>

sooner_inverted == time1 > time2

sooner == time1 < time2
Narrow ==
    /\ at = "search"
    /\ searching
    /\ IF sooner THEN lower_half ELSE upper_half
    /\ time1' = access_time(cyl, first + pos1')
    /\ n' = n + 1
    /\ UNCHANGED <<disk_vars, at, cyl, first, size, curve>>

(* MTBRC returns mintime, seekToMin the block dest_log: it measures on the *)
(* destination track and counts from the start of the cylinder.            *)
dest_log == start_of(cyl) + pos1
Found ==
    /\ at = "search"
    /\ ~searching
    /\ method # "seekCurve"
    /\ at' = "found"
    /\ UNCHANGED <<disk_vars, cyl, search, curve>>

-----------------------------------------------------------------------------
(* seekCurve: the search on every prec-th cylinder; by method 2 a single   *)
(* seek command to each of them, at any distance.                          *)

distance(a, b) == IF a > b THEN a - b ELSE b - a

(* A cylinder without a mapping, or too far away, is passed over. *)
skipped(c) == c \in bad \/ distance(start_cyl, c) > maxdistance
SeekCurveSkip ==
    /\ at = "curve"
    /\ method = "seekCurve"
    /\ cyl < cyl_num
    /\ skipped(cyl)
    /\ cyl' = cyl + prec
    /\ UNCHANGED <<disk_vars, at, search, curve>>

(* C division, which rounds towards 0, and the size of a track it gives:   *)
(* of a cylinder of size -1, 0 blocks, or 2^32 - 1 with one track.         *)
quotient(a, b) == IF a >= 0 THEN a \div b ELSE -((-a) \div b)
track_size(c) == quotient(cyl_size[c], tracks) % UINT

(* The curve ends with the first cylinder whose middle, as far as its size *)
(* is known, is past the disk's end.                                       *)
past_end(c) == (start_of(c) + track_size(c) \div 2) % UINT >= logical_size

SeekCurveSearch ==
    /\ at = "curve"
    /\ method = "seekCurve"
    /\ cyl < cyl_num
    /\ ~skipped(cyl)
    /\ ~past_end(cyl)
    /\ cyl' = cyl
    /\ Measure(start_of(cyl), track_size(cyl), track_size(cyl) \div 2)
    /\ at' = "search"
    /\ UNCHANGED <<disk_vars, curve>>

SeekCurveEnd ==
    /\ at = "curve"
    /\ \/ cyl >= cyl_num
       \/ method = "seekCurve" /\ cyl < cyl_num /\ ~skipped(cyl) /\ past_end(cyl)
    /\ at' = "found"
    /\ UNCHANGED <<disk_vars, cyl, search, curve>>

SeekCurvePoint ==
    /\ at = "search"
    /\ ~searching
    /\ method = "seekCurve"
    /\ curve' = Append(curve, <<cyl, mintime>>)
    /\ cyl' = cyl + prec
    /\ at' = "curve"
    /\ UNCHANGED <<disk_vars, search>>

(* A seek has no rotation to wait for. *)
SeekCurveSeek ==
    /\ at = "curve"
    /\ method = "seekCurve2"
    /\ cyl < cyl_num
    /\ curve' = IF cyl \in bad THEN curve ELSE Append(curve, <<cyl, Seek>>)
    /\ cyl' = cyl + prec
    /\ UNCHANGED <<disk_vars, at, search>>

-----------------------------------------------------------------------------
(* What is known of the cylinders: findMappingCommand knows the size of one *)
(* between two that have a mapping, writes -1 for one in front of a bad    *)
(* one without calling it bad, and nothing for the last; loadMapping calls *)
(* every cylinder bad that has no size.                                    *)
findMappingCommand(b, unset) ==
    [c \in Cylinders |-> IF c = cyl_num - 1 THEN unset
                         ELSE IF b \cap {c, c + 1} = {} THEN cylinder ELSE -1]
loadMapping(b) == [c \in Cylinders |-> IF c \in b THEN -1 ELSE cylinder]

(* seekCurve refuses a start cylinder that is bad or is the last one. *)
SearchInit(sizes, methods) ==
    /\ track \in sizes
    /\ tracks \in Tracks
    /\ best \in [Cylinders -> 0..(track - 1)]
    /\ bad \in SUBSET Cylinders
    /\ cyl_size \in {findMappingCommand(bad, u) : u \in Unset} \union {loadMapping(bad)}
    /\ method \in methods
    /\ logical_size \in {cyl_num * cylinder, (cyl_num - 1) * cylinder}
    /\ IF method \in {"seekCurve", "seekCurve2"}
       THEN /\ start_cyl \in 0..cyl_num - 2 \ bad
            /\ prec \in 1..2
            /\ maxdistance \in 1..cyl_num - 1
            /\ at = "curve"
       ELSE /\ start_cyl = 0 /\ prec = 1 /\ maxdistance = 1
            /\ at = "start"
    /\ cyl = 0
    /\ first = 0 /\ size = 0
    /\ pos0 = 0 /\ pos1 = 0 /\ pos2 = 0
    /\ time1 = 0 /\ time2 = 0 /\ mintime = Infinite
    /\ n = 0
    /\ curve = <<>>

(* The MTBRC functions differ in the commands they time; findHeadSwitch    *)
(* and findWriteSet give them the ends of a cylinder, here one of known    *)
(* size.                                                                   *)
MTBRC(m) ==
    /\ at = "start"
    /\ method = m
    /\ cyl' \in Cylinders
    /\ Measure(start_of(cyl'), cylinder, (cylinder - 1) \div 2)
    /\ at' = "search"
    /\ UNCHANGED <<disk_vars, curve>>

MTBRCrr == MTBRC("rr")
MTBRCww == MTBRC("ww")
MTBRCrw == MTBRC("rw")
MTBRCwr == MTBRC("wr")

(* From track dest_track on, as many blocks as the cylinder has. *)
seekToMin ==
    /\ at = "start"
    /\ method = "seekToMin"
    /\ cyl' \in Cylinders
    /\ \E start_log \in {0, logical_size}, dest_track \in 0..tracks - 1 :
         IF cyl' \in bad \/ start_log >= logical_size
         THEN at' = "refused" /\ UNCHANGED search
         ELSE LET blocks == cyl_size[cyl'] % UINT
              IN /\ Measure(start_of(cyl') + dest_track * track, blocks, blocks \div 2)
                 /\ at' = "search"
    /\ UNCHANGED <<disk_vars, curve>>

SearchNext ==
    \/ MTBRCrr \/ MTBRCww \/ MTBRCrw \/ MTBRCwr \/ seekToMin
    \/ Narrow \/ Found
    \/ SeekCurveSkip \/ SeekCurveSearch \/ SeekCurvePoint \/ SeekCurveSeek
    \/ SeekCurveEnd

Methods == {"rr", "ww", "rw", "wr", "seekToMin", "seekCurve", "seekCurve2"}
SearchSpec == SearchInit(Sizes, Methods) /\ [][SearchNext]_searchVars

-----------------------------------------------------------------------------
(* Properties *)

(* The range is one of whole revolutions, and the disk has all of it. *)
WholeTracks == size \in {track, cylinder} /\ first + size <= logical_size

(* All along the search, of every function but MTBRCwr, a block reached    *)
(* soonest is between pos0 and pos2, however many of them the tracks of    *)
(* the range have, and time1 and time2 are the times of pos1 and pos2 (the *)
(* loop invariant of the halving).                                         *)
BestBracketed ==
    at = "search" /\ method # "wr" /\ WholeTracks =>
        /\ 0 <= pos0 /\ pos0 <= pos1 /\ pos1 <= pos2 /\ pos2 < size
        /\ \E p \in pos0..pos2 : access_time(cyl, first + p) = Seek
        /\ time1 = access_time(cyl, first + pos1)
        /\ time2 = access_time(cyl, first + pos2)

Shortest(t) == t \in Seek..Seek + 1

(* Cylinder c is among those seekCurve is asked for: every prec-th one that *)
(* is not bad, and by method 1 within maxdistance on either side of        *)
(* start_cyl.                                                              *)
Asked(c) ==
    /\ c % prec = 0
    /\ c \notin bad
    /\ method = "seekCurve" => c \in start_cyl - maxdistance..start_cyl + maxdistance

(* It has a point unless the curve has broken off. *)
OnCurve(c) ==
    /\ Asked(c)
    /\ method = "seekCurve" => \A b \in 0..c : Asked(b) => ~past_end(b)

(* The size of cylinder c is known, and its first track is on the disk. *)
Mapped(c) == cyl_size[c] = cylinder /\ start_of(c) + track <= logical_size

(* On tracks of more than two blocks, what the search reports is the       *)
(* shortest time or that of the block next to it: MTBRC's result,          *)
(* seekToMin's, and each point of the seek curve at a cylinder whose size  *)
(* is known.  Of the others only the last, whose size nobody sets, can get *)
(* a time from nowhere: a cylinder in front of a bad one gets 9e30, or     *)
(* breaks off the curve.  Up to there seekCurve leaves out no cylinder and *)
(* measures none twice.                                                    *)
NearShortest ==
    /\ WholeTracks /\ size > 2 /\ at = "found" /\ method \in {"rr", "ww", "rw", "seekToMin"}
         => Shortest(mintime)
    /\ track > 2 => \A k \in DOMAIN curve :
         /\ Mapped(curve[k][1]) => Shortest(curve[k][2])
         /\ curve[k][1] # cyl_num - 1 => Shortest(curve[k][2]) \/ curve[k][2] = Infinite
    /\ at = "found" /\ method \in {"seekCurve", "seekCurve2"} =>
         /\ {curve[k][1] : k \in DOMAIN curve} = {c \in Cylinders : OnCurve(c)}
         /\ \A k, l \in DOMAIN curve : k < l => curve[k][1] < curve[l][1]

(* "logical number of block on destination cylinder with minimal access    *)
(* time (just seek time with small (or zero) rotational time": the block   *)
(* seekToMin returns is reached with less than half a revolution of wait.  *)
SeekToMinIsSoon ==
    at = "found" /\ method = "seekToMin" /\ WholeTracks =>
        2 * (access_time(cyl, dest_log) - Seek) <= track
=============================================================================
