----------------------------- MODULE CacheProbe -----------------------------
(***************************************************************************)
(* The cache measurements of scsibench (scsibench.cc, options -c and -w of *)
(* main.cc): how many blocks the disk reads ahead, how many segments its   *)
(* read cache has, how it replaces them, and how large its write buffer    *)
(* is.  Each is deduced from how long commands take, and each changes the  *)
(* cache the next one starts from.                                         *)
(*                                                                         *)
(* The disk is external: a cache of disk.segments segments, first in first *)
(* out or least recently used, each holding the blocks of one read and the *)
(* disk.prefetch blocks after them.  A read that finds its blocks takes    *)
(* HitTime, any other one of MissTimes; writes of up to disk.write_buffer  *)
(* blocks return at once.  Every command succeeds.                         *)
(***************************************************************************)
EXTENDS Integers, Sequences, SequencesExt, FiniteSetsExt

CONSTANTS
    Disks,          \* [segments, prefetch, policy, write_buffer]
    Starts,         \* the block option -c may be given, main's default is 0
    Tr,             \* time of a revolution
    HitTime,        \* time of a read from the cache
    MissTimes,      \* times of a read from the platters
    DEF_MAX_SIZE,   \* largest read ahead findPrefetchSize looks for
    NUMBER,         \* largest number of segments looked for, plus one
    MAX_WRITE       \* largest write findWriteBufSize tries, plus one

ASSUME TimesAssumption ==
    /\ \A t \in MissTimes : 5 * HitTime < t /\ t <= Tr
    /\ 0 < HitTime /\ 4 * HitTime <= Tr

VARIABLES
    disk,       \* the disk measured
    cache,      \* its segments, the next to be replaced first
    start,      \* prefetch_start
    stage,      \* the measurement under way, and where it is
    i, j,       \* its loop counters
    fastest,    \* the shortest time findPrefetchSize has seen
    time0,      \* the last time findWriteBufSize has seen
    detect,     \* findCacheReplacePol's answer so far
    answer,     \* what the measurements returned
    fresh       \* findCacheBlocksNumber started with none of its blocks cached

probeVars ==
    <<disk, cache, start, stage, i, j, fastest, time0, detect, answer, fresh>>

Unknown == -1

-----------------------------------------------------------------------------
(* The disk's cache (external). *)

holds(c, b, n) == {k \in DOMAIN c : c[k].from <= b /\ b + n - 1 <= c[k].to}

(* The cache c after a read of the n blocks at b. *)
after(c, b, n) ==
    LET new == [from |-> b, to |-> b + n - 1 + disk.prefetch]
        k == Min(holds(c, b, n))
    IN  IF holds(c, b, n) = {}
        THEN Append(IF Len(c) = disk.segments THEN Tail(c) ELSE c, new)
        ELSE IF disk.policy = "LRU" THEN Append(RemoveAt(c, k), c[k]) ELSE c

read(b, n) == cache' = after(cache, b, n)
times(b, n) == IF holds(cache, b, n) = {} THEN MissTimes ELSE {HitTime}
write_time(n) == IF n <= disk.write_buffer THEN HitTime ELSE HitTime + Tr

-----------------------------------------------------------------------------
(* findPrefetchSize: 64 short streams elsewhere fill the cache, one read at *)
(* start, then one read of each block from start + 2 on until one is slow. *)

Warm ==
    /\ stage = "warm"
    /\ cache' = after(after(after(cache, 12345 * i, 1), 12345 * i + 1, 1),
                      12345 * i + 2, 1)
    /\ i' = i + 1
    /\ stage' = IF i = 64 THEN "prefetch" ELSE "warm"
    /\ UNCHANGED <<disk, start, j, fastest, time0, detect, answer, fresh>>

PrefetchRead ==
    /\ stage = "prefetch"
    /\ read(start, 1)
    /\ fastest' = Tr \div 4
    /\ j' = 2
    /\ stage' = "prefetch_probe"
    /\ UNCHANGED <<disk, start, i, time0, detect, answer, fresh>>

prefetch_size_seen(at) == at
prefetch_size(at) == at - 1

(* A read is slow when it takes more than five times the shortest one.     *)
PrefetchProbe ==
    /\ stage = "prefetch_probe"
    /\ j < DEF_MAX_SIZE
    /\ read(start + j, 1)
    /\ \E t \in times(start + j, 1) :
         /\ fastest' = Min({fastest, t})
         /\ IF t > 5 * fastest'
            THEN /\ answer' = [answer EXCEPT !.prefetch = prefetch_size(j),
                                             !.hit_time = fastest']
                 /\ stage' = "check"
                 /\ i' = 1
                 /\ UNCHANGED j
            ELSE /\ j' = j + 1
                 /\ UNCHANGED <<answer, stage, i>>
    /\ UNCHANGED <<disk, start, time0, detect, fresh>>

(* No slow read: DEF_MAX_SIZE is returned, and hit_time was never set.     *)
PrefetchGivesUp ==
    /\ stage = "prefetch_probe"
    /\ j = DEF_MAX_SIZE
    /\ \E garbage \in {0, HitTime, Tr} :
         answer' = [answer EXCEPT !.prefetch = DEF_MAX_SIZE, !.hit_time = garbage]
    /\ stage' = "check"
    /\ i' = 1
    /\ UNCHANGED <<disk, cache, start, j, fastest, time0, detect, fresh>>

(* findPrefetchSize2 with the size found, one less and one more: what main *)
(* prints.  It leaves more segments behind.                                *)
PrefetchCheck ==
    /\ stage = "check"
    /\ LET size == answer.prefetch + CASE i = 1 -> -1 [] i = 2 -> 1 [] i = 3 -> 0
       IN  cache' = after(after(cache, 5000, 1), 5000 + size + 1, 1)
    /\ i' = IF i = 3 THEN 1 ELSE i + 1
    /\ stage' = IF i = 3 THEN "fill" ELSE "check"
    /\ j' = 0
    /\ fresh' = (holds(cache', 0, 1) = {})
    /\ UNCHANGED <<disk, start, fastest, time0, detect, answer>>

-----------------------------------------------------------------------------
(* findCacheBlocksNumber: i streams, then a block of each, for more and    *)
(* more streams until one of them is slow.                                 *)

slow(t) == t > 3 * answer.hit_time

FillStreams ==
    /\ stage = "fill"
    /\ read(j * 10000, 1)
    /\ j' = IF j + 1 < i THEN j + 1 ELSE 0
    /\ stage' = IF j + 1 < i THEN "fill" ELSE "probe"
    /\ UNCHANGED <<disk, start, i, fastest, time0, detect, answer, fresh>>

blocks_seen(n) == n
blocks_found(n) == n - 1

ProbeStreams ==
    /\ stage = "probe"
    /\ read(j * 10000 + answer.prefetch - 2, 1)
    /\ \E t \in times(j * 10000 + answer.prefetch - 2, 1) :
         \/ /\ slow(t)
            /\ answer' = [answer EXCEPT !.blocks = blocks_found(i)]
            /\ stage' = "policy_fill"
            /\ j' = 0
            /\ UNCHANGED i
         \/ /\ ~slow(t)
            /\ j + 1 < i
            /\ j' = j + 1
            /\ UNCHANGED <<answer, stage, i>>
         \/ /\ ~slow(t)
            /\ j + 1 = i
            /\ j' = 0
            /\ i' = i + 1
            /\ IF i + 1 < NUMBER
               THEN stage' = "fill" /\ UNCHANGED answer
               ELSE /\ stage' = "policy_fill"
                    /\ answer' = [answer EXCEPT !.blocks = i' - 1]
    /\ UNCHANGED <<disk, start, fastest, time0, detect, fresh>>

-----------------------------------------------------------------------------
(* findCacheReplacePol: fill the cache, use its first segment again, read  *)
(* something new, and see which segment that replaced.                     *)

cache_size == answer.blocks

(* The cache c after the reads of streams from .. to. *)
filled(c, from, to) ==
    FoldLeft(LAMBDA d, k : after(d, k * 10000, 1), c,
             [k \in 1..to - from + 1 |-> from + k - 1])

no_touch(c, b) == c
touch(c, b) == after(c, b, 1)

(* FIFO: the first segment is gone although it was used last. *)
PolicyFifo ==
    /\ stage = "policy_fill"
    /\ LET c == after(touch(filled(cache, 0, cache_size - 1), 1),
                      cache_size * 10000, 1)
       IN  /\ \E t \in IF holds(c, 0, 2) = {} THEN MissTimes ELSE {HitTime} :
                detect' = IF slow(t) THEN 1 ELSE 0
           /\ cache' = after(c, 0, 2)
    /\ stage' = "policy_lru"
    /\ UNCHANGED <<disk, start, i, j, fastest, time0, answer, fresh>>

(* LRU: the second segment of a new set is gone, the first is not. *)
PolicyLru ==
    /\ stage = "policy_lru"
    /\ LET c == after(touch(filled(cache, cache_size + 2, 2 * cache_size + 1),
                            (cache_size + 2) * 10000 + 1),
                      3 * cache_size * 10000, 1)
           b == (cache_size + 3) * 10000 + 1
       IN  /\ \E t \in IF holds(c, b, 2) = {} THEN MissTimes ELSE {HitTime} :
                answer' = [answer EXCEPT !.policy = IF slow(t) THEN 2 ELSE detect]
           /\ cache' = after(c, b, 2)
    /\ stage' = "discard_fill"
    /\ UNCHANGED <<disk, start, i, j, fastest, time0, detect, fresh>>

(* findDiscardRead: is block 0, read up to 5 times, fast the next time?    *)
(* The pause between the reads is inside the time it measures, and longer  *)
(* than any hit: every read looks slow, and the answer is 0.               *)
usleep == 100 * Tr

Discard ==
    /\ stage = "discard_fill"
    /\ cache' = after(filled(cache, cache_size + 2, 4 * cache_size + 1), 0, 1)
    /\ LET fast == {n \in 0..4 : ~slow(HitTime + usleep)}
       IN  answer' = [answer EXCEPT !.discard = IF fast = {} THEN 0 ELSE Min(fast)]
    /\ stage' = "answered"
    /\ UNCHANGED <<disk, start, i, j, fastest, time0, detect, fresh>>

-----------------------------------------------------------------------------
(* findWriteBufSize: longer and longer writes of the same place, until one *)
(* takes longer than the one before by a fifth of a revolution.            *)

write_size(at) == at - 1

WriteProbe ==
    /\ stage = "write"
    /\ j < MAX_WRITE
    /\ LET t == write_time(j)
       IN  IF t - time0 > Tr \div 5 /\ j > 10
           THEN /\ answer' = [answer EXCEPT !.write_buffer = write_size(j)]
                /\ stage' = "answered"
                /\ UNCHANGED <<j, time0>>
           ELSE /\ time0' = t
                /\ j' = j + 1
                /\ UNCHANGED <<answer, stage>>
    /\ UNCHANGED <<disk, cache, start, i, fastest, detect, fresh>>

WriteGivesUp ==
    /\ stage = "write"
    /\ j = MAX_WRITE
    /\ answer' = [answer EXCEPT !.write_buffer = MAX_WRITE]
    /\ stage' = "answered"
    /\ UNCHANGED <<disk, cache, start, i, j, fastest, time0, detect, fresh>>

-----------------------------------------------------------------------------
ProbeInit(disks, starts, stages) ==
    /\ disk \in disks
    /\ start \in starts
    /\ cache = <<>>
    /\ stage \in stages
    /\ i = 1
    /\ j = IF stage = "write" THEN 10 ELSE 0
    /\ fastest = 0
    /\ time0 = 0
    /\ detect = 0
    /\ answer = [prefetch |-> Unknown, hit_time |-> Unknown, blocks |-> Unknown,
                 policy |-> Unknown, discard |-> Unknown, write_buffer |-> Unknown]
    /\ fresh = TRUE

ProbeNext ==
    \/ Warm \/ PrefetchRead \/ PrefetchProbe \/ PrefetchGivesUp \/ PrefetchCheck
    \/ FillStreams \/ ProbeStreams \/ PolicyFifo \/ PolicyLru \/ Discard
    \/ WriteProbe \/ WriteGivesUp

-----------------------------------------------------------------------------
(* Properties *)

(* The read ahead findPrefetchSize reports is the disk's, for every disk   *)
(* that reads at least two blocks ahead and fewer than it looks for, and   *)
(* so is findWriteBufSize's write buffer, if it holds 10 blocks or more.   *)
SizesFound ==
    /\ answer.prefetch # Unknown /\ disk.prefetch \in 2..DEF_MAX_SIZE - 2 =>
         answer.prefetch = disk.prefetch
    /\ answer.write_buffer # Unknown /\ disk.write_buffer \in 10..MAX_WRITE - 2 =>
         answer.write_buffer = disk.write_buffer

(* findCacheBlocksNumber counts the segments, up to NUMBER - 1, whatever   *)
(* the replacement policy and whatever the streams before it left in the   *)
(* cache, if block 0 is not among that.                                    *)
BlocksFound ==
    answer.blocks # Unknown /\ fresh /\ disk.prefetch \in 2..DEF_MAX_SIZE - 2 =>
        answer.blocks = Min({disk.segments, NUMBER - 1})

(* With the right number of segments, and more than one, the policy        *)
(* findCacheReplacePol returns is the disk's ("returns 1-possible FIFO,    *)
(* 2-possible LRU"), starting from the cache its predecessors left.        *)
PolicyFound ==
    answer.policy # Unknown /\ answer.blocks = disk.segments /\ disk.segments > 1 
      /\ disk.prefetch \in 2..DEF_MAX_SIZE - 2 =>
        answer.policy = IF disk.policy = "FIFO" THEN 1 ELSE 2
=============================================================================
