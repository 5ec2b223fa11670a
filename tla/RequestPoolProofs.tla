------------------------- MODULE RequestPoolProofs -------------------------
(***************************************************************************)
(* The safety of the request pool for any number of processes, any depth   *)
(* of the device and any size of the pool.                                 *)
(*                                                                         *)
(* The inductive invariant Inv is a conjunction of parts, each stated over *)
(* a queue s and the places P and bios B of the processes, so that a lemma *)
(* can speak of the queue between two calls of one handler:                *)
(*   Congestion   CongestionTracksCount as it stands;                      *)
(*   PlugTimed, Attended   QueueNotForgotten, and with it that a stopped   *)
(*                queue has a completion due or under way;                 *)
(*   Waiters      a process is on the wait queue of its own direction      *)
(*                only, once, between prepare_to_wait and finish_wait;     *)
(*   EnoughWoken  NoLostWakeup counted: as long as somebody sleeps, the    *)
(*                free requests from the batch on are fewer than the       *)
(*                processes on their way (one of them may take a request   *)
(*                and leave, so that there is one is not inductive);       *)
(*   Balanced     NoRequestLeak as it stands.                              *)
(*                                                                         *)
(* The first lemmas say what each call does to a queue (GetStep, PutStep,  *)
(* PlugStep, Unplug, RequestFn), the later ones what each action does.     *)
(***************************************************************************)
EXTENDS RequestPool, SeqLemmas, FiniteSetTheorems

\* The type of the queue.
QType ==
  [count : [Dirs -> Nat], congested : [Dirs -> BOOLEAN], wait : [Dirs -> Seq(Proc)],
   queued : [Dirs -> Nat], inflight : [Dirs -> Nat],
   plugged : BOOLEAN, timer : BOOLEAN, stopped : BOOLEAN]

LEMMA QTypeFields ==
  ASSUME NEW s \in QType
  PROVE  /\ s.count \in [Dirs -> Nat] /\ s.congested \in [Dirs -> BOOLEAN]
         /\ s.wait \in [Dirs -> Seq(Proc)]
         /\ s.queued \in [Dirs -> Nat] /\ s.inflight \in [Dirs -> Nat]
         /\ s.plugged \in BOOLEAN /\ s.timer \in BOOLEAN /\ s.stopped \in BOOLEAN
BY DEF QType

\* What get_request and blk_put_request change, field by field.
Got(s, d, t) ==
  /\ t \in QType
  /\ t.count = [s.count EXCEPT ![d] = @ - 1]
  /\ t.congested = [s.congested EXCEPT
                      ![d] = @ \/ s.count[d] - 1 < queue_congestion_on_threshold]
  /\ t.wait = s.wait
  /\ t.queued = s.queued /\ t.inflight = s.inflight
  /\ t.plugged = s.plugged /\ t.timer = s.timer /\ t.stopped = s.stopped

Given(s, d, t) ==
  /\ t \in QType
  /\ t.count = [s.count EXCEPT ![d] = @ + 1]
  /\ t.congested = [s.congested EXCEPT
                      ![d] = @ /\ s.count[d] + 1 < queue_congestion_off_threshold]
  /\ t.wait = [s.wait EXCEPT
                 ![d] = IF s.count[d] + 1 >= batch_requests /\ @ # <<>> THEN Tail(@) ELSE @]
  /\ t.queued = s.queued /\ t.inflight = s.inflight
  /\ t.plugged = s.plugged /\ t.timer = s.timer /\ t.stopped = s.stopped

LEMMA GetRequestFields ==
  ASSUME NEW s \in QType, NEW d \in Dirs, s.count[d] > 0, NEW t, t = get_request(s, d)
  PROVE  Got(s, d, t)
<1> DEFINE b == s.congested[d] \/ s.count[d] - 1 < queue_congestion_on_threshold
           c == [s.count EXCEPT ![d] = @ - 1]
           g == [s.congested EXCEPT ![d] = b]
<1>1. c \in [Dirs -> Nat] /\ s.wait \in [Dirs -> Seq(Proc)]
  BY QTypeFields
<1>2. g \in [Dirs -> BOOLEAN]
  <2>1. b \in BOOLEAN
    OBVIOUS
  <2> HIDE DEF b
  <2> QED
    BY <2>1, QTypeFields
<1>3. t = [s EXCEPT !.count = c, !.congested = g]
  <2> HIDE DEF b
  <2>1. t = [s EXCEPT !.count[d] = @ - 1, !.congested[d] = b]
    BY Zenon DEF get_request, b
  <2> QED
    BY <2>1 DEF QType
<1> HIDE DEF c, g
<1>4. /\ t \in QType /\ t.count = c /\ t.congested = g /\ t.wait = s.wait
      /\ t.queued = s.queued /\ t.inflight = s.inflight
      /\ t.plugged = s.plugged /\ t.timer = s.timer /\ t.stopped = s.stopped
  BY <1>1, <1>2, <1>3 DEF QType
<1> QED
  BY <1>4 DEF Got, c, g, b

LEMMA PutRequestFields ==
  ASSUME NEW s \in QType, NEW d \in Dirs, NEW t, t = blk_put_request(s, d)
  PROVE  Given(s, d, t)
<1> DEFINE b == s.congested[d] /\ s.count[d] + 1 < queue_congestion_off_threshold
           v == IF s.count[d] + 1 >= batch_requests /\ s.wait[d] # <<>>
                THEN Tail(s.wait[d]) ELSE s.wait[d]
           c == [s.count EXCEPT ![d] = @ + 1]
           g == [s.congested EXCEPT ![d] = b]
           w == [s.wait EXCEPT ![d] = v]
<1>1. c \in [Dirs -> Nat]
  BY QTypeFields
<1>2. g \in [Dirs -> BOOLEAN]
  <2>1. b \in BOOLEAN
    OBVIOUS
  <2> HIDE DEF b
  <2> QED
    BY <2>1, QTypeFields
<1>3. w \in [Dirs -> Seq(Proc)]
  <2>1. v \in Seq(Proc)
    BY QTypeFields, HeadTailProperties
  <2> HIDE DEF v
  <2> QED
    BY <2>1, QTypeFields
<1>4. t = [s EXCEPT !.count = c, !.congested = g, !.wait = w]
  <2> HIDE DEF b, v
  <2>1. t = [s EXCEPT !.count[d] = @ + 1, !.congested[d] = b, !.wait[d] = v]
    BY Zenon DEF blk_put_request, b, v
  <2> QED
    BY <2>1 DEF QType
<1> HIDE DEF c, g, w
<1>5. /\ t \in QType /\ t.count = c /\ t.congested = g /\ t.wait = w
      /\ t.queued = s.queued /\ t.inflight = s.inflight
      /\ t.plugged = s.plugged /\ t.timer = s.timer /\ t.stopped = s.stopped
  BY <1>1, <1>2, <1>3, <1>4 DEF QType
<1> QED
  BY <1>5 DEF Given, c, g, w, b, v

(***************************************************************************)
(* The invariant, part by part, over a queue s and the places P and bios B *)
(* of the processes                                                        *)
(***************************************************************************)
Working(s) == \E d \in Dirs : s.inflight[d] > 0

\* CongestionTracksCount.
Congestion(s) ==
  \A d \in Dirs : /\ s.count[d] < queue_congestion_on_threshold => s.congested[d]
                  /\ s.count[d] >= queue_congestion_off_threshold => ~s.congested[d]

\* The first part of QueueNotForgotten; fi and wo stand for firing and work.
PlugTimed(s, fi, wo) == s.plugged => s.timer \/ fi \/ wo

\* The second part, which needs to know that a stopped queue will be started again; k and st
\* stand for kick and starting.
Attended(s, k, st) ==
  /\ ~elv_queue_empty(s) => s.plugged \/ k \/ st \/ Working(s)
  /\ s.stopped => k \/ Working(s)

\* A wait queue holds a process once, and only while it waits there.
Waiters(s, P, B) ==
  \A d \in Dirs :
    /\ s.wait[d] \in List(Proc)
    /\ \A p \in ToSet(s.wait[d]) : B[p].rw = d /\ P[p] \in {"check", "schedule", "finish"}

Asleep(s, P, B, d) ==
  {p \in Proc : B[p].rw = d /\ P[p] = "schedule" /\ p \in ToSet(s.wait[d])}
Woken(s, P, B, d) ==
  {p \in Proc : /\ B[p].rw = d
                /\ P[p] \in {"check", "schedule", "finish", "get"}
                /\ p \notin ToSet(s.wait[d])}

\* NoLostWakeup made inductive: while somebody sleeps, each free request from the batch on
\* has a process on its way.
EnoughWoken(s, P, B) ==
  \A d \in Dirs :
    Asleep(s, P, B, d) # {} => s.count[d] < Cardinality(Woken(s, P, B, d)) + batch_requests

Holders(P, B, d) == {p \in Proc : P[p] = "again" /\ B[p].rw = d}

\* NoRequestLeak.
Balanced(s, P, B) ==
  \A d \in Dirs :
    s.count[d] + s.queued[d] + s.inflight[d] + Cardinality(Holders(P, B, d)) = queue_nr_requests

(***************************************************************************)
(* Calling the driver                                                      *)
(***************************************************************************)
\* From s to t requests went to the device, or did not; the queue was stopped or not; the
\* plug was removed or not.
Moved(s, t) ==
  /\ t \in QType
  /\ t.count = s.count /\ t.congested = s.congested /\ t.wait = s.wait
  /\ \A d \in Dirs : /\ t.queued[d] + t.inflight[d] = s.queued[d] + s.inflight[d]
                     /\ t.inflight[d] >= s.inflight[d]
  /\ t.plugged => s.plugged /\ t.timer = s.timer
  /\ t.stopped => s.stopped \/ Working(t)

LEMMA MovedSame ==
  ASSUME NEW s \in QType
  PROVE  Moved(s, s)
BY QTypeFields DEF Moved

LEMMA MovedTrans ==
  ASSUME NEW s \in QType, NEW t, NEW u, Moved(s, t), Moved(t, u)
  PROVE  Moved(s, u)
<1>1. \A d \in Dirs : /\ s.queued[d] \in Nat /\ s.inflight[d] \in Nat
                      /\ t.queued[d] \in Nat /\ t.inflight[d] \in Nat
                      /\ u.queued[d] \in Nat /\ u.inflight[d] \in Nat
  BY QTypeFields DEF Moved
<1>2. Working(t) => Working(u)
  BY <1>1 DEF Moved, Working
<1> QED
  BY <1>1, <1>2 DEF Moved

LEMMA RemovePlug ==
  ASSUME NEW s \in QType, NEW t, t = blk_remove_plug(s)
  PROVE  /\ Moved(s, t) /\ ~t.plugged
         /\ t.stopped = s.stopped /\ t.queued = s.queued /\ t.inflight = s.inflight
<1>1. /\ t \in QType /\ ~t.plugged
      /\ t.count = s.count /\ t.congested = s.congested /\ t.wait = s.wait
      /\ t.stopped = s.stopped /\ t.queued = s.queued /\ t.inflight = s.inflight
  BY DEF QType, blk_remove_plug
<1>2. \A d \in Dirs : s.queued[d] \in Nat /\ s.inflight[d] \in Nat
  BY QTypeFields
<1> QED
  BY <1>1, <1>2 DEF Moved

LEMMA StopQueue ==
  ASSUME NEW s \in QType, Working(s), NEW t, t = blk_stop_queue(s)
  PROVE  /\ Moved(s, t)
         /\ t.queued = s.queued /\ t.inflight = s.inflight
<1> DEFINE u == blk_remove_plug(s)
<1>1. Moved(s, u) /\ ~u.plugged /\ u.queued = s.queued /\ u.inflight = s.inflight
  BY RemovePlug
<1>2. u \in QType /\ t = [u EXCEPT !.stopped = TRUE]
  BY <1>1 DEF blk_stop_queue, Moved
<1> HIDE DEF u
<1>3. /\ t \in QType /\ ~t.plugged
      /\ t.count = u.count /\ t.congested = u.congested /\ t.wait = u.wait
      /\ t.queued = u.queued /\ t.inflight = u.inflight
  BY <1>1, <1>2 DEF QType
<1>4. Working(t)
  BY <1>1, <1>3 DEF Working
<1> QED
  BY <1>1, <1>3, <1>4 DEF Moved

\* What the driver takes from the queue s goes to the device, and it stops only when the
\* device has something to end or the queue is empty.
LEMMA RequestFn ==
  ASSUME NEW s \in QType, NEW t \in request_fn(s)
  PROVE  Moved(s, t) /\ (elv_queue_empty(t) \/ Working(t))
<1> DEFINE queued == s.queued[READ] + s.queued[WRITE]
           room == Depth - s.inflight[READ] - s.inflight[WRITE]
           n == IF queued < room THEN queued ELSE room
           Taken == {k \in [Dirs -> 0 .. Depth] :
                       k[READ] + k[WRITE] = n /\ \A d \in Dirs : k[d] <= s.queued[d]}
           after(k) == [s EXCEPT !.queued   = [d \in Dirs |-> @[d] - k[d]],
                                 !.inflight = [d \in Dirs |-> @[d] + k[d]]]
           ran == {after(k) : k \in Taken}
<1>1. t \in IF n < queued THEN ran \cup {blk_stop_queue(r) : r \in ran} ELSE ran
  BY DEF request_fn
<1>2. /\ READ \in Dirs /\ WRITE \in Dirs /\ \A d \in Dirs : d = READ \/ d = WRITE
      /\ \A d \in Dirs : s.queued[d] \in Nat /\ s.inflight[d] \in Nat
      /\ Depth \in Nat \ {0}
  BY QTypeFields, PoolAssumption DEF Dirs, READ, WRITE
<1>3. ASSUME NEW k \in Taken, NEW r, r = after(k)
      PROVE  /\ Moved(s, r)
             /\ elv_queue_empty(r) \/ Working(r)
             /\ n < queued => Working(r)
  <2> DEFINE a == [d \in Dirs |-> s.queued[d] - k[d]]
             b == [d \in Dirs |-> s.inflight[d] + k[d]]
  <2>1. \A d \in Dirs : k[d] \in Nat /\ k[d] <= s.queued[d] /\ k[READ] + k[WRITE] = n
    BY <1>2
  <2>2. a \in [Dirs -> Nat] /\ b \in [Dirs -> Nat]
    BY <1>2, <2>1
  <2>3. r = [s EXCEPT !.queued = a, !.inflight = b]
    BY <1>3
  <2>4. \A d \in Dirs : a[d] = s.queued[d] - k[d] /\ b[d] = s.inflight[d] + k[d]
    OBVIOUS
  <2> HIDE DEF a, b
  <2>5. /\ r \in QType /\ r.queued = a /\ r.inflight = b
        /\ r.count = s.count /\ r.congested = s.congested /\ r.wait = s.wait
        /\ r.plugged = s.plugged /\ r.timer = s.timer /\ r.stopped = s.stopped
    BY <2>2, <2>3 DEF QType
  <2>6. Moved(s, r)
    BY <1>2, <2>1, <2>4, <2>5 DEF Moved
  <2>7. CASE n = queued
    <3>1. k[READ] = s.queued[READ] /\ k[WRITE] = s.queued[WRITE]
      BY <1>2, <2>1, <2>7
    <3>2. \A d \in Dirs : a[d] = 0
      BY <1>2, <2>4, <3>1
    <3>3. elv_queue_empty(r)
      BY <2>5, <3>2 DEF elv_queue_empty
    <3> QED
      BY <1>2, <2>6, <2>7, <3>3
  <2>8. CASE n = room
    <3>1. b[READ] + b[WRITE] = Depth
      BY <1>2, <2>1, <2>4, <2>8
    <3>2. b[READ] > 0 \/ b[WRITE] > 0
      BY <1>2, <2>2, <3>1
    <3>3. Working(r)
      BY <1>2, <2>5, <3>2 DEF Working
    <3> QED
      BY <2>6, <3>3
  <2> QED
    BY <2>7, <2>8
<1> HIDE DEF n, Taken, after, queued
<1>4. CASE t \in ran
  BY <1>3, <1>4
<1>5. CASE t \notin ran
  <2>1. n < queued /\ t \in {blk_stop_queue(r) : r \in ran}
    BY <1>1, <1>5
  <2>2. PICK k \in Taken : t = blk_stop_queue(after(k))
    BY <2>1
  <2> DEFINE r == after(k)
  <2>3. Moved(s, r) /\ Working(r)
    BY <1>3, <2>1
  <2>4. r \in QType /\ t = blk_stop_queue(r)
    BY <2>2, <2>3 DEF Moved
  <2> HIDE DEF r
  <2>5. Moved(r, t) /\ t.inflight = r.inflight
    BY <2>3, <2>4, StopQueue
  <2>6. Moved(s, t)
    BY <2>3, <2>5, MovedTrans
  <2>7. Working(t)
    BY <2>3, <2>5 DEF Working
  <2> QED
    BY <2>6, <2>7
<1> QED
  BY <1>4, <1>5

\* Removing the plug, with the queue run or not, keeps the queue attended to.
LEMMA Unplug ==
  ASSUME NEW s \in QType, NEW k, NEW st, Attended(s, k, st),
         NEW t \in generic_unplug_device(s)
  PROVE  /\ Moved(s, t)
         /\ Attended(t, k, st)
         /\ s.stopped => t.inflight = s.inflight
         /\ ~t.plugged
<1> DEFINE off == blk_remove_plug(s)
<1>1. /\ Moved(s, off) /\ off \in QType /\ ~off.plugged
      /\ off.stopped = s.stopped /\ off.queued = s.queued /\ off.inflight = s.inflight
  BY RemovePlug DEF Moved
<1>2. elv_queue_empty(off) <=> elv_queue_empty(s)
  BY <1>1 DEF elv_queue_empty
<1>3. Working(off) <=> Working(s)
  BY <1>1 DEF Working
<1>4. t \in IF s.plugged /\ ~off.stopped /\ ~elv_queue_empty(off) THEN request_fn(off) ELSE {off}
  BY DEF generic_unplug_device
<1>5. ~s.plugged => off = s
  BY DEF blk_remove_plug
<1> HIDE DEF off
<1>6. CASE s.plugged /\ ~off.stopped /\ ~elv_queue_empty(off)
  <2>1. Moved(off, t) /\ (elv_queue_empty(t) \/ Working(t))
    BY <1>1, <1>4, <1>6, RequestFn
  <2>2. Moved(s, t)
    BY <1>1, <2>1, MovedTrans
  <2>3. Attended(t, k, st)
    BY <1>6, <2>1 DEF Attended, Moved
  <2>4. ~t.plugged
    BY <1>1, <2>1 DEF Moved
  <2> QED
    BY <1>1, <1>6, <2>2, <2>3, <2>4
<1>7. CASE ~(s.plugged /\ ~off.stopped /\ ~elv_queue_empty(off))
  <2>1. t = off
    BY <1>4, <1>7
  <2>2. Attended(off, k, st)
    BY <1>1, <1>2, <1>3, <1>5, <1>7 DEF Attended
  <2> QED
    BY <1>1, <2>1, <2>2
<1> QED
  BY <1>6, <1>7

LEMMA UnplugAtThreshold ==
  ASSUME NEW s \in QType, NEW k, NEW st, Attended(s, k, st),
         NEW t \in unplug_at_threshold(s)
  PROVE  /\ Moved(s, t)
         /\ Attended(t, k, st)
         /\ s.stopped => t.inflight = s.inflight
<1>1. t = s \/ t \in generic_unplug_device(s)
  BY DEF unplug_at_threshold
<1> QED
  BY <1>1, Unplug, MovedSame

(***************************************************************************)
(* Taking a request and putting it back                                    *)
(***************************************************************************)
LEMMA Thresholds ==
  /\ batch_requests \in Nat /\ batch_requests >= 2
  /\ queue_congestion_on_threshold \in Int /\ queue_congestion_off_threshold \in Int
  /\ queue_congestion_on_threshold < queue_congestion_off_threshold
  /\ queue_congestion_off_threshold <= queue_nr_requests
  /\ queue_nr_requests \in Nat
<1>1. queue_nr_requests \in 16 .. 128
  BY PoolAssumption
<1>2. queue_nr_requests \div 8 \in 2 .. 16
  BY <1>1
<1> QED
  BY <1>1, <1>2
     DEF batch_requests, queue_congestion_on_threshold, queue_congestion_off_threshold

LEMMA ProcFinite ==
  ASSUME NEW S \in SUBSET Proc
  PROVE  IsFiniteSet(S) /\ Cardinality(S) \in Nat
BY PoolAssumption, FS_Subset, FS_CardinalityType

\* The invariant of the pool but for the balance of requests.
PoolInv(s, P, B) == Congestion(s) /\ Waiters(s, P, B) /\ EnoughWoken(s, P, B)

LEMMA PoolInvMoved ==
  ASSUME NEW s \in QType, NEW t, Moved(s, t), NEW P, NEW B
  PROVE  /\ PoolInv(s, P, B) => PoolInv(t, P, B)
         /\ Balanced(s, P, B) => Balanced(t, P, B)
<1>1. t.count = s.count /\ t.congested = s.congested /\ t.wait = s.wait
  BY DEF Moved
<1>2. PoolInv(s, P, B) => PoolInv(t, P, B)
  BY <1>1 DEF PoolInv, Congestion, Waiters, EnoughWoken, Asleep, Woken
<1>3. ASSUME Balanced(s, P, B) PROVE Balanced(t, P, B)
  <2> SUFFICES ASSUME NEW d \in Dirs
               PROVE  t.count[d] + t.queued[d] + t.inflight[d] + Cardinality(Holders(P, B, d))
                        = queue_nr_requests
    BY DEF Balanced
  <2> DEFINE h == Cardinality(Holders(P, B, d))
  <2>1. h \in Nat
    BY ProcFinite DEF Holders
  <2>2. /\ s.count[d] \in Nat /\ s.queued[d] \in Nat /\ s.inflight[d] \in Nat
        /\ t.count[d] \in Nat /\ t.queued[d] \in Nat /\ t.inflight[d] \in Nat
    BY QTypeFields DEF Moved
  <2>3. s.count[d] + s.queued[d] + s.inflight[d] + h = queue_nr_requests
    BY <1>3 DEF Balanced
  <2>4. t.queued[d] + t.inflight[d] = s.queued[d] + s.inflight[d]
    BY DEF Moved
  <2> HIDE DEF h
  <2>5. t.count[d] + t.queued[d] + t.inflight[d] + h = queue_nr_requests
    BY <1>1, <2>1, <2>2, <2>3, <2>4
  <2> QED
    BY <2>5 DEF h
<1> QED
  BY <1>2, <1>3

\* get_request: fewer requests are free, nobody is woken.
LEMMA GetKeeps ==
  ASSUME NEW s \in QType, NEW d \in Dirs, s.count[d] > 0, NEW t, t = get_request(s, d),
         NEW P, NEW B, PoolInv(s, P, B)
  PROVE  PoolInv(t, P, B)
<1>0. Got(s, d, t)
  BY GetRequestFields
<1>1. /\ t.count = [s.count EXCEPT ![d] = @ - 1]
      /\ t.congested = [s.congested EXCEPT
                          ![d] = @ \/ s.count[d] - 1 < queue_congestion_on_threshold]
      /\ t.wait = s.wait
  BY <1>0 DEF Got
<1>2. /\ s.count \in [Dirs -> Nat] /\ s.congested \in [Dirs -> BOOLEAN]
  BY QTypeFields
<1>3. Congestion(t)
  <2> DEFINE b == s.congested[d] \/ s.count[d] - 1 < queue_congestion_on_threshold
  <2>1. t.congested[d] = b /\ \A e \in Dirs \ {d} : t.congested[e] = s.congested[e]
    BY <1>1, <1>2, Zenon
  <2>2. t.count[d] = s.count[d] - 1 /\ \A e \in Dirs \ {d} : t.count[e] = s.count[e]
    BY <1>1, <1>2
  <2>3. /\ s.count[d] < queue_congestion_on_threshold => s.congested[d]
        /\ s.count[d] >= queue_congestion_off_threshold => ~s.congested[d]
    BY DEF PoolInv, Congestion
  <2>4. /\ t.count[d] < queue_congestion_on_threshold => b
        /\ t.count[d] >= queue_congestion_off_threshold => ~b
    BY <1>2, <2>2, <2>3, Thresholds
  <2> HIDE DEF b
  <2> SUFFICES ASSUME NEW e \in Dirs
               PROVE  /\ t.count[e] < queue_congestion_on_threshold => t.congested[e]
                      /\ t.count[e] >= queue_congestion_off_threshold => ~t.congested[e]
    BY DEF Congestion
  <2>5. CASE e = d
    BY <2>1, <2>4, <2>5, Zenon
  <2>6. CASE e # d
    BY <2>1, <2>2, <2>6 DEF PoolInv, Congestion
  <2> QED
    BY <2>5, <2>6
<1>4. Waiters(t, P, B)
  BY <1>1 DEF PoolInv, Waiters
<1>5. EnoughWoken(t, P, B)
  <2> SUFFICES ASSUME NEW e \in Dirs, Asleep(t, P, B, e) # {}
               PROVE  t.count[e] < Cardinality(Woken(t, P, B, e)) + batch_requests
    BY DEF EnoughWoken
  <2>1. Asleep(t, P, B, e) = Asleep(s, P, B, e) /\ Woken(t, P, B, e) = Woken(s, P, B, e)
    BY <1>1 DEF Asleep, Woken
  <2>2. s.count[e] < Cardinality(Woken(s, P, B, e)) + batch_requests
    BY <2>1 DEF PoolInv, EnoughWoken
  <2>3. t.count[e] <= s.count[e] /\ t.count[e] \in Int /\ s.count[e] \in Nat
    BY <1>1, <1>2
  <2>4. Cardinality(Woken(s, P, B, e)) \in Nat
    BY ProcFinite DEF Woken
  <2> QED
    BY <2>1, <2>2, <2>3, <2>4, Thresholds
<1> QED
  BY <1>3, <1>4, <1>5 DEF PoolInv

\* blk_put_request: one more request is free; from the batch on one more waiter is woken.
LEMMA PutKeeps ==
  ASSUME NEW s \in QType, NEW d \in Dirs, NEW t, t = blk_put_request(s, d),
         NEW P, NEW B, PoolInv(s, P, B)
  PROVE  PoolInv(t, P, B)
<1> DEFINE wakes == s.count[d] + 1 >= batch_requests /\ s.wait[d] # <<>>
           w == IF wakes THEN Tail(s.wait[d]) ELSE s.wait[d]
<1>0. Given(s, d, t)
  BY PutRequestFields
<1>1. /\ t.count = [s.count EXCEPT ![d] = @ + 1]
      /\ t.congested = [s.congested EXCEPT
                          ![d] = @ /\ s.count[d] + 1 < queue_congestion_off_threshold]
      /\ t.wait = [s.wait EXCEPT ![d] = w]
  BY <1>0 DEF Given
<1>2. /\ s.count \in [Dirs -> Nat] /\ s.congested \in [Dirs -> BOOLEAN]
      /\ s.wait \in [Dirs -> Seq(Proc)]
  BY QTypeFields
<1>3. Congestion(t)
  <2> DEFINE b == s.congested[d] /\ s.count[d] + 1 < queue_congestion_off_threshold
  <2>1. t.congested[d] = b /\ \A e \in Dirs \ {d} : t.congested[e] = s.congested[e]
    BY <1>1, <1>2, Zenon
  <2>2. t.count[d] = s.count[d] + 1 /\ \A e \in Dirs \ {d} : t.count[e] = s.count[e]
    BY <1>1, <1>2
  <2>3. /\ s.count[d] < queue_congestion_on_threshold => s.congested[d]
        /\ s.count[d] >= queue_congestion_off_threshold => ~s.congested[d]
    BY DEF PoolInv, Congestion
  <2>4. /\ t.count[d] < queue_congestion_on_threshold => b
        /\ t.count[d] >= queue_congestion_off_threshold => ~b
    BY <1>2, <2>2, <2>3, Thresholds
  <2> HIDE DEF b
  <2> SUFFICES ASSUME NEW e \in Dirs
               PROVE  /\ t.count[e] < queue_congestion_on_threshold => t.congested[e]
                      /\ t.count[e] >= queue_congestion_off_threshold => ~t.congested[e]
    BY DEF Congestion
  <2>5. CASE e = d
    BY <2>1, <2>4, <2>5, Zenon
  <2>6. CASE e # d
    BY <2>1, <2>2, <2>6 DEF PoolInv, Congestion
  <2> QED
    BY <2>5, <2>6
<1>4. /\ s.wait[d] \in List(Proc) /\ w \in List(Proc) /\ ToSet(w) \subseteq ToSet(s.wait[d])
      /\ \A p \in ToSet(s.wait[d]) : B[p].rw = d /\ P[p] \in {"check", "schedule", "finish"}
  BY TailList DEF PoolInv, Waiters
<1>5. wakes => /\ Head(s.wait[d]) \in ToSet(s.wait[d])
               /\ ToSet(w) = ToSet(s.wait[d]) \ {Head(s.wait[d])}
  BY <1>4, TailList
<1>6. ~wakes => w = s.wait[d]
  OBVIOUS
<1> HIDE DEF w
<1>7. t.wait[d] = w /\ \A e \in Dirs \ {d} : t.wait[e] = s.wait[e] /\ t.count[e] = s.count[e]
  BY <1>1, <1>2
<1>8. Waiters(t, P, B)
  BY <1>4, <1>7 DEF PoolInv, Waiters
<1>9. EnoughWoken(t, P, B)
  <2> SUFFICES ASSUME NEW e \in Dirs, Asleep(t, P, B, e) # {}
               PROVE  t.count[e] < Cardinality(Woken(t, P, B, e)) + batch_requests
    BY DEF EnoughWoken
  <2>1. /\ Cardinality(Woken(s, P, B, e)) \in Nat /\ IsFiniteSet(Woken(s, P, B, e))
        /\ Cardinality(Woken(t, P, B, e)) \in Nat
    BY ProcFinite DEF Woken
  <2>2. CASE e # d
    <3>1. Asleep(t, P, B, e) = Asleep(s, P, B, e) /\ Woken(t, P, B, e) = Woken(s, P, B, e)
      BY <1>7, <2>2 DEF Asleep, Woken
    <3> QED
      BY <1>7, <2>2, <3>1 DEF PoolInv, EnoughWoken
  <2>3. CASE e = d /\ ~wakes
    <3>1. Asleep(t, P, B, d) = Asleep(s, P, B, d)
      BY <1>6, <1>7, <2>3 DEF Asleep
    <3>2. s.wait[d] # <<>>
      BY <2>3, <3>1, <1>4, ListElements DEF Asleep
    <3>3. s.count[d] + 1 < batch_requests /\ t.count[d] = s.count[d] + 1
      BY <1>1, <1>2, <2>3, <3>2, Thresholds
    <3> QED
      BY <1>2, <2>1, <2>3, <3>3, Thresholds
  <2>4. CASE e = d /\ wakes
    <3> DEFINE p == Head(s.wait[d])
    <3>1. p \in ToSet(s.wait[d]) /\ p \notin ToSet(t.wait[d]) /\ p \in Proc
      BY <1>4, <1>5, <1>7, <2>4, ListElements
    <3>2. B[p].rw = d /\ P[p] \in {"check", "schedule", "finish"}
      BY <1>4, <3>1
    <3>3. Woken(t, P, B, d) = Woken(s, P, B, d) \cup {p} /\ p \notin Woken(s, P, B, d)
      BY <1>5, <1>7, <2>4, <3>1, <3>2 DEF Woken
    <3>4. Cardinality(Woken(t, P, B, d)) = Cardinality(Woken(s, P, B, d)) + 1
      BY <2>1, <2>4, <3>3, FS_AddElement
    <3>5. Asleep(s, P, B, d) # {}
      BY <1>4, <1>7, <2>4 DEF Asleep
    <3>6. s.count[d] < Cardinality(Woken(s, P, B, d)) + batch_requests
      BY <3>5 DEF PoolInv, EnoughWoken
    <3>7. t.count[d] = s.count[d] + 1 /\ s.count[d] \in Nat
      BY <1>1, <1>2
    <3> QED
      BY <2>1, <2>4, <3>4, <3>6, <3>7, Thresholds
  <2> QED
    BY <2>2, <2>3, <2>4
<1> QED
  BY <1>3, <1>8, <1>9 DEF PoolInv

(***************************************************************************)
(* Steps of the queue alone                                                *)
(***************************************************************************)
\* The invariant of a queue, with what the processes and the driver are about.
QInv(s, P, B, fi, wo, k, st) ==
  /\ s \in QType
  /\ PoolInv(s, P, B)
  /\ PlugTimed(s, fi, wo)
  /\ Attended(s, k, st)

\* Requests of direction d that no process holds.
Total(s, d) == s.count[d] + s.queued[d] + s.inflight[d]

\* Nothing goes to the device.
NotRun(s, t) == \A d \in Dirs : t.inflight[d] <= s.inflight[d]

LEMMA TotalNat ==
  ASSUME NEW s \in QType, NEW d \in Dirs
  PROVE  /\ s.count[d] \in Nat /\ s.queued[d] \in Nat /\ s.inflight[d] \in Nat
         /\ Total(s, d) \in Nat
BY QTypeFields DEF Total

\* An operation on the pool that leaves queued requests, device and plug alone.
LEMMA QInvPool ==
  ASSUME NEW s, NEW P, NEW B, NEW fi, NEW wo, NEW k, NEW st,
         QInv(s, P, B, fi, wo, k, st), NEW t \in QType, PoolInv(t, P, B),
         t.queued = s.queued, t.inflight = s.inflight,
         t.plugged = s.plugged, t.timer = s.timer, t.stopped = s.stopped
  PROVE  QInv(t, P, B, fi, wo, k, st)
BY DEF QInv, PlugTimed, Attended, elv_queue_empty, Working

\* The queue was run, or unplugged.
LEMMA QInvMoved ==
  ASSUME NEW s, NEW P, NEW B, NEW fi, NEW wo, NEW k, NEW st,
         QInv(s, P, B, fi, wo, k, st), NEW t, Moved(s, t), Attended(t, k, st)
  PROVE  QInv(t, P, B, fi, wo, k, st) /\ \A d \in Dirs : Total(t, d) = Total(s, d)
<1>1. s \in QType /\ PoolInv(s, P, B) /\ PlugTimed(s, fi, wo) /\ t \in QType
  BY DEF QInv, Moved
<1>2. PoolInv(t, P, B)
  BY <1>1, PoolInvMoved
<1>3. PlugTimed(t, fi, wo)
  BY <1>1 DEF PlugTimed, Moved
<1>4. QInv(t, P, B, fi, wo, k, st)
  BY <1>1, <1>2, <1>3 DEF QInv
<1>5. \A d \in Dirs : Total(t, d) = Total(s, d)
  <2> SUFFICES ASSUME NEW d \in Dirs PROVE Total(t, d) = Total(s, d)
    OBVIOUS
  <2>1. /\ s.count[d] \in Nat /\ s.queued[d] \in Nat /\ s.inflight[d] \in Nat
        /\ t.count[d] \in Nat /\ t.queued[d] \in Nat /\ t.inflight[d] \in Nat
    BY <1>1, TotalNat
  <2>2. t.count[d] = s.count[d] /\ t.queued[d] + t.inflight[d] = s.queued[d] + s.inflight[d]
    BY DEF Moved
  <2> QED
    BY <2>1, <2>2 DEF Total
<1> QED
  BY <1>4, <1>5

LEMMA GetStep ==
  ASSUME NEW s, NEW P, NEW B, NEW fi, NEW wo, NEW k, NEW st,
         QInv(s, P, B, fi, wo, k, st), NEW d \in Dirs, s.count[d] > 0,
         NEW t, t = get_request(s, d)
  PROVE  /\ QInv(t, P, B, fi, wo, k, st)
         /\ t.queued = s.queued /\ t.inflight = s.inflight
         /\ t.plugged = s.plugged /\ t.stopped = s.stopped
         /\ Total(t, d) = Total(s, d) - 1
         /\ \A e \in Dirs \ {d} : Total(t, e) = Total(s, e)
<1>1. s \in QType /\ PoolInv(s, P, B)
  BY DEF QInv
<1>0. Got(s, d, t)
  BY <1>1, GetRequestFields
<1>2. /\ t \in QType /\ t.count = [s.count EXCEPT ![d] = @ - 1]
      /\ t.queued = s.queued /\ t.inflight = s.inflight
      /\ t.plugged = s.plugged /\ t.timer = s.timer /\ t.stopped = s.stopped
  BY <1>0 DEF Got
<1>3. PoolInv(t, P, B)
  BY <1>1, GetKeeps
<1>4. QInv(t, P, B, fi, wo, k, st)
  BY <1>2, <1>3, QInvPool
<1>5. \A e \in Dirs : s.count[e] \in Nat /\ s.queued[e] \in Nat /\ s.inflight[e] \in Nat
  BY <1>1, TotalNat
<1>6. t.count[d] = s.count[d] - 1 /\ \A e \in Dirs \ {d} : t.count[e] = s.count[e]
  BY <1>1, <1>2, QTypeFields
<1>7. Total(t, d) = Total(s, d) - 1 /\ \A e \in Dirs \ {d} : Total(t, e) = Total(s, e)
  BY <1>2, <1>5, <1>6 DEF Total
<1> QED
  BY <1>2, <1>4, <1>7

LEMMA PutStep ==
  ASSUME NEW s, NEW P, NEW B, NEW fi, NEW wo, NEW k, NEW st,
         QInv(s, P, B, fi, wo, k, st), NEW d \in Dirs,
         NEW t, t = blk_put_request(s, d)
  PROVE  /\ QInv(t, P, B, fi, wo, k, st)
         /\ t.queued = s.queued /\ t.inflight = s.inflight
         /\ t.plugged = s.plugged /\ t.stopped = s.stopped
         /\ Total(t, d) = Total(s, d) + 1
         /\ \A e \in Dirs \ {d} : Total(t, e) = Total(s, e)
<1>1. s \in QType /\ PoolInv(s, P, B)
  BY DEF QInv
<1>0. Given(s, d, t)
  BY <1>1, PutRequestFields
<1>2. /\ t \in QType /\ t.count = [s.count EXCEPT ![d] = @ + 1]
      /\ t.queued = s.queued /\ t.inflight = s.inflight
      /\ t.plugged = s.plugged /\ t.timer = s.timer /\ t.stopped = s.stopped
  BY <1>0 DEF Given
<1>3. PoolInv(t, P, B)
  BY <1>1, PutKeeps
<1>4. QInv(t, P, B, fi, wo, k, st)
  BY <1>2, <1>3, QInvPool
<1>5. \A e \in Dirs : s.count[e] \in Nat /\ s.queued[e] \in Nat /\ s.inflight[e] \in Nat
  BY <1>1, TotalNat
<1>6. t.count[d] = s.count[d] + 1 /\ \A e \in Dirs \ {d} : t.count[e] = s.count[e]
  BY <1>1, <1>2, QTypeFields
<1>7. Total(t, d) = Total(s, d) + 1 /\ \A e \in Dirs \ {d} : Total(t, e) = Total(s, e)
  BY <1>2, <1>5, <1>6 DEF Total
<1> QED
  BY <1>2, <1>4, <1>7

LEMMA PlugStep ==
  ASSUME NEW s, NEW P, NEW B, NEW fi, NEW wo, NEW k, NEW st,
         QInv(s, P, B, fi, wo, k, st),
         NEW t, t = IF elv_queue_empty(s) THEN blk_plug_device(s) ELSE s
  PROVE  /\ QInv(t, P, B, fi, wo, k, st)
         /\ t.count = s.count /\ t.queued = s.queued /\ t.inflight = s.inflight
         /\ t.stopped = s.stopped /\ (elv_queue_empty(t) => t.plugged)
<1>1. s \in QType /\ PoolInv(s, P, B) /\ PlugTimed(s, fi, wo) /\ Attended(s, k, st)
  BY DEF QInv
<1>2. CASE t = s
  <2>1. elv_queue_empty(s) => s.plugged
    <3> SUFFICES ASSUME elv_queue_empty(s), ~s.plugged PROVE FALSE
      OBVIOUS
    <3>1. t.plugged
      BY <1>1 DEF QType, blk_plug_device
    <3> QED
      BY <1>2, <3>1
  <2> QED
    BY <1>2, <2>1
<1>3. CASE t # s
  <2>1. elv_queue_empty(s) /\ t = [s EXCEPT !.plugged = TRUE, !.timer = TRUE]
    BY <1>3 DEF blk_plug_device
  <2>2. /\ t \in QType /\ t.plugged /\ t.timer /\ t.stopped = s.stopped
        /\ t.count = s.count /\ t.congested = s.congested /\ t.wait = s.wait
        /\ t.queued = s.queued /\ t.inflight = s.inflight
    BY <1>1, <2>1 DEF QType
  <2>3. PoolInv(t, P, B)
    BY <1>1, <2>2 DEF PoolInv, Congestion, Waiters, EnoughWoken, Asleep, Woken
  <2>4. PlugTimed(t, fi, wo) /\ Attended(t, k, st)
    BY <1>1, <2>2 DEF PlugTimed, Attended, Working
  <2> QED
    BY <2>2, <2>3, <2>4 DEF QInv
<1> QED
  BY <1>2, <1>3

\* One queued request more, or one less, n being their new number.
LEMMA QueueStep ==
  ASSUME NEW s, NEW P, NEW B, NEW fi, NEW wo, NEW k, NEW st,
         QInv(s, P, B, fi, wo, k, st), NEW d \in Dirs, NEW n \in Nat,
         elv_queue_empty(s) => s.plugged \/ k \/ st \/ Working(s),
         NEW t, t = [s EXCEPT !.queued[d] = n]
  PROVE  /\ QInv(t, P, B, fi, wo, k, st)
         /\ t.count = s.count /\ t.inflight = s.inflight
         /\ t.plugged = s.plugged /\ t.stopped = s.stopped
         /\ t.queued[d] = n /\ \A e \in Dirs \ {d} : t.queued[e] = s.queued[e]
<1>1. s \in QType /\ PoolInv(s, P, B) /\ PlugTimed(s, fi, wo) /\ Attended(s, k, st)
  BY DEF QInv
<1> DEFINE u == [s.queued EXCEPT ![d] = n]
<1>2. u \in [Dirs -> Nat] /\ u[d] = n /\ \A e \in Dirs \ {d} : u[e] = s.queued[e]
  BY <1>1, QTypeFields
<1>3. t = [s EXCEPT !.queued = u]
  BY <1>1 DEF QType
<1> HIDE DEF u
<1>4. /\ t \in QType /\ t.queued = u
      /\ t.count = s.count /\ t.congested = s.congested /\ t.wait = s.wait
      /\ t.inflight = s.inflight
      /\ t.plugged = s.plugged /\ t.timer = s.timer /\ t.stopped = s.stopped
  BY <1>1, <1>2, <1>3 DEF QType
<1>5. PoolInv(t, P, B)
  BY <1>1, <1>4 DEF PoolInv, Congestion, Waiters, EnoughWoken, Asleep, Woken
<1>6. PlugTimed(t, fi, wo) /\ Attended(t, k, st)
  BY <1>1, <1>4 DEF PlugTimed, Attended, Working
<1> QED
  BY <1>2, <1>4, <1>5, <1>6 DEF QInv

(***************************************************************************)
(* What a submitter does to the queue                                      *)
(***************************************************************************)
\* n more requests of direction d are free, queued or with the device.
Returned(s, t, d, n) ==
  /\ Total(t, d) = Total(s, d) + n
  /\ \A e \in Dirs \ {d} : Total(t, e) = Total(s, e)

LEMMA MergeStep ==
  ASSUME NEW P, NEW B, NEW fi, NEW wo, NEW k, NEW st, QInv(q, P, B, fi, wo, k, st),
         NEW b \in Bios, NEW freereq \in BOOLEAN, merge_bio(b, freereq)
  PROVE  /\ QInv(q', P, B, fi, wo, k, st)
         /\ Returned(q, q', b.rw, IF freereq THEN 1 ELSE 0)
         /\ q.stopped => NotRun(q, q')
<1> DEFINE d == b.rw
<1>0. d \in Dirs /\ q \in QType
  BY PoolAssumption DEF BioType, QInv
<1> HIDE DEF d
<1>1. PICK bridged \in BOOLEAN :
        /\ q.queued[d] > IF bridged THEN 1 ELSE 0
        /\ LET one == IF bridged THEN blk_put_request([q EXCEPT !.queued[d] = @ - 1], d) ELSE q
               two == IF freereq THEN blk_put_request(one, d) ELSE one
           IN q' \in unplug_at_threshold(two)
  BY DEF merge_bio, d
<1> DEFINE less == [q EXCEPT !.queued[d] = q.queued[d] - 1]
           one == IF bridged THEN blk_put_request(less, d) ELSE q
           two == IF freereq THEN blk_put_request(one, d) ELSE one
<1>2. q' \in unplug_at_threshold(two)
  BY <1>1
<1>3. \A e \in Dirs : q.count[e] \in Nat /\ q.queued[e] \in Nat /\ q.inflight[e] \in Nat
                      /\ Total(q, e) \in Nat
  BY <1>0, TotalNat
<1>4. /\ QInv(one, P, B, fi, wo, k, st)
      /\ \A e \in Dirs : Total(one, e) = Total(q, e)
      /\ one.inflight = q.inflight /\ one.stopped = q.stopped
  <2>1. CASE ~bridged
    BY <2>1
  <2>2. CASE bridged
    <3>1. q.queued[d] - 1 \in Nat /\ ~elv_queue_empty(q)
      BY <1>0, <1>1, <1>3, <2>2 DEF elv_queue_empty
    <3>2. QInv(less, P, B, fi, wo, k, st)
      BY <1>0, <3>1, QueueStep
    <3>3. less.count = q.count /\ less.inflight = q.inflight /\ less.stopped = q.stopped
      BY <1>0, <3>1, QueueStep
    <3>4. less.queued[d] = q.queued[d] - 1 /\ \A e \in Dirs \ {d} : less.queued[e] = q.queued[e]
      BY <1>0 DEF QType
    <3>5. Total(less, d) = Total(q, d) - 1 /\ \A e \in Dirs \ {d} : Total(less, e) = Total(q, e)
      BY <1>0, <1>3, <3>3, <3>4 DEF Total
    <3>6. one = blk_put_request(less, d)
      BY <2>2
    <3> HIDE DEF less, one
    <3>7. QInv(one, P, B, fi, wo, k, st)
      BY <1>0, <3>2, <3>6, PutStep
    <3>8. one.inflight = less.inflight /\ one.stopped = less.stopped
      BY <1>0, <3>2, <3>6, PutStep
    <3>9. Total(one, d) = Total(less, d) + 1 /\ \A e \in Dirs \ {d} : Total(one, e) = Total(less, e)
      BY <1>0, <3>2, <3>6, PutStep
    <3>10. \A e \in Dirs : Total(one, e) = Total(q, e)
      BY <1>0, <1>3, <3>5, <3>9
    <3> QED
      BY <3>3, <3>7, <3>8, <3>10
  <2> QED
    BY <2>1, <2>2
<1> HIDE DEF less, one
<1>5. /\ QInv(two, P, B, fi, wo, k, st)
      /\ Returned(q, two, d, IF freereq THEN 1 ELSE 0)
      /\ two.inflight = q.inflight /\ two.stopped = q.stopped
  <2>1. CASE ~freereq
    <3>1. Returned(q, one, d, 0)
      BY <1>0, <1>3, <1>4 DEF Returned
    <3> QED
      BY <1>4, <2>1, <3>1
  <2>2. CASE freereq
    <3>1. two = blk_put_request(one, d)
      BY <2>2
    <3> HIDE DEF two
    <3>2. QInv(two, P, B, fi, wo, k, st)
      BY <1>0, <1>4, <3>1, PutStep
    <3>3. two.inflight = one.inflight /\ two.stopped = one.stopped
      BY <1>0, <1>4, <3>1, PutStep
    <3>4. Total(two, d) = Total(one, d) + 1 /\ \A e \in Dirs \ {d} : Total(two, e) = Total(one, e)
      BY <1>0, <1>4, <3>1, PutStep
    <3>5. Returned(q, two, d, 1)
      BY <1>0, <1>4, <3>4 DEF Returned
    <3> QED
      BY <1>4, <2>2, <3>2, <3>3, <3>5
  <2> QED
    BY <2>1, <2>2
<1> HIDE DEF two
<1>6. two \in QType /\ Attended(two, k, st)
  BY <1>5 DEF QInv
<1>7. Moved(two, q') /\ Attended(q', k, st)
  BY <1>2, <1>6, UnplugAtThreshold
<1>8. two.stopped => q'.inflight = two.inflight
  BY <1>2, <1>6, UnplugAtThreshold
<1>9. QInv(q', P, B, fi, wo, k, st) /\ \A e \in Dirs : Total(q', e) = Total(two, e)
  BY <1>5, <1>7, QInvMoved
<1>10. q.stopped => NotRun(q, q')
  BY <1>3, <1>5, <1>8 DEF NotRun
<1> QED
  BY <1>0, <1>5, <1>9, <1>10 DEF Returned, d

LEMMA AddStep ==
  ASSUME NEW P, NEW B, NEW fi, NEW wo, NEW k, NEW st, QInv(q, P, B, fi, wo, k, st),
         NEW b \in Bios, NEW freereq \in BOOLEAN, add_request(b, freereq)
  PROVE  /\ QInv(q', P, B, fi, wo, k, st)
         /\ Returned(q, q', b.rw, IF freereq THEN 1 ELSE 0)
         /\ q.stopped => NotRun(q, q')
<1> DEFINE d == b.rw
           s == IF elv_queue_empty(q) THEN blk_plug_device(q) ELSE q
           got == IF freereq THEN s ELSE get_request(s, d)
           more == [got EXCEPT !.queued[d] = got.queued[d] + 1]
<1>0. d \in Dirs /\ q \in QType
  BY PoolAssumption DEF BioType, QInv
<1>1. /\ freereq \/ s.count[d] > 0
      /\ q' \in unplug_at_threshold(more)
  BY DEF add_request
<1> HIDE DEF d
<1>2. QInv(s, P, B, fi, wo, k, st)
  BY PlugStep
<1>3. s.count = q.count /\ s.queued = q.queued /\ s.inflight = q.inflight
  BY PlugStep
<1>4. s.stopped = q.stopped /\ (elv_queue_empty(s) => s.plugged)
  BY PlugStep
<1>5. \A e \in Dirs : Total(s, e) = Total(q, e)
  BY <1>3 DEF Total
<1>6. \A e \in Dirs : q.count[e] \in Nat /\ q.queued[e] \in Nat /\ q.inflight[e] \in Nat
                      /\ Total(q, e) \in Nat
  BY <1>0, TotalNat
<1> HIDE DEF s
<1>7. /\ QInv(got, P, B, fi, wo, k, st)
      /\ Returned(q, got, d, IF freereq THEN 0 ELSE -1)
      /\ got.queued = q.queued /\ got.inflight = q.inflight /\ got.stopped = q.stopped
      /\ got.plugged = s.plugged
  <2>1. CASE freereq
    <3>1. Returned(q, s, d, 0)
      BY <1>0, <1>5, <1>6 DEF Returned
    <3> QED
      BY <1>2, <1>3, <1>4, <2>1, <3>1
  <2>2. CASE ~freereq
    <3>1. got = get_request(s, d) /\ s.count[d] > 0
      BY <1>1, <2>2
    <3> HIDE DEF got
    <3>2. QInv(got, P, B, fi, wo, k, st)
      BY <1>0, <1>2, <3>1, GetStep
    <3>3. got.queued = s.queued /\ got.inflight = s.inflight
      BY <1>0, <1>2, <3>1, GetStep
    <3>4. got.plugged = s.plugged /\ got.stopped = s.stopped
      BY <1>0, <1>2, <3>1, GetStep
    <3>5. Total(got, d) = Total(s, d) - 1 /\ \A e \in Dirs \ {d} : Total(got, e) = Total(s, e)
      BY <1>0, <1>2, <3>1, GetStep
    <3>6. Returned(q, got, d, -1)
      BY <1>0, <1>5, <1>6, <3>5 DEF Returned
    <3> QED
      BY <1>3, <1>4, <2>2, <3>2, <3>3, <3>4, <3>6
  <2> QED
    BY <2>1, <2>2
<1> HIDE DEF got
<1>8. got.queued[d] + 1 \in Nat /\ (elv_queue_empty(got) => got.plugged)
  BY <1>0, <1>3, <1>4, <1>6, <1>7 DEF elv_queue_empty
<1>9. QInv(more, P, B, fi, wo, k, st)
  BY <1>0, <1>7, <1>8, QueueStep
<1>10. more.count = got.count /\ more.inflight = got.inflight /\ more.stopped = got.stopped
  BY <1>0, <1>7, <1>8, QueueStep
<1>11. got \in QType
  BY <1>7 DEF QInv
<1>11a. more.queued[d] = got.queued[d] + 1 /\ \A e \in Dirs \ {d} : more.queued[e] = got.queued[e]
  BY <1>0, <1>11 DEF QType
<1> HIDE DEF more
<1>12. more \in QType /\ Attended(more, k, st)
  BY <1>9 DEF QInv
<1>13. \A e \in Dirs : got.count[e] \in Nat /\ got.queued[e] \in Nat /\ got.inflight[e] \in Nat
  BY <1>11, TotalNat
<1>14. Total(more, d) = Total(got, d) + 1 /\ \A e \in Dirs \ {d} : Total(more, e) = Total(got, e)
  BY <1>0, <1>10, <1>11a, <1>13 DEF Total
<1>15. Returned(q, more, d, IF freereq THEN 1 ELSE 0)
  BY <1>0, <1>6, <1>7, <1>14 DEF Returned
<1>16. Moved(more, q') /\ Attended(q', k, st)
  BY <1>1, <1>12, UnplugAtThreshold
<1>17. more.stopped => q'.inflight = more.inflight
  BY <1>1, <1>12, UnplugAtThreshold
<1>6a. QInv(q', P, B, fi, wo, k, st) /\ \A e \in Dirs : Total(q', e) = Total(more, e)
  BY <1>9, <1>16, QInvMoved
<1>19. q.stopped => NotRun(q, q')
  BY <1>6, <1>7, <1>10, <1>17 DEF NotRun
<1> QED
  BY <1>0, <1>15, <1>6a, <1>19 DEF Returned, d

(***************************************************************************)
(* A process moves on                                                      *)
(***************************************************************************)
Places == {"idle", "unplug", "prepare", "check", "schedule", "finish", "get", "again", "congestion"}

\* Where a process does not count for the wait queue.
Quiet == {"idle", "unplug", "prepare", "again", "congestion"}

\* Only process p moves, from P and B to P2 and B2.
Others(p, P, B, P2, B2) == \A r \in Proc \ {p} : P2[r] = P[r] /\ B2[r] = B[r]

LEMMA QuietMove ==
  ASSUME NEW s, NEW P, NEW B, NEW P2, NEW B2, NEW p \in Proc, Others(p, P, B, P2, B2),
         P[p] \in Quiet, P2[p] \in Quiet, PoolInv(s, P, B)
  PROVE  PoolInv(s, P2, B2)
<1>1. \A d \in Dirs : s.wait[d] \in List(Proc) /\ ToSet(s.wait[d]) \subseteq Proc
  BY ListElements DEF PoolInv, Waiters
<1>2. \A d \in Dirs : p \notin ToSet(s.wait[d])
  BY DEF PoolInv, Waiters, Quiet
<1>3. Waiters(s, P2, B2)
  BY <1>1, <1>2 DEF PoolInv, Waiters, Others
<1>4. \A d \in Dirs : /\ Asleep(s, P2, B2, d) = Asleep(s, P, B, d)
                      /\ Woken(s, P2, B2, d) = Woken(s, P, B, d)
  BY DEF Asleep, Woken, Others, Quiet
<1> QED
  BY <1>3, <1>4 DEF PoolInv, EnoughWoken

LEMMA QInvProcs ==
  ASSUME NEW s, NEW P, NEW B, NEW fi, NEW wo, NEW k, NEW st,
         QInv(s, P, B, fi, wo, k, st), NEW P2, NEW B2, PoolInv(s, P2, B2)
  PROVE  QInv(s, P2, B2, fi, wo, k, st)
BY DEF QInv

\* The processes that hold a request, when p gets one, gives it up or does neither.
LEMMA HoldersSame ==
  ASSUME NEW P, NEW B, NEW P2, NEW B2, NEW p \in Proc, Others(p, P, B, P2, B2),
         P[p] # "again", P2[p] # "again", NEW d
  PROVE  Holders(P2, B2, d) = Holders(P, B, d)
BY DEF Holders, Others

LEMMA HoldersMore ==
  ASSUME NEW P, NEW B, NEW P2, NEW B2, NEW p \in Proc, Others(p, P, B, P2, B2),
         P[p] # "again", P2[p] = "again"
  PROVE  /\ Cardinality(Holders(P2, B2, B2[p].rw)) = Cardinality(Holders(P, B, B2[p].rw)) + 1
         /\ \A e \in Dirs \ {B2[p].rw} : Holders(P2, B2, e) = Holders(P, B, e)
<1> DEFINE d == B2[p].rw
<1>1. Holders(P2, B2, d) = Holders(P, B, d) \cup {p} /\ p \notin Holders(P, B, d)
  BY DEF Holders, Others
<1>2. IsFiniteSet(Holders(P, B, d))
  BY ProcFinite DEF Holders
<1>3. Cardinality(Holders(P2, B2, d)) = Cardinality(Holders(P, B, d)) + 1
  BY <1>1, <1>2, FS_AddElement
<1>4. \A e \in Dirs \ {d} : Holders(P2, B2, e) = Holders(P, B, e)
  BY DEF Holders, Others
<1> QED
  BY <1>3, <1>4

LEMMA HoldersLess ==
  ASSUME NEW P, NEW B, NEW P2, NEW B2, NEW p \in Proc, Others(p, P, B, P2, B2),
         P[p] = "again", P2[p] # "again"
  PROVE  /\ Cardinality(Holders(P2, B2, B[p].rw)) = Cardinality(Holders(P, B, B[p].rw)) - 1
         /\ \A e \in Dirs \ {B[p].rw} : Holders(P2, B2, e) = Holders(P, B, e)
<1> DEFINE d == B[p].rw
<1>1. Holders(P2, B2, d) = Holders(P, B, d) \ {p} /\ p \in Holders(P, B, d)
  BY DEF Holders, Others
<1>2. IsFiniteSet(Holders(P, B, d))
  BY ProcFinite DEF Holders
<1>3. Cardinality(Holders(P2, B2, d)) = Cardinality(Holders(P, B, d)) - 1
  BY <1>1, <1>2, FS_RemoveElement
<1>4. \A e \in Dirs \ {d} : Holders(P2, B2, e) = Holders(P, B, e)
  BY DEF Holders, Others
<1> QED
  BY <1>3, <1>4

\* n requests of direction d went from processes back to the queue s, which became t.
LEMMA BalancedStep ==
  ASSUME NEW s \in QType, NEW t \in QType, NEW d \in Dirs, NEW n \in Int, Returned(s, t, d, n),
         NEW P, NEW B, NEW P2, NEW B2, Balanced(s, P, B),
         Cardinality(Holders(P2, B2, d)) = Cardinality(Holders(P, B, d)) - n,
         \A e \in Dirs \ {d} : Holders(P2, B2, e) = Holders(P, B, e)
  PROVE  Balanced(t, P2, B2)
<1> SUFFICES ASSUME NEW e \in Dirs
             PROVE  Total(t, e) + Cardinality(Holders(P2, B2, e)) = queue_nr_requests
  BY DEF Balanced, Total
<1>1. Total(s, e) \in Nat /\ Total(t, e) \in Nat /\ Cardinality(Holders(P, B, e)) \in Nat
  BY TotalNat, ProcFinite DEF Holders
<1>2. Total(s, e) + Cardinality(Holders(P, B, e)) = queue_nr_requests
  BY DEF Balanced, Total
<1>3. CASE e = d
  BY <1>1, <1>2, <1>3 DEF Returned
<1>4. CASE e # d
  BY <1>1, <1>2, <1>4 DEF Returned
<1> QED
  BY <1>3, <1>4

(***************************************************************************)
(* The inductive invariant                                                 *)
(***************************************************************************)
RestType ==
  /\ firing \in BOOLEAN /\ work \in BOOLEAN /\ kick \in BOOLEAN /\ starting \in BOOLEAN
  /\ pc \in [Proc -> Places]
  /\ bio \in [Proc -> Bios]
  /\ left \in Nat

Inv ==
  /\ RestType
  /\ QInv(q, pc, bio, firing, work, kick, starting)
  /\ Balanced(q, pc, bio)

LEMMA InvInit == Init => Inv
<1> SUFFICES ASSUME Init PROVE Inv
  OBVIOUS
<1>1. none \in Bios
  BY PoolAssumption DEF none
<1>2. RestType
  BY <1>1, PoolAssumption DEF Init, RestType, Places
<1>3. /\ q \in QType /\ ~q.plugged /\ ~q.stopped
      /\ \A d \in Dirs : /\ q.count[d] = queue_nr_requests /\ q.queued[d] = 0
                         /\ q.inflight[d] = 0 /\ q.congested[d] = FALSE /\ q.wait[d] = <<>>
  BY Thresholds, EmptySeq DEF Init, QType
<1>4. <<>> \in List(Proc) /\ ToSet(<<>>) = {}
  BY EmptySeq DEF List, IsInjective, ToSet
<1>5. PoolInv(q, pc, bio)
  <2>1. Congestion(q)
    BY <1>3, Thresholds DEF Congestion
  <2>2. Waiters(q, pc, bio)
    BY <1>3, <1>4 DEF Waiters
  <2>3. EnoughWoken(q, pc, bio)
    BY <1>3, <1>4 DEF EnoughWoken, Asleep
  <2> QED
    BY <2>1, <2>2, <2>3 DEF PoolInv
<1>6. Attended(q, kick, starting) /\ PlugTimed(q, firing, work)
  BY <1>3 DEF Attended, PlugTimed, elv_queue_empty
<1>7. Balanced(q, pc, bio)
  <2>1. \A d \in Dirs : Holders(pc, bio, d) = {}
    BY DEF Init, Holders
  <2>2. \A d \in Dirs : Cardinality(Holders(pc, bio, d)) = 0
    BY <2>1, FS_EmptySet
  <2> QED
    BY <1>3, <2>2, Thresholds DEF Balanced
<1> QED
  BY <1>2, <1>3, <1>5, <1>6, <1>7 DEF Inv, QInv

\* goto moves one process; its bio is forgotten when it is done.
LEMMA GotoMoves ==
  ASSUME NEW p \in Proc, NEW l \in Places, RestType, goto(p, l)
  PROVE  /\ pc' \in [Proc -> Places] /\ bio' \in [Proc -> Bios]
         /\ pc'[p] = l /\ (l # "idle" => bio' = bio)
         /\ Others(p, pc, bio, pc', bio')
<1>1. none \in Bios
  BY PoolAssumption DEF none
<1> QED
  BY <1>1 DEF RestType, goto, Others

\* A step of the queue during which p stays away from the wait queue and n more requests of
\* direction d than before are not held by p.
LEMMA QuietStep ==
  ASSUME Inv, RestType', NEW p \in Proc, Others(p, pc, bio, pc', bio'),
         pc[p] \in Quiet, pc'[p] \in Quiet,
         QInv(q', pc, bio, firing', work', kick', starting'),
         NEW d \in Dirs, NEW n \in Int, Returned(q, q', d, n),
         Cardinality(Holders(pc', bio', d)) = Cardinality(Holders(pc, bio, d)) - n,
         \A e \in Dirs \ {d} : Holders(pc', bio', e) = Holders(pc, bio, e)
  PROVE  Inv'
<1>1. PoolInv(q', pc', bio')
  BY QuietMove DEF QInv
<1>2. QInv(q', pc', bio', firing', work', kick', starting')
  BY <1>1, QInvProcs
<1>3. q \in QType /\ q' \in QType
  BY DEF Inv, QInv
<1>4. Balanced(q', pc', bio')
  BY <1>3, BalancedStep DEF Inv
<1> QED
  BY <1>2, <1>4 DEF Inv

\* A step during which no process moves.
LEMMA QueueOnly ==
  ASSUME Inv, RestType', UNCHANGED <<pc, bio>>,
         QInv(q', pc, bio, firing', work', kick', starting'),
         NEW d \in Dirs, Returned(q, q', d, 0)
  PROVE  Inv'
<1>1. Cardinality(Holders(pc, bio, d)) = Cardinality(Holders(pc, bio, d)) - 0
  BY ProcFinite DEF Holders
<1>2. q \in QType /\ q' \in QType /\ Balanced(q, pc, bio)
  BY DEF Inv, QInv
<1>3. Balanced(q', pc, bio)
  BY <1>1, <1>2, BalancedStep
<1> QED
  BY <1>3 DEF Inv

\* A step in which p neither gets nor gives up a request.
LEMMA HeldSame ==
  ASSUME Inv, NEW p \in Proc, Others(p, pc, bio, pc', bio'),
         pc[p] # "again", pc'[p] # "again", q' \in QType,
         NEW d \in Dirs, Returned(q, q', d, 0)
  PROVE  Balanced(q', pc', bio')
<1>1. \A e \in Dirs : Holders(pc', bio', e) = Holders(pc, bio, e)
  BY HoldersSame
<1>2. Cardinality(Holders(pc, bio, d)) \in Nat
  BY ProcFinite DEF Holders
<1>3. Cardinality(Holders(pc', bio', d)) = Cardinality(Holders(pc, bio, d))
  BY <1>1
<1>4. Cardinality(Holders(pc', bio', d)) = Cardinality(Holders(pc, bio, d)) - 0
  BY <1>2, <1>3
<1>5. q \in QType /\ Balanced(q, pc, bio)
  BY DEF Inv, QInv
<1> QED
  BY <1>1, <1>4, <1>5, BalancedStep

LEMMA QuietSame ==
  ASSUME Inv, RestType', NEW p \in Proc, Others(p, pc, bio, pc', bio'),
         pc[p] \in Quiet \ {"again"}, pc'[p] \in Quiet \ {"again"},
         QInv(q', pc, bio, firing', work', kick', starting'),
         NEW d \in Dirs, Returned(q, q', d, 0)
  PROVE  Inv'
<1>1. PoolInv(q', pc', bio')
  BY QuietMove DEF QInv
<1>2. QInv(q', pc', bio', firing', work', kick', starting')
  BY <1>1, QInvProcs
<1>3. Balanced(q', pc', bio')
  BY HeldSame DEF QInv
<1> QED
  BY <1>2, <1>3 DEF Inv

\* Nothing was returned.
LEMMA ReturnedNone ==
  ASSUME NEW s \in QType, NEW t, \A d \in Dirs : Total(t, d) = Total(s, d)
  PROVE  \A d \in Dirs : Returned(s, t, d, 0)
BY TotalNat DEF Returned

(***************************************************************************)
(* Submitters                                                              *)
(***************************************************************************)
LEMMA MakeRequestStep ==
  ASSUME Inv, NEW p \in Proc, NEW b \in Bios, make_request(p, b)
  PROVE  Inv' /\ (q.stopped => NotRun(q, q'))
<1>0. /\ RestType /\ QInv(q, pc, bio, firing, work, kick, starting) /\ q \in QType
      /\ b.rw \in Dirs /\ \A d \in Dirs : q.inflight[d] \in Nat
  BY PoolAssumption, TotalNat DEF Inv, QInv, BioType
<1>1. left' \in Nat /\ UNCHANGED <<firing, work, kick, starting>>
  BY <1>0, PoolAssumption DEF make_request, RestType
<1>2. CASE (merge_bio(b, FALSE) \/ add_request(b, FALSE)) /\ UNCHANGED <<pc, bio>>
  <2>1. QInv(q', pc, bio, firing, work, kick, starting)
    BY <1>0, <1>2, MergeStep, AddStep
  <2>2. Returned(q, q', b.rw, IF FALSE THEN 1 ELSE 0)
    BY <1>0, <1>2, MergeStep, AddStep
  <2>3. q.stopped => NotRun(q, q')
    BY <1>0, <1>2, MergeStep, AddStep
  <2>4. RestType'
    BY <1>0, <1>1, <1>2 DEF RestType
  <2>5. Inv'
    BY <1>0, <1>1, <1>2, <2>1, <2>2, <2>4, QueueOnly
  <2> QED
    BY <2>3, <2>5
<1>3. CASE /\ no_request(b)
           /\ \/ UNCHANGED <<pc, bio>>
              \/ pc' = [pc EXCEPT ![p] = "unplug"] /\ bio' = [bio EXCEPT ![p] = b]
  <2>1. q' = IF elv_queue_empty(q) THEN blk_plug_device(q) ELSE q
    BY <1>3 DEF no_request
  <2>2. QInv(q', pc, bio, firing, work, kick, starting)
    BY <1>0, <2>1, PlugStep
  <2>3. q'.count = q.count /\ q'.queued = q.queued /\ q'.inflight = q.inflight
    BY <1>0, <2>1, PlugStep
  <2>4. Returned(q, q', b.rw, 0)
    BY <1>0, <2>3, ReturnedNone DEF Total
  <2>5. NotRun(q, q')
    BY <1>0, <2>3 DEF NotRun
  <2>6. CASE UNCHANGED <<pc, bio>>
    <3>1. RestType'
      BY <1>0, <1>1, <2>6 DEF RestType
    <3> QED
      BY <1>0, <1>1, <2>2, <2>4, <2>5, <2>6, <3>1, QueueOnly
  <2>7. CASE pc' = [pc EXCEPT ![p] = "unplug"] /\ bio' = [bio EXCEPT ![p] = b]
    <3>1. RestType'
      BY <1>0, <1>1, <2>7 DEF RestType, Places
    <3>2. Others(p, pc, bio, pc', bio') /\ pc'[p] = "unplug" /\ pc[p] = "idle"
      BY <1>0, <2>7 DEF RestType, Others, make_request
    <3>3. pc[p] \in Quiet \ {"again"} /\ pc'[p] \in Quiet \ {"again"}
      BY <3>2 DEF Quiet
    <3>4. QInv(q', pc, bio, firing', work', kick', starting')
      BY <1>1, <2>2
    <3>5. Inv'
      BY <1>0, <2>4, <3>1, <3>2, <3>3, <3>4, QuietSame
    <3> QED
      BY <2>5, <3>5
  <2> QED
    BY <1>3, <2>6, <2>7
<1> QED
  BY <1>2, <1>3 DEF make_request

LEMMA AgainStep ==
  ASSUME Inv, NEW p \in Proc, again(p)
  PROVE  Inv' /\ (q.stopped => NotRun(q, q'))
<1> DEFINE b == bio[p]
<1>0. /\ RestType /\ QInv(q, pc, bio, firing, work, kick, starting)
      /\ b \in Bios /\ b.rw \in Dirs
  BY PoolAssumption DEF Inv, RestType, BioType
<1>1. /\ merge_bio(b, TRUE) \/ add_request(b, TRUE)
      /\ pc[p] = "again" /\ goto(p, "idle") /\ UNCHANGED <<firing, work, kick, starting, left>>
  BY DEF again
<1> HIDE DEF b
<1>2. QInv(q', pc, bio, firing, work, kick, starting)
  BY <1>0, <1>1, MergeStep, AddStep
<1>3. Returned(q, q', b.rw, IF TRUE THEN 1 ELSE 0)
  BY <1>0, <1>1, MergeStep, AddStep
<1>4. q.stopped => NotRun(q, q')
  BY <1>0, <1>1, MergeStep, AddStep
<1>5. /\ pc' \in [Proc -> Places] /\ bio' \in [Proc -> Bios] /\ pc'[p] = "idle"
      /\ Others(p, pc, bio, pc', bio')
  BY <1>0, <1>1, GotoMoves DEF Places
<1>6. RestType'
  BY <1>0, <1>1, <1>5 DEF RestType
<1>7. Cardinality(Holders(pc', bio', bio[p].rw)) = Cardinality(Holders(pc, bio, bio[p].rw)) - 1
  BY <1>1, <1>5, HoldersLess
<1>8. \A e \in Dirs \ {bio[p].rw} : Holders(pc', bio', e) = Holders(pc, bio, e)
  BY <1>1, <1>5, HoldersLess
<1>9. pc[p] \in Quiet /\ pc'[p] \in Quiet
  BY <1>1, <1>5 DEF Quiet
<1>10. QInv(q', pc, bio, firing', work', kick', starting')
  BY <1>1, <1>2
<1>11. Returned(q, q', bio[p].rw, 1) /\ bio[p].rw \in Dirs
  BY <1>0, <1>3 DEF b
<1>12. Inv'
  BY <1>5, <1>6, <1>7, <1>8, <1>9, <1>10, <1>11, QuietStep
<1> QED
  BY <1>4, <1>12

LEMMA GetRequestStep ==
  ASSUME Inv, NEW p \in Proc, NEW b \in Bios, blk_get_request(p, b)
  PROVE  Inv' /\ NotRun(q, q')
<1>0. /\ RestType /\ QInv(q, pc, bio, firing, work, kick, starting) /\ q \in QType
      /\ b.rw \in Dirs /\ \A d \in Dirs : q.inflight[d] \in Nat
  BY PoolAssumption, TotalNat DEF Inv, QInv, BioType
<1>1. left' \in Nat /\ UNCHANGED <<firing, work, kick, starting>> /\ pc[p] = "idle"
  BY <1>0, PoolAssumption DEF blk_get_request, RestType
<1>2. CASE q.count[b.rw] > 0
  <2>1. q' = get_request(q, b.rw) /\ pc' = [pc EXCEPT ![p] = "again"] /\ bio' = [bio EXCEPT ![p] = b]
    BY <1>2 DEF blk_get_request
  <2>2. QInv(q', pc, bio, firing, work, kick, starting)
    BY <1>0, <1>2, <2>1, GetStep
  <2>3. q'.inflight = q.inflight
    BY <1>0, <1>2, <2>1, GetStep
  <2>4. Total(q', b.rw) = Total(q, b.rw) - 1
    BY <1>0, <1>2, <2>1, GetStep
  <2>5. \A e \in Dirs \ {b.rw} : Total(q', e) = Total(q, e)
    BY <1>0, <1>2, <2>1, GetStep
  <2>6. Returned(q, q', b.rw, -1)
    BY <1>0, <2>4, <2>5, TotalNat DEF Returned
  <2>7. /\ RestType' /\ Others(p, pc, bio, pc', bio') /\ pc'[p] = "again" /\ bio'[p] = b
    BY <1>0, <1>1, <2>1 DEF RestType, Places, Others
  <2>8. Cardinality(Holders(pc', bio', b.rw)) = Cardinality(Holders(pc, bio, b.rw)) + 1
    BY <1>1, <2>7, HoldersMore
  <2>9. \A e \in Dirs \ {b.rw} : Holders(pc', bio', e) = Holders(pc, bio, e)
    BY <1>1, <2>7, HoldersMore
  <2>10. Cardinality(Holders(pc', bio', b.rw)) = Cardinality(Holders(pc, bio, b.rw)) - (-1)
    <3>1. Cardinality(Holders(pc, bio, b.rw)) \in Nat
      BY ProcFinite DEF Holders
    <3> QED
      BY <2>8, <3>1
  <2>11. pc[p] \in Quiet /\ pc'[p] \in Quiet
    BY <1>1, <2>7 DEF Quiet
  <2>12. QInv(q', pc, bio, firing', work', kick', starting')
    BY <1>1, <2>2
  <2>13. Inv'
    BY <1>0, <2>6, <2>7, <2>9, <2>10, <2>11, <2>12, QuietStep
  <2>14. NotRun(q, q')
    BY <1>0, <2>3 DEF NotRun
  <2> QED
    BY <2>13, <2>14
<1>3. CASE ~(q.count[b.rw] > 0)
  <2>1. q' = q /\ pc' = [pc EXCEPT ![p] = "unplug"] /\ bio' = [bio EXCEPT ![p] = b]
    BY <1>3 DEF blk_get_request
  <2>2. RestType' /\ Others(p, pc, bio, pc', bio') /\ pc'[p] = "unplug"
    BY <1>0, <1>1, <2>1 DEF RestType, Places, Others
  <2>3. pc[p] \in Quiet \ {"again"} /\ pc'[p] \in Quiet \ {"again"}
    BY <1>1, <2>2 DEF Quiet
  <2>4. QInv(q', pc, bio, firing', work', kick', starting')
    BY <1>0, <1>1, <2>1
  <2>5. Returned(q, q', b.rw, 0)
    BY <1>0, <2>1, ReturnedNone
  <2>6. Inv'
    BY <1>0, <2>2, <2>3, <2>4, <2>5, QuietSame
  <2>7. NotRun(q, q')
    BY <1>0, <2>1 DEF NotRun
  <2> QED
    BY <2>6, <2>7
<1> QED
  BY <1>2, <1>3

\* The driver is called with one request more; whatever it takes, the queue is attended to.
LEMMA InsertStep ==
  ASSUME Inv, NEW p \in Proc, blk_insert_request(p)
  PROVE  Inv'
<1> DEFINE d == bio[p].rw
           u == [q.queued EXCEPT ![d] = q.queued[d] + 1]
           s == [q EXCEPT !.queued = u]
<1>0. /\ RestType /\ QInv(q, pc, bio, firing, work, kick, starting)
      /\ d \in Dirs /\ q \in QType /\ PoolInv(q, pc, bio) /\ PlugTimed(q, firing, work)
      /\ Attended(q, kick, starting)
  BY PoolAssumption DEF Inv, RestType, BioType, QInv
<1>1. /\ pc[p] = "again" /\ goto(p, "idle") /\ UNCHANGED <<firing, work, kick, starting, left>>
  BY DEF blk_insert_request
<1>2. q' \in request_fn(s)
  BY <1>0 DEF blk_insert_request, QType
<1> HIDE DEF d
<1>3. u \in [Dirs -> Nat] /\ u[d] = q.queued[d] + 1 /\ \A e \in Dirs \ {d} : u[e] = q.queued[e]
  BY <1>0, QTypeFields
<1> HIDE DEF u
<1>4. /\ s \in QType /\ s.queued = u
      /\ s.count = q.count /\ s.congested = q.congested /\ s.wait = q.wait
      /\ s.inflight = q.inflight
      /\ s.plugged = q.plugged /\ s.timer = q.timer /\ s.stopped = q.stopped
  BY <1>0, <1>3 DEF QType
<1> HIDE DEF s
<1>5. Moved(s, q') /\ (elv_queue_empty(q') \/ Working(q'))
  BY <1>2, <1>4, RequestFn
<1>6. PoolInv(s, pc, bio)
  BY <1>0, <1>4 DEF PoolInv, Congestion, Waiters, EnoughWoken, Asleep, Woken
<1>7. PoolInv(q', pc, bio)
  BY <1>4, <1>5, <1>6, PoolInvMoved
<1>8. q' \in QType /\ PlugTimed(q', firing, work)
  BY <1>0, <1>4, <1>5 DEF Moved, PlugTimed
<1>9. Attended(q', kick, starting)
  <2>1. \A e \in Dirs : q.inflight[e] \in Nat /\ q'.inflight[e] \in Nat
    BY <1>0, <1>8, TotalNat
  <2>2. Working(q) => Working(q')
    BY <1>4, <1>5, <2>1 DEF Moved, Working
  <2> QED
    BY <1>0, <1>4, <1>5, <2>2 DEF Attended, Moved
<1>10. QInv(q', pc, bio, firing', work', kick', starting')
  BY <1>1, <1>7, <1>8, <1>9 DEF QInv
<1>11. Returned(q, q', d, 1)
  <2>1. \A e \in Dirs : /\ q.count[e] \in Nat /\ q.queued[e] \in Nat /\ q.inflight[e] \in Nat
                        /\ q'.count[e] \in Nat /\ q'.queued[e] \in Nat /\ q'.inflight[e] \in Nat
    BY <1>0, <1>8, TotalNat
  <2>2. \A e \in Dirs : /\ q'.count[e] = q.count[e]
                        /\ q'.queued[e] + q'.inflight[e] = u[e] + q.inflight[e]
    BY <1>4, <1>5 DEF Moved
  <2>3. Total(q', d) = Total(q, d) + 1
    BY <1>0, <1>3, <2>1, <2>2 DEF Total
  <2>4. ASSUME NEW e \in Dirs \ {d} PROVE Total(q', e) = Total(q, e)
    <3>1. u[e] = q.queued[e]
      BY <1>3
    <3> HIDE DEF u
    <3> QED
      BY <2>1, <2>2, <3>1 DEF Total
  <2> QED
    BY <2>3, <2>4 DEF Returned
<1>12. /\ pc' \in [Proc -> Places] /\ bio' \in [Proc -> Bios] /\ pc'[p] = "idle"
       /\ Others(p, pc, bio, pc', bio')
  BY <1>0, <1>1, GotoMoves DEF Places
<1>13. RestType'
  BY <1>0, <1>1, <1>12 DEF RestType
<1>14. Cardinality(Holders(pc', bio', d)) = Cardinality(Holders(pc, bio, d)) - 1
  BY <1>1, <1>12, HoldersLess DEF d
<1>15. \A e \in Dirs \ {d} : Holders(pc', bio', e) = Holders(pc, bio, e)
  BY <1>1, <1>12, HoldersLess DEF d
<1>16. pc[p] \in Quiet /\ pc'[p] \in Quiet
  BY <1>1, <1>12 DEF Quiet
<1> QED
  BY <1>0, <1>10, <1>11, <1>12, <1>13, <1>14, <1>15, <1>16, QuietStep

\* A process unplugs the queue on its way to sleep.
LEMMA UnplugStep ==
  ASSUME Inv, NEW p \in Proc, NEW l \in Quiet \ {"again", "idle"}, pc[p] \in Quiet \ {"again"},
         q' \in generic_unplug_device(q), goto(p, l),
         UNCHANGED <<firing, work, kick, starting, left>>
  PROVE  Inv' /\ (q.stopped => NotRun(q, q'))
<1>0. /\ RestType /\ QInv(q, pc, bio, firing, work, kick, starting)
      /\ q \in QType /\ Attended(q, kick, starting) /\ l \in Places
      /\ \A d \in Dirs : q.inflight[d] \in Nat
  BY TotalNat DEF Inv, QInv, Quiet, Places
<1>1. Moved(q, q') /\ Attended(q', kick, starting)
  BY <1>0, Unplug
<1>2. q.stopped => q'.inflight = q.inflight
  BY <1>0, Unplug
<1>3. QInv(q', pc, bio, firing, work, kick, starting)
  BY <1>0, <1>1, QInvMoved
<1>4. \A d \in Dirs : Total(q', d) = Total(q, d)
  BY <1>0, <1>1, QInvMoved
<1>5. Returned(q, q', READ, 0) /\ READ \in Dirs
  BY <1>0, <1>4, ReturnedNone DEF Dirs
<1>6. /\ pc' \in [Proc -> Places] /\ bio' \in [Proc -> Bios] /\ pc'[p] = l
      /\ Others(p, pc, bio, pc', bio')
  BY <1>0, GotoMoves
<1>7. RestType'
  BY <1>0, <1>6 DEF RestType
<1>8. QInv(q', pc, bio, firing', work', kick', starting')
  BY <1>3
<1>9. Inv'
  BY <1>5, <1>6, <1>7, <1>8, QuietSame
<1>10. q.stopped => NotRun(q, q')
  BY <1>0, <1>2 DEF NotRun
<1> QED
  BY <1>9, <1>10

(***************************************************************************)
(* get_request_wait                                                        *)
(***************************************************************************)
\* A step on or off the wait queue, or past it.
LEMMA WaitStep ==
  ASSUME Inv, NEW p \in Proc, NEW l \in Places \ {"again", "idle"}, pc[p] # "again",
         goto(p, l), UNCHANGED <<firing, work, kick, starting, left>>,
         NEW w \in [Dirs -> Seq(Proc)], q' = [q EXCEPT !.wait = w],
         Waiters(q', pc', bio), EnoughWoken(q', pc', bio)
  PROVE  Inv' /\ NotRun(q, q')
<1>0. /\ RestType /\ q \in QType /\ QInv(q, pc, bio, firing, work, kick, starting)
      /\ Congestion(q)
  BY DEF Inv, QInv, PoolInv
<1>1. /\ q' \in QType /\ q'.count = q.count /\ q'.congested = q.congested
      /\ q'.queued = q.queued /\ q'.inflight = q.inflight
      /\ q'.plugged = q.plugged /\ q'.timer = q.timer /\ q'.stopped = q.stopped
  BY <1>0 DEF QType
<1>2. /\ pc' \in [Proc -> Places] /\ bio' \in [Proc -> Bios] /\ pc'[p] = l /\ bio' = bio
      /\ Others(p, pc, bio, pc', bio')
  BY <1>0, GotoMoves
<1>3. RestType'
  BY <1>0, <1>2 DEF RestType
<1>4. Congestion(q')
  BY <1>0, <1>1 DEF Congestion
<1>5. QInv(q', pc', bio', firing', work', kick', starting')
  BY <1>0, <1>1, <1>2, <1>4
     DEF QInv, PoolInv, PlugTimed, Attended, elv_queue_empty, Working
<1>6. \A d \in Dirs : Total(q', d) = Total(q, d)
  BY <1>1 DEF Total
<1>7. Returned(q, q', READ, 0) /\ READ \in Dirs
  BY <1>0, <1>6, ReturnedNone DEF Dirs
<1>8. Balanced(q', pc', bio')
  BY <1>1, <1>2, <1>7, HeldSame
<1>9. Inv'
  BY <1>3, <1>5, <1>8 DEF Inv
<1>10. NotRun(q, q')
  BY <1>0, <1>1, TotalNat DEF NotRun
<1> QED
  BY <1>9, <1>10

\* What the invariant says to a process that moves.
LEMMA InvFacts ==
  ASSUME Inv, NEW p \in Proc
  PROVE  /\ RestType /\ q \in QType /\ bio[p].rw \in Dirs
         /\ q.wait \in [Dirs -> Seq(Proc)] /\ q.count \in [Dirs -> Nat]
         /\ Waiters(q, pc, bio) /\ EnoughWoken(q, pc, bio)
         /\ pc \in [Proc -> Places]
         /\ \A d \in Dirs : q.wait[d] \in List(Proc) /\ ToSet(q.wait[d]) \subseteq Proc
<1>1. /\ RestType /\ q \in QType /\ Waiters(q, pc, bio) /\ EnoughWoken(q, pc, bio)
  BY DEF Inv, QInv, PoolInv
<1>2. bio[p].rw \in Dirs /\ pc \in [Proc -> Places]
  BY <1>1, PoolAssumption DEF RestType, BioType
<1>3. q.wait \in [Dirs -> Seq(Proc)] /\ q.count \in [Dirs -> Nat]
  BY <1>1, QTypeFields
<1>4. \A d \in Dirs : q.wait[d] \in List(Proc) /\ ToSet(q.wait[d]) \subseteq Proc
  BY <1>1, ListElements DEF Waiters
<1> QED
  BY <1>1, <1>2, <1>3, <1>4

\* Who sleeps and who was woken, but for the process that moves.
LEMMA OthersWait ==
  ASSUME NEW s, NEW t, NEW P, NEW P2, NEW B, NEW p \in Proc, NEW e \in Dirs,
         \A r \in Proc \ {p} : P2[r] = P[r],
         \A r \in Proc \ {p} : r \in ToSet(t.wait[e]) <=> r \in ToSet(s.wait[e])
  PROVE  /\ Asleep(t, P2, B, e) \ {p} = Asleep(s, P, B, e) \ {p}
         /\ Woken(t, P2, B, e) \ {p} = Woken(s, P, B, e) \ {p}
<1>1. Asleep(t, P2, B, e) \ {p} = Asleep(s, P, B, e) \ {p}
  BY DEF Asleep
<1>2. Woken(t, P2, B, e) \ {p} = Woken(s, P, B, e) \ {p}
  BY DEF Woken
<1> QED
  BY <1>1, <1>2

LEMMA PrepareStep ==
  ASSUME Inv, NEW p \in Proc, prepare_to_wait_exclusive(p)
  PROVE  Inv' /\ NotRun(q, q')
<1> DEFINE d == bio[p].rw
           w == [q.wait EXCEPT ![d] = Append(q.wait[d], p)]
<1>0. RestType /\ q \in QType /\ Waiters(q, pc, bio) /\ EnoughWoken(q, pc, bio)
  BY InvFacts
<1>1. d \in Dirs /\ q.wait \in [Dirs -> Seq(Proc)] /\ pc \in [Proc -> Places]
  BY InvFacts
<1>2. \A e \in Dirs : q.wait[e] \in List(Proc) /\ ToSet(q.wait[e]) \subseteq Proc
  BY InvFacts
<1>3. /\ pc[p] = "prepare" /\ goto(p, "check")
      /\ UNCHANGED <<firing, work, kick, starting, left>>
      /\ q' = [q EXCEPT !.wait = w]
  BY <1>0, <1>1 DEF prepare_to_wait_exclusive, QType
<1> HIDE DEF d
<1>4. p \notin ToSet(q.wait[d])
  BY <1>0, <1>1, <1>3 DEF Waiters
<1>5. Append(q.wait[d], p) \in List(Proc)
  BY <1>1, <1>2, <1>4, AppendList
<1>6. ToSet(Append(q.wait[d], p)) = ToSet(q.wait[d]) \cup {p}
  BY <1>1, <1>2, <1>4, AppendList
<1>7. /\ w \in [Dirs -> Seq(Proc)] /\ w[d] = Append(q.wait[d], p)
      /\ \A e \in Dirs \ {d} : w[e] = q.wait[e]
  BY <1>1, AppendProperties
<1> HIDE DEF w
<1>8. q'.wait = w /\ q'.count = q.count
  BY <1>0, <1>3 DEF QType
<1>9. pc'[p] = "check" /\ \A r \in Proc \ {p} : pc'[r] = pc[r]
  BY <1>1, <1>3 DEF goto
<1>10. Waiters(q', pc', bio)
  <2> SUFFICES ASSUME NEW e \in Dirs
               PROVE  /\ w[e] \in List(Proc)
                      /\ \A r \in ToSet(w[e]) :
                           bio[r].rw = e /\ pc'[r] \in {"check", "schedule", "finish"}
    BY <1>8 DEF Waiters
  <2>1. CASE e = d
    <3>1. ToSet(w[e]) = ToSet(q.wait[d]) \cup {p} /\ w[e] \in List(Proc)
      BY <1>5, <1>6, <1>7, <2>1
    <3>2. bio[p].rw = e /\ pc'[p] \in {"check", "schedule", "finish"}
      BY <1>9, <2>1 DEF d
    <3>3. ASSUME NEW r \in ToSet(q.wait[d])
          PROVE  bio[r].rw = e /\ pc'[r] \in {"check", "schedule", "finish"}
      <4>1. r \in Proc \ {p}
        BY <1>1, <1>2, <1>4
      <4>2. bio[r].rw = d /\ pc[r] \in {"check", "schedule", "finish"}
        BY <1>0, <1>1 DEF Waiters
      <4> QED
        BY <1>9, <2>1, <4>1, <4>2
    <3> QED
      BY <3>1, <3>2, <3>3
  <2>2. CASE e # d
    BY <1>0, <1>2, <1>7, <1>9, <2>2 DEF Waiters, d
  <2> QED
    BY <2>1, <2>2
<1>11. EnoughWoken(q', pc', bio)
  <2> SUFFICES ASSUME NEW e \in Dirs, Asleep(q', pc', bio, e) # {}
               PROVE  q'.count[e] < Cardinality(Woken(q', pc', bio, e)) + batch_requests
    BY DEF EnoughWoken
  <2>1. \A r \in Proc \ {p} : r \in ToSet(q'.wait[e]) <=> r \in ToSet(q.wait[e])
    BY <1>6, <1>7, <1>8
  <2>2. /\ Asleep(q', pc', bio, e) \ {p} = Asleep(q, pc, bio, e) \ {p}
        /\ Woken(q', pc', bio, e) \ {p} = Woken(q, pc, bio, e) \ {p}
    BY <1>9, <2>1, OthersWait
  <2>3. /\ p \notin Asleep(q, pc, bio, e) /\ p \notin Woken(q, pc, bio, e)
        /\ p \notin Asleep(q', pc', bio, e)
    BY <1>3, <1>9 DEF Asleep, Woken
  <2>4. p \notin Woken(q', pc', bio, e)
    BY <1>6, <1>7, <1>8 DEF Woken, d
  <2>5. Asleep(q, pc, bio, e) # {} /\ Woken(q', pc', bio, e) = Woken(q, pc, bio, e)
    BY <2>2, <2>3, <2>4
  <2>6. q.count[e] < Cardinality(Woken(q, pc, bio, e)) + batch_requests
    BY <1>0, <2>5 DEF EnoughWoken
  <2> QED
    BY <1>8, <2>5, <2>6
<1>12. "check" \in Places \ {"again", "idle"}
  BY DEF Places
<1> QED
  BY <1>3, <1>7, <1>10, <1>11, <1>12, WaitStep

\* The process looks at the count again, on the wait queue or woken off it already: it goes
\* to sleep only when there is no request at all.
LEMMA CheckStep ==
  ASSUME Inv, NEW p \in Proc, wait_check(p)
  PROVE  Inv' /\ NotRun(q, q')
<1> DEFINE d == bio[p].rw
<1>0. RestType /\ q \in QType /\ Waiters(q, pc, bio) /\ EnoughWoken(q, pc, bio)
  BY InvFacts
<1>1. /\ d \in Dirs /\ q.wait \in [Dirs -> Seq(Proc)] /\ pc \in [Proc -> Places]
      /\ q.count \in [Dirs -> Nat]
  BY InvFacts
<1>2. \A e \in Dirs : q.wait[e] \in List(Proc) /\ ToSet(q.wait[e]) \subseteq Proc
  BY InvFacts
<1>3. PICK l \in {"schedule", "finish"} :
        /\ goto(p, l) /\ (l = "schedule" => q.count[d] = 0)
  BY DEF wait_check
<1>4. /\ pc[p] = "check" /\ UNCHANGED <<q, firing, work, kick, starting, left>>
      /\ q' = [q EXCEPT !.wait = q.wait]
  BY <1>0 DEF wait_check, QType
<1>5. pc'[p] = l /\ \A r \in Proc \ {p} : pc'[r] = pc[r]
  BY <1>1, <1>3 DEF goto
<1>6. Waiters(q', pc', bio)
  BY <1>0, <1>2, <1>4, <1>5 DEF Waiters
<1>7. EnoughWoken(q', pc', bio)
  <2> SUFFICES ASSUME NEW e \in Dirs, Asleep(q', pc', bio, e) # {}
               PROVE  q'.count[e] < Cardinality(Woken(q', pc', bio, e)) + batch_requests
    BY DEF EnoughWoken
  <2>1. /\ Asleep(q', pc', bio, e) \ {p} = Asleep(q, pc, bio, e) \ {p}
        /\ Woken(q', pc', bio, e) \ {p} = Woken(q, pc, bio, e) \ {p}
    BY <1>4, <1>5, OthersWait
  <2>2. Cardinality(Woken(q', pc', bio, e)) \in Nat
    BY ProcFinite DEF Woken
  <2>3. CASE e = d /\ l = "schedule"
    BY <1>3, <1>4, <2>2, <2>3, Thresholds
  <2>4. CASE e # d \/ l = "finish"
    <3>1. p \notin Asleep(q, pc, bio, e) /\ p \notin Asleep(q', pc', bio, e)
      BY <1>4, <1>5, <2>4 DEF Asleep
    <3>2. p \in Woken(q', pc', bio, e) <=> p \in Woken(q, pc, bio, e)
      BY <1>4, <1>5 DEF Woken
    <3>3. Asleep(q, pc, bio, e) # {} /\ Woken(q', pc', bio, e) = Woken(q, pc, bio, e)
      BY <2>1, <3>1, <3>2
    <3>4. q.count[e] < Cardinality(Woken(q, pc, bio, e)) + batch_requests
      BY <1>0, <3>3 DEF EnoughWoken
    <3> QED
      BY <1>4, <3>3, <3>4
  <2> QED
    BY <2>3, <2>4
<1>8. l \in Places \ {"again", "idle"} /\ pc[p] # "again"
  BY <1>4 DEF Places
<1> QED
  BY <1>1, <1>3, <1>4, <1>6, <1>7, <1>8, WaitStep

LEMMA ScheduleStep ==
  ASSUME Inv, NEW p \in Proc, io_schedule(p)
  PROVE  Inv' /\ NotRun(q, q')
<1>0. RestType /\ q \in QType /\ Waiters(q, pc, bio) /\ EnoughWoken(q, pc, bio)
  BY InvFacts
<1>1. q.wait \in [Dirs -> Seq(Proc)] /\ pc \in [Proc -> Places]
  BY InvFacts
<1>2. \A e \in Dirs : q.wait[e] \in List(Proc) /\ ToSet(q.wait[e]) \subseteq Proc
  BY InvFacts
<1>3. /\ pc[p] = "schedule" /\ p \notin ToSet(q.wait[bio[p].rw]) /\ goto(p, "finish")
      /\ UNCHANGED <<q, firing, work, kick, starting, left>>
      /\ q' = [q EXCEPT !.wait = q.wait]
  BY <1>0 DEF io_schedule, QType
<1>4. pc'[p] = "finish" /\ \A r \in Proc \ {p} : pc'[r] = pc[r]
  BY <1>1, <1>3 DEF goto
<1>5. Waiters(q', pc', bio)
  BY <1>0, <1>2, <1>3, <1>4 DEF Waiters
<1>6. EnoughWoken(q', pc', bio)
  <2> SUFFICES ASSUME NEW e \in Dirs
               PROVE  /\ Asleep(q', pc', bio, e) = Asleep(q, pc, bio, e)
                      /\ Woken(q', pc', bio, e) = Woken(q, pc, bio, e)
    BY <1>0, <1>3 DEF EnoughWoken
  <2>1. /\ Asleep(q', pc', bio, e) \ {p} = Asleep(q, pc, bio, e) \ {p}
        /\ Woken(q', pc', bio, e) \ {p} = Woken(q, pc, bio, e) \ {p}
    BY <1>3, <1>4, OthersWait
  <2>2. p \notin Asleep(q, pc, bio, e) /\ p \notin Asleep(q', pc', bio, e)
    BY <1>3, <1>4 DEF Asleep
  <2>3. p \in Woken(q', pc', bio, e) <=> p \in Woken(q, pc, bio, e)
    BY <1>3, <1>4 DEF Woken
  <2> QED
    BY <2>1, <2>2, <2>3
<1>7. "finish" \in Places \ {"again", "idle"} /\ pc[p] # "again"
  BY <1>3 DEF Places
<1> QED
  BY <1>1, <1>3, <1>5, <1>6, <1>7, WaitStep

LEMMA FinishStep ==
  ASSUME Inv, NEW p \in Proc, finish_wait(p)
  PROVE  Inv' /\ NotRun(q, q')
<1> DEFINE d == bio[p].rw
           w == [q.wait EXCEPT ![d] = RemoveFirst(q.wait[d], p)]
<1>0. RestType /\ q \in QType /\ Waiters(q, pc, bio) /\ EnoughWoken(q, pc, bio)
  BY InvFacts
<1>1. /\ d \in Dirs /\ q.wait \in [Dirs -> Seq(Proc)] /\ pc \in [Proc -> Places]
      /\ q.count \in [Dirs -> Nat]
  BY InvFacts
<1>2. \A e \in Dirs : q.wait[e] \in List(Proc) /\ ToSet(q.wait[e]) \subseteq Proc
  BY InvFacts
<1>3. /\ pc[p] = "finish" /\ goto(p, "get")
      /\ UNCHANGED <<firing, work, kick, starting, left>>
      /\ q' = [q EXCEPT !.wait = w]
  BY <1>0, <1>1 DEF finish_wait, QType
<1> HIDE DEF d
<1>4. RemoveFirst(q.wait[d], p) \in List(Proc)
  BY <1>1, <1>2, RemoveFirstList
<1>5. ToSet(RemoveFirst(q.wait[d], p)) = ToSet(q.wait[d]) \ {p}
  BY <1>1, <1>2, RemoveFirstList
<1>6. /\ w \in [Dirs -> Seq(Proc)] /\ w[d] = RemoveFirst(q.wait[d], p)
      /\ \A e \in Dirs \ {d} : w[e] = q.wait[e]
  BY <1>1, <1>4 DEF List
<1> HIDE DEF w
<1>7. q'.wait = w /\ q'.count = q.count
  BY <1>0, <1>3 DEF QType
<1>8. pc'[p] = "get" /\ \A r \in Proc \ {p} : pc'[r] = pc[r]
  BY <1>1, <1>3 DEF goto
<1>9. \A e \in Dirs : w[e] \in List(Proc) /\ ToSet(w[e]) = ToSet(q.wait[e]) \ {p}
  <2> SUFFICES ASSUME NEW e \in Dirs
               PROVE  w[e] \in List(Proc) /\ ToSet(w[e]) = ToSet(q.wait[e]) \ {p}
    OBVIOUS
  <2>1. CASE e = d
    BY <1>4, <1>5, <1>6, <2>1
  <2>2. CASE e # d
    <3>1. p \notin ToSet(q.wait[e])
      BY <1>0, <2>2 DEF Waiters, d
    <3> QED
      BY <1>2, <1>6, <2>2, <3>1
  <2> QED
    BY <2>1, <2>2
<1>10. Waiters(q', pc', bio)
  <2> SUFFICES ASSUME NEW e \in Dirs, NEW r \in ToSet(w[e])
               PROVE  bio[r].rw = e /\ pc'[r] \in {"check", "schedule", "finish"}
    BY <1>7, <1>9 DEF Waiters
  <2>1. r \in ToSet(q.wait[e]) /\ r \in Proc \ {p}
    BY <1>2, <1>9
  <2> QED
    BY <1>0, <1>8, <2>1 DEF Waiters
<1>11. EnoughWoken(q', pc', bio)
  <2> SUFFICES ASSUME NEW e \in Dirs, Asleep(q', pc', bio, e) # {}
               PROVE  q'.count[e] < Cardinality(Woken(q', pc', bio, e)) + batch_requests
    BY DEF EnoughWoken
  <2>1. /\ Asleep(q', pc', bio, e) \ {p} = Asleep(q, pc, bio, e) \ {p}
        /\ Woken(q', pc', bio, e) \ {p} = Woken(q, pc, bio, e) \ {p}
    BY <1>7, <1>8, <1>9, OthersWait
  <2>2. p \notin Asleep(q, pc, bio, e) /\ p \notin Asleep(q', pc', bio, e)
    BY <1>3, <1>8 DEF Asleep
  <2>3. p \in Woken(q, pc, bio, e) => p \in Woken(q', pc', bio, e)
    BY <1>3, <1>7, <1>8, <1>9 DEF Woken
  <2>4. Asleep(q, pc, bio, e) # {} /\ Woken(q, pc, bio, e) \subseteq Woken(q', pc', bio, e)
    BY <2>1, <2>2, <2>3
  <2>5. /\ Cardinality(Woken(q, pc, bio, e)) \in Nat
        /\ Cardinality(Woken(q', pc', bio, e)) \in Nat
        /\ IsFiniteSet(Woken(q', pc', bio, e))
    BY ProcFinite DEF Woken
  <2>6. Cardinality(Woken(q, pc, bio, e)) <= Cardinality(Woken(q', pc', bio, e))
    BY <2>4, <2>5, FS_Subset
  <2>7. q.count[e] < Cardinality(Woken(q, pc, bio, e)) + batch_requests
    BY <1>0, <2>4 DEF EnoughWoken
  <2> QED
    BY <1>1, <1>7, <2>5, <2>6, <2>7, Thresholds
<1>12. "get" \in Places \ {"again", "idle"} /\ pc[p] # "again"
  BY <1>3 DEF Places
<1> QED
  BY <1>3, <1>6, <1>10, <1>11, <1>12, WaitStep

\* A woken process takes a request, and leaves one request less for one process less; or it
\* finds that another was faster, and waits again.
LEMMA WaitGetStep ==
  ASSUME Inv, NEW p \in Proc, wait_get(p)
  PROVE  Inv' /\ NotRun(q, q')
<1> DEFINE d == bio[p].rw
<1>0. RestType /\ q \in QType /\ Waiters(q, pc, bio) /\ EnoughWoken(q, pc, bio)
  BY InvFacts
<1>1. /\ d \in Dirs /\ q.wait \in [Dirs -> Seq(Proc)] /\ pc \in [Proc -> Places]
      /\ q.count \in [Dirs -> Nat]
  BY InvFacts
<1>2. \A e \in Dirs : q.wait[e] \in List(Proc) /\ ToSet(q.wait[e]) \subseteq Proc
  BY InvFacts
<1>3. pc[p] = "get" /\ UNCHANGED <<firing, work, kick, starting, left>>
  BY DEF wait_get
<1>4. \A e \in Dirs : p \notin ToSet(q.wait[e])
  BY <1>0, <1>3 DEF Waiters
\* What both outcomes have in common.
<1>5. ASSUME q'.wait = q.wait, NEW l \in {"again", "prepare"}, goto(p, l),
             \A e \in Dirs \ {d} : q'.count[e] = q.count[e],
             q'.count[d] \in Nat, q'.count[d] = 0 \/ q'.count[d] = q.count[d] - 1
      PROVE  Waiters(q', pc', bio) /\ EnoughWoken(q', pc', bio)
  <2>1. pc'[p] = l /\ \A r \in Proc \ {p} : pc'[r] = pc[r]
    BY <1>1, <1>5 DEF goto
  <2>2. Waiters(q', pc', bio)
    BY <1>0, <1>2, <1>4, <1>5, <2>1 DEF Waiters
  <2>3. EnoughWoken(q', pc', bio)
    <3> SUFFICES ASSUME NEW e \in Dirs, Asleep(q', pc', bio, e) # {}
                 PROVE  q'.count[e] < Cardinality(Woken(q', pc', bio, e)) + batch_requests
      BY DEF EnoughWoken
    <3>1. /\ Asleep(q', pc', bio, e) \ {p} = Asleep(q, pc, bio, e) \ {p}
          /\ Woken(q', pc', bio, e) \ {p} = Woken(q, pc, bio, e) \ {p}
      <4>1. \A r \in Proc \ {p} : r \in ToSet(q'.wait[e]) <=> r \in ToSet(q.wait[e])
        BY <1>5
      <4>2. \A r \in Proc \ {p} : pc'[r] = pc[r]
        BY <2>1
      <4> QED
        BY <4>1, <4>2, OthersWait
    <3>2. /\ p \notin Asleep(q, pc, bio, e) /\ p \notin Asleep(q', pc', bio, e)
          /\ p \notin Woken(q', pc', bio, e)
      BY <1>3, <2>1 DEF Asleep, Woken
    <3>3. p \in Woken(q, pc, bio, e) <=> e = d
      BY <1>3, <1>4 DEF Woken
    <3>4. Asleep(q, pc, bio, e) # {}
      BY <3>1, <3>2
    <3>5. q.count[e] < Cardinality(Woken(q, pc, bio, e)) + batch_requests
      BY <1>0, <3>4 DEF EnoughWoken
    <3>6. /\ Cardinality(Woken(q, pc, bio, e)) \in Nat /\ IsFiniteSet(Woken(q, pc, bio, e))
          /\ Cardinality(Woken(q', pc', bio, e)) \in Nat
      BY ProcFinite DEF Woken
    <3>7. CASE e # d
      <4>1. Woken(q', pc', bio, e) = Woken(q, pc, bio, e)
        BY <3>1, <3>2, <3>3, <3>7
      <4>2. q'.count[e] = q.count[e]
        BY <1>5, <3>7
      <4> QED
        BY <3>5, <4>1, <4>2
    <3>8. CASE e = d
      <4>1. Woken(q', pc', bio, e) = Woken(q, pc, bio, e) \ {p} /\ p \in Woken(q, pc, bio, e)
        BY <3>1, <3>2, <3>3, <3>8
      <4>2. Cardinality(Woken(q', pc', bio, e)) = Cardinality(Woken(q, pc, bio, e)) - 1
        BY <3>6, <4>1, FS_RemoveElement
      <4>3. q'.count[e] \in Nat /\ q.count[e] \in Nat /\ (q'.count[e] = 0 \/ q'.count[e] = q.count[e] - 1)
        BY <1>1, <1>5, <3>8
      <4> QED
        BY <3>5, <3>6, <4>2, <4>3, Thresholds
    <3> QED
      BY <3>7, <3>8
  <2> QED
    BY <2>2, <2>3
<1>6. CASE q.count[d] > 0
  <2>1. q' = get_request(q, d) /\ goto(p, "again")
    BY <1>6 DEF wait_get
  <2>2. QInv(q, pc, bio, firing, work, kick, starting)
    BY DEF Inv
  <2>3. QInv(q', pc, bio, firing, work, kick, starting)
    BY <1>1, <1>6, <2>1, <2>2, GetStep
  <2>4. q'.inflight = q.inflight
    BY <1>1, <1>6, <2>1, <2>2, GetStep
  <2>5. Total(q', d) = Total(q, d) - 1
    BY <1>1, <1>6, <2>1, <2>2, GetStep
  <2>6. \A e \in Dirs \ {d} : Total(q', e) = Total(q, e)
    BY <1>1, <1>6, <2>1, <2>2, GetStep
  <2>7. Got(q, d, q')
    BY <1>0, <1>1, <1>6, <2>1, GetRequestFields
  <2>8. q'.wait = q.wait /\ q'.count = [q.count EXCEPT ![d] = @ - 1] /\ q' \in QType
    BY <2>7 DEF Got
  <2>9. /\ q'.count[d] \in Nat /\ q'.count[d] = q.count[d] - 1
        /\ \A e \in Dirs \ {d} : q'.count[e] = q.count[e]
    BY <1>1, <1>6, <2>8
  <2>10. Waiters(q', pc', bio) /\ EnoughWoken(q', pc', bio)
    BY <1>5, <2>1, <2>8, <2>9
  <2>11. /\ pc' \in [Proc -> Places] /\ bio' \in [Proc -> Bios] /\ pc'[p] = "again"
         /\ Others(p, pc, bio, pc', bio') /\ bio' = bio
    BY <1>0, <2>1, GotoMoves DEF Places
  <2>12. RestType'
    BY <1>0, <1>3, <2>11 DEF RestType
  <2>13. PoolInv(q', pc', bio')
    BY <2>3, <2>10, <2>11 DEF QInv, PoolInv
  <2>14. QInv(q', pc', bio', firing', work', kick', starting')
    BY <1>3, <2>3, <2>13, QInvProcs
  <2>15. Returned(q, q', d, -1)
    BY <1>0, <1>1, <2>5, <2>6, TotalNat DEF Returned
  <2>16. Cardinality(Holders(pc', bio', d)) = Cardinality(Holders(pc, bio, d)) + 1
    BY <1>3, <2>11, HoldersMore
  <2>17. \A e \in Dirs \ {d} : Holders(pc', bio', e) = Holders(pc, bio, e)
    BY <1>3, <2>11, HoldersMore
  <2>18. Cardinality(Holders(pc', bio', d)) = Cardinality(Holders(pc, bio, d)) - (-1)
    <3>1. Cardinality(Holders(pc, bio, d)) \in Nat
      BY ProcFinite DEF Holders
    <3> HIDE DEF d
    <3> QED
      BY <2>16, <3>1
  <2>19. Balanced(q, pc, bio)
    BY DEF Inv
  <2>20. Balanced(q', pc', bio')
    BY <1>0, <1>1, <2>8, <2>15, <2>17, <2>18, <2>19, BalancedStep
  <2>21. Inv'
    BY <2>12, <2>14, <2>20 DEF Inv
  <2>22. NotRun(q, q')
    BY <1>0, <2>4, TotalNat DEF NotRun
  <2> QED
    BY <2>21, <2>22
<1>7. CASE ~(q.count[d] > 0)
  <2>1. q' = q /\ goto(p, "prepare")
    BY <1>7 DEF wait_get
  <2>2. q.count[d] = 0
    BY <1>1, <1>7
  <2>3. Waiters(q', pc', bio) /\ EnoughWoken(q', pc', bio)
    BY <1>1, <1>5, <2>1, <2>2
  <2>4. q' = [q EXCEPT !.wait = q.wait]
    BY <1>0, <2>1 DEF QType
  <2>5. "prepare" \in Places \ {"again", "idle"} /\ pc[p] # "again"
    BY <1>3 DEF Places
  <2> QED
    BY <1>1, <1>3, <2>1, <2>3, <2>4, <2>5, WaitStep
<1> QED
  BY <1>6, <1>7

LEMMA CongestionOverStep ==
  ASSUME Inv, NEW p \in Proc, congestion_over(p)
  PROVE  Inv' /\ NotRun(q, q')
<1>0. /\ RestType /\ QInv(q, pc, bio, firing, work, kick, starting) /\ q \in QType
  BY DEF Inv, QInv
<1>1. /\ pc[p] = "congestion" /\ goto(p, "idle")
      /\ UNCHANGED <<q, firing, work, kick, starting, left>>
  BY DEF congestion_over
<1>2. /\ pc' \in [Proc -> Places] /\ bio' \in [Proc -> Bios] /\ pc'[p] = "idle"
      /\ Others(p, pc, bio, pc', bio')
  BY <1>0, <1>1, GotoMoves DEF Places
<1>3. RestType'
  BY <1>0, <1>1, <1>2 DEF RestType
<1>4. pc[p] \in Quiet \ {"again"} /\ pc'[p] \in Quiet \ {"again"}
  BY <1>1, <1>2 DEF Quiet
<1>5. QInv(q', pc, bio, firing', work', kick', starting')
  BY <1>0, <1>1
<1>6. Returned(q, q', READ, 0) /\ READ \in Dirs
  BY <1>0, <1>1, ReturnedNone DEF Dirs
<1>7. Inv'
  BY <1>2, <1>3, <1>4, <1>5, <1>6, QuietSame
<1>8. NotRun(q, q')
  BY <1>0, <1>1, TotalNat DEF NotRun
<1> QED
  BY <1>7, <1>8

(***************************************************************************)
(* The timer, and the driver's completions                                 *)
(***************************************************************************)
LEMMA TimerStep ==
  ASSUME Inv, Timer
  PROVE  Inv' /\ (q.stopped => NotRun(q, q'))
<1>0. /\ RestType /\ QInv(q, pc, bio, firing, work, kick, starting) /\ q \in QType
      /\ PoolInv(q, pc, bio) /\ PlugTimed(q, firing, work) /\ Attended(q, kick, starting)
      /\ READ \in Dirs /\ \A d \in Dirs : q.inflight[d] \in Nat
  BY TotalNat DEF Inv, QInv, Dirs
<1>1. CASE timer_expires
  <2>1. /\ q' = [q EXCEPT !.timer = FALSE] /\ firing' = TRUE
        /\ UNCHANGED <<work, kick, starting, pc, bio, left>>
    BY <1>1 DEF timer_expires
  <2>2. /\ q' \in QType /\ q'.count = q.count /\ q'.congested = q.congested
        /\ q'.wait = q.wait /\ q'.queued = q.queued /\ q'.inflight = q.inflight
        /\ q'.plugged = q.plugged /\ q'.stopped = q.stopped
    BY <1>0, <2>1 DEF QType
  <2>3. PoolInv(q', pc, bio)
    BY <1>0, <2>2 DEF PoolInv, Congestion, Waiters, EnoughWoken, Asleep, Woken
  <2>4. PlugTimed(q', firing', work') /\ Attended(q', kick', starting')
    BY <1>0, <2>1, <2>2 DEF PlugTimed, Attended, elv_queue_empty, Working
  <2>5. QInv(q', pc, bio, firing', work', kick', starting')
    BY <2>2, <2>3, <2>4 DEF QInv
  <2>6. RestType'
    BY <1>0, <2>1 DEF RestType
  <2>7. Returned(q, q', READ, 0)
    BY <1>0, <2>2, ReturnedNone DEF Total
  <2>8. Inv'
    BY <1>0, <2>1, <2>5, <2>6, <2>7, QueueOnly
  <2>9. NotRun(q, q')
    BY <1>0, <2>2 DEF NotRun
  <2> QED
    BY <2>8, <2>9
<1>2. CASE blk_unplug_timeout
  <2>1. firing' = FALSE /\ work' = TRUE /\ UNCHANGED <<q, kick, starting, pc, bio, left>>
    BY <1>2 DEF blk_unplug_timeout
  <2>2. QInv(q', pc, bio, firing', work', kick', starting')
    BY <1>0, <2>1 DEF QInv, PlugTimed
  <2>3. RestType'
    BY <1>0, <2>1 DEF RestType
  <2>4. Returned(q, q', READ, 0)
    BY <1>0, <2>1, ReturnedNone
  <2>5. Inv'
    BY <1>0, <2>1, <2>2, <2>3, <2>4, QueueOnly
  <2>6. NotRun(q, q')
    BY <1>0, <2>1 DEF NotRun
  <2> QED
    BY <2>5, <2>6
<1>3. CASE blk_unplug_work
  <2>1. /\ work' = FALSE /\ q' \in generic_unplug_device(q)
        /\ UNCHANGED <<firing, kick, starting, pc, bio, left>>
    BY <1>3 DEF blk_unplug_work
  <2>2. Moved(q, q') /\ Attended(q', kick, starting)
    BY <1>0, <2>1, Unplug
  <2>3. q.stopped => q'.inflight = q.inflight
    BY <1>0, <2>1, Unplug
  <2>4. ~q'.plugged
    BY <1>0, <2>1, Unplug
  <2>5. QInv(q', pc, bio, firing, work, kick, starting)
    BY <1>0, <2>2, QInvMoved
  <2>6. \A d \in Dirs : Total(q', d) = Total(q, d)
    BY <1>0, <2>2, QInvMoved
  <2>7. QInv(q', pc, bio, firing', work', kick', starting')
    BY <2>1, <2>4, <2>5 DEF QInv, PlugTimed
  <2>8. RestType'
    BY <1>0, <2>1 DEF RestType
  <2>9. Returned(q, q', READ, 0)
    BY <1>0, <2>6, ReturnedNone
  <2>10. Inv'
    BY <1>0, <2>1, <2>7, <2>8, <2>9, QueueOnly
  <2>11. q.stopped => NotRun(q, q')
    BY <1>0, <2>3 DEF NotRun
  <2> QED
    BY <2>10, <2>11
<1> QED
  BY <1>1, <1>2, <1>3 DEF Timer

LEMMA EndRequestStep ==
  ASSUME Inv, NEW d \in Dirs, end_that_request_last(d)
  PROVE  Inv' /\ NotRun(q, q')
<1> DEFINE v == [q.inflight EXCEPT ![d] = q.inflight[d] - 1]
           s == [q EXCEPT !.inflight = v]
<1>0. /\ RestType /\ QInv(q, pc, bio, firing, work, kick, starting) /\ q \in QType
      /\ PoolInv(q, pc, bio) /\ PlugTimed(q, firing, work)
      /\ \A e \in Dirs : q.count[e] \in Nat /\ q.queued[e] \in Nat /\ q.inflight[e] \in Nat
  BY TotalNat DEF Inv, QInv
<1>1. /\ q.inflight[d] > 0 /\ q' = blk_put_request(s, d) /\ kick' = TRUE
      /\ UNCHANGED <<firing, work, starting, pc, bio, left>>
  BY <1>0 DEF end_that_request_last, QType
<1>2. /\ v \in [Dirs -> Nat] /\ v[d] = q.inflight[d] - 1
      /\ \A e \in Dirs \ {d} : v[e] = q.inflight[e]
  BY <1>0, <1>1, QTypeFields
<1> HIDE DEF v
<1>3. /\ s \in QType /\ s.inflight = v
      /\ s.count = q.count /\ s.congested = q.congested /\ s.wait = q.wait
      /\ s.queued = q.queued
      /\ s.plugged = q.plugged /\ s.timer = q.timer /\ s.stopped = q.stopped
  BY <1>0, <1>2 DEF QType
<1> HIDE DEF s
<1>4. PoolInv(s, pc, bio)
  BY <1>0, <1>3 DEF PoolInv, Congestion, Waiters, EnoughWoken, Asleep, Woken
<1>5. PlugTimed(s, firing, work) /\ Attended(s, kick', starting)
  BY <1>0, <1>1, <1>3 DEF PlugTimed, Attended
<1>6. QInv(s, pc, bio, firing, work, kick', starting)
  BY <1>3, <1>4, <1>5 DEF QInv
<1>6a. q' = blk_put_request(s, d)
  BY <1>1
<1>7. QInv(q', pc, bio, firing, work, kick', starting)
  BY <1>6, <1>6a, PutStep
<1>8. q'.queued = s.queued /\ q'.inflight = s.inflight
  BY <1>6, <1>6a, PutStep
<1>9. Total(q', d) = Total(s, d) + 1
  BY <1>6, <1>6a, PutStep
<1>10. \A e \in Dirs \ {d} : Total(q', e) = Total(s, e)
  BY <1>6, <1>6a, PutStep
<1>11. Total(s, d) = Total(q, d) - 1
  BY <1>0, <1>2, <1>3 DEF Total
<1>12. ASSUME NEW e \in Dirs \ {d} PROVE Total(s, e) = Total(q, e)
  BY <1>2, <1>3 DEF Total
<1>13. Returned(q, q', d, 0)
  BY <1>0, <1>9, <1>10, <1>11, <1>12, TotalNat DEF Returned
<1>14. RestType'
  BY <1>0, <1>1 DEF RestType
<1>15. QInv(q', pc, bio, firing', work', kick', starting')
  BY <1>1, <1>7
<1>16. Inv'
  BY <1>1, <1>13, <1>14, <1>15, QueueOnly
<1>17. NotRun(q, q')
  <2> SUFFICES ASSUME NEW e \in Dirs PROVE v[e] <= q.inflight[e]
    BY <1>3, <1>8 DEF NotRun
  <2> QED
    BY <1>0, <1>2
<1> QED
  BY <1>16, <1>17

\* The driver runs the queue s, which is the queue with its plug or without it.
LEMMA RunStep ==
  ASSUME Inv, NEW s, Moved(q, s), NEW t \in request_fn(s), q' = t,
         UNCHANGED <<firing, work, pc, bio, left>>, kick' \in BOOLEAN, starting' \in BOOLEAN,
         q.stopped => kick' \/ Working(q)
  PROVE  Inv'
<1>0. /\ RestType /\ QInv(q, pc, bio, firing, work, kick, starting) /\ q \in QType
      /\ PoolInv(q, pc, bio) /\ PlugTimed(q, firing, work)
  BY DEF Inv, QInv
<1>1. s \in QType
  BY DEF Moved
<1>2. Moved(s, q') /\ (elv_queue_empty(q') \/ Working(q'))
  BY <1>1, RequestFn
<1>3. Moved(q, q')
  BY <1>0, <1>2, MovedTrans
<1>4. q' \in QType /\ PlugTimed(q', firing, work)
  BY <1>0, <1>3 DEF Moved, PlugTimed
<1>5. Working(q) => Working(q')
  <2>1. \A e \in Dirs : q.inflight[e] \in Nat /\ q'.inflight[e] \in Nat
    BY <1>0, <1>4, TotalNat
  <2> QED
    BY <1>3, <2>1 DEF Moved, Working
<1>6. Attended(q', kick', starting')
  BY <1>2, <1>3, <1>5 DEF Attended, Moved
<1>7. PoolInv(q', pc, bio)
  BY <1>0, <1>3, PoolInvMoved
<1>8. QInv(q', pc, bio, firing', work', kick', starting')
  BY <1>4, <1>6, <1>7 DEF QInv
<1>9. Balanced(q', pc, bio)
  BY <1>0, <1>3, PoolInvMoved DEF Inv
<1>10. RestType'
  BY <1>0 DEF RestType
<1> QED
  BY <1>8, <1>9, <1>10 DEF Inv

LEMMA DriverStep ==
  ASSUME Inv, Driver
  PROVE  Inv' /\ (q.stopped /\ ~DriverRuns => NotRun(q, q'))
<1>0. /\ RestType /\ QInv(q, pc, bio, firing, work, kick, starting) /\ q \in QType
      /\ PoolInv(q, pc, bio) /\ PlugTimed(q, firing, work) /\ Attended(q, kick, starting)
      /\ READ \in Dirs /\ \A d \in Dirs : q.inflight[d] \in Nat
  BY TotalNat DEF Inv, QInv, Dirs
<1>1. CASE \E d \in Dirs : end_that_request_last(d)
  BY <1>1, EndRequestStep
<1>2. CASE driver_stops
  <2>1. /\ Working(q) /\ q' = blk_stop_queue(q) /\ ~q.stopped
        /\ UNCHANGED <<firing, work, kick, starting, pc, bio, left>>
    BY <1>2 DEF driver_stops, Working
  <2>2. Moved(q, q')
    BY <1>0, <2>1, StopQueue
  <2>3. q'.queued = q.queued /\ q'.inflight = q.inflight
    BY <1>0, <2>1, StopQueue
  <2>4. Attended(q', kick, starting)
    BY <1>0, <2>1, <2>3 DEF Attended, Working
  <2>5. QInv(q', pc, bio, firing, work, kick, starting)
    BY <1>0, <2>2, <2>4, QInvMoved
  <2>6. \A d \in Dirs : Total(q', d) = Total(q, d)
    BY <1>0, <2>2, <2>4, QInvMoved
  <2>7. RestType' /\ QInv(q', pc, bio, firing', work', kick', starting')
    BY <1>0, <2>1, <2>5 DEF RestType
  <2>8. Returned(q, q', READ, 0)
    BY <1>0, <2>6, ReturnedNone
  <2>9. Inv'
    BY <1>0, <2>1, <2>7, <2>8, QueueOnly
  <2> QED
    BY <2>1, <2>9
<1>3. CASE blk_run_queue
  <2>1. /\ q' \in request_fn(blk_remove_plug(q)) /\ kick' = q.stopped
        /\ UNCHANGED <<firing, work, starting, pc, bio, left>>
    BY <1>3 DEF blk_run_queue
  <2>2. Moved(q, blk_remove_plug(q))
    BY <1>0, RemovePlug
  <2>3. kick' \in BOOLEAN /\ starting' \in BOOLEAN
    BY <1>0, <2>1 DEF RestType, QType
  <2>4. Inv'
    BY <2>1, <2>2, <2>3, RunStep
  <2> QED
    BY <1>3, <2>4 DEF DriverRuns
<1>4. CASE blk_start_queue
  <2>1. /\ q' = [q EXCEPT !.stopped = FALSE] /\ kick' = FALSE /\ starting' = TRUE
        /\ UNCHANGED <<firing, work, pc, bio, left>>
    BY <1>4 DEF blk_start_queue
  <2>2. /\ q' \in QType /\ q'.count = q.count /\ q'.congested = q.congested
        /\ q'.wait = q.wait /\ q'.queued = q.queued /\ q'.inflight = q.inflight
        /\ q'.plugged = q.plugged /\ q'.timer = q.timer /\ ~q'.stopped
    BY <1>0, <2>1 DEF QType
  <2>3. PoolInv(q', pc, bio)
    BY <1>0, <2>2 DEF PoolInv, Congestion, Waiters, EnoughWoken, Asleep, Woken
  <2>4. PlugTimed(q', firing', work') /\ Attended(q', kick', starting')
    BY <1>0, <2>1, <2>2 DEF PlugTimed, Attended
  <2>5. RestType' /\ QInv(q', pc, bio, firing', work', kick', starting')
    BY <1>0, <2>1, <2>2, <2>3, <2>4 DEF QInv, RestType
  <2>6. Returned(q, q', READ, 0)
    BY <1>0, <2>2, ReturnedNone DEF Total
  <2>7. Inv'
    BY <1>0, <2>1, <2>5, <2>6, QueueOnly
  <2>8. NotRun(q, q')
    BY <1>0, <2>2 DEF NotRun
  <2> QED
    BY <2>7, <2>8
<1>5. CASE blk_start_queue_locked
  <2>1. /\ starting /\ starting' = FALSE
        /\ q' \in IF elv_queue_empty(q) THEN {q} ELSE request_fn(q)
        /\ UNCHANGED <<firing, work, kick, pc, bio, left>>
    BY <1>5 DEF blk_start_queue_locked
  <2>2. CASE elv_queue_empty(q)
    <3>1. q' = q
      BY <2>1, <2>2
    <3>2. QInv(q', pc, bio, firing', work', kick', starting')
      BY <1>0, <2>1, <2>2, <3>1 DEF QInv, Attended
    <3>3. RestType'
      BY <1>0, <2>1 DEF RestType
    <3>4. Returned(q, q', READ, 0)
      BY <1>0, <3>1, ReturnedNone
    <3>5. Inv'
      BY <1>0, <2>1, <3>2, <3>3, <3>4, QueueOnly
    <3> QED
      BY <1>5, <3>5 DEF DriverRuns
  <2>3. CASE ~elv_queue_empty(q)
    <3>1. Moved(q, q) /\ q' \in request_fn(q)
      BY <1>0, <2>1, <2>3, MovedSame
    <3>2. kick' \in BOOLEAN /\ starting' \in BOOLEAN /\ (q.stopped => kick' \/ Working(q))
      BY <1>0, <2>1 DEF RestType, Attended
    <3>3. Inv'
      BY <2>1, <3>1, <3>2, RunStep
    <3> QED
      BY <1>5, <3>3 DEF DriverRuns
  <2> QED
    BY <2>2, <2>3
<1> QED
  BY <1>1, <1>2, <1>3, <1>4, <1>5 DEF Driver

(***************************************************************************)
(* The theorems                                                            *)
(***************************************************************************)
\* What a step may do to the device of a stopped queue.
StepRuns == q.stopped /\ ~DriverRuns => NotRun(q, q')

LEMMA SubmitStep ==
  ASSUME Inv, NEW p \in Proc, Submit(p)
  PROVE  Inv' /\ StepRuns
<1>1. CASE \E b \in Bios : make_request(p, b)
  BY <1>1, MakeRequestStep DEF StepRuns
<1>2. CASE \E b \in Bios : blk_get_request(p, b)
  BY <1>2, GetRequestStep DEF StepRuns
<1>3. CASE blk_congestion_wait(p)
  <2>1. "congestion" \in Quiet \ {"again", "idle"} /\ "idle" \in Quiet \ {"again"}
    BY DEF Quiet
  <2> QED
    BY <1>3, <2>1, UnplugStep DEF blk_congestion_wait, StepRuns
<1> QED
  BY <1>1, <1>2, <1>3 DEF Submit

LEMMA ContinueStep ==
  ASSUME Inv, NEW p \in Proc, Continue(p)
  PROVE  Inv' /\ StepRuns
<1>1. CASE again(p)
  BY <1>1, AgainStep DEF StepRuns
<1>2. CASE blk_insert_request(p)
  <2>1. Inv'
    BY <1>2, InsertStep
  <2> QED
    BY <1>2, <2>1 DEF StepRuns, DriverRuns
<1>3. CASE wait_unplug(p)
  <2>1. "prepare" \in Quiet \ {"again", "idle"} /\ "unplug" \in Quiet \ {"again"}
    BY DEF Quiet
  <2> QED
    BY <1>3, <2>1, UnplugStep DEF wait_unplug, StepRuns
<1>4. CASE prepare_to_wait_exclusive(p)
  BY <1>4, PrepareStep DEF StepRuns
<1>5. CASE wait_check(p)
  BY <1>5, CheckStep DEF StepRuns
<1>6. CASE io_schedule(p)
  BY <1>6, ScheduleStep DEF StepRuns
<1>7. CASE finish_wait(p)
  BY <1>7, FinishStep DEF StepRuns
<1>8. CASE wait_get(p)
  BY <1>8, WaitGetStep DEF StepRuns
<1>9. CASE congestion_over(p)
  BY <1>9, CongestionOverStep DEF StepRuns
<1> QED
  BY <1>1, <1>2, <1>3, <1>4, <1>5, <1>6, <1>7, <1>8, <1>9 DEF Continue

LEMMA InvNext ==
  ASSUME Inv, Next
  PROVE  Inv' /\ StepRuns
<1>1. CASE \E p \in Proc : Submit(p)
  BY <1>1, SubmitStep
<1>2. CASE \E p \in Proc : Continue(p)
  BY <1>2, ContinueStep
<1>3. CASE Timer
  BY <1>3, TimerStep DEF StepRuns
<1>4. CASE Driver
  BY <1>4, DriverStep DEF StepRuns
<1> QED
  BY <1>1, <1>2, <1>3, <1>4 DEF Next

\* The inductive invariant holds in every state of the pool.
THEOREM PoolInvariant == Spec => []Inv
<1>1. Init => Inv
  BY InvInit
<1>2. Inv /\ [Next]_vars => Inv'
  <2> SUFFICES ASSUME Inv, [Next]_vars PROVE Inv'
    OBVIOUS
  <2>1. CASE Next
    BY <2>1, InvNext
  <2>2. CASE UNCHANGED vars
    BY <2>2 DEF vars, Inv, RestType
  <2> QED
    BY <2>1, <2>2
<1> QED
  BY <1>1, <1>2, PTL DEF Spec

\* Every variable keeps its type.
THEOREM TypeCorrect == Spec => []TypeOK
<1>1. Inv => TypeOK
  <2> SUFFICES ASSUME Inv PROVE TypeOK
    OBVIOUS
  <2>1. q \in QType /\ RestType
    BY DEF Inv, QInv
  <2>2. {firing, work, kick, starting} \subseteq BOOLEAN
    BY <2>1 DEF RestType
  <2> QED
    BY <2>1, <2>2 DEF TypeOK, QType, RestType, Places
<1> QED
  BY <1>1, PoolInvariant, PTL

\* get_request and blk_put_request keep account of every request: those that are free, queued,
\* with the device or held by a process add up to queue_nr_requests.
THEOREM RequestsBalance == Spec => []NoRequestLeak
<1>1. Inv => NoRequestLeak
  BY DEF Inv, Balanced, Holders, NoRequestLeak, holders
<1> QED
  BY <1>1, PoolInvariant, PTL

\* blk_put_request wakes one waiter for each request from the batch on: a batch is free while
\* somebody sleeps in get_request_wait only if a process is on its way to take one.
THEOREM WakeupsSuffice == Spec => []NoLostWakeup
<1>1. Inv => NoLostWakeup
  <2> SUFFICES ASSUME Inv, NEW d \in Dirs, asleep(d) # {}, q.count[d] >= batch_requests
               PROVE  woken(d) # {}
    BY DEF NoLostWakeup
  <2>1. Asleep(q, pc, bio, d) = asleep(d) /\ Woken(q, pc, bio, d) = woken(d)
    BY DEF Asleep, Woken, asleep, woken, on_wait
  <2>2. q.count[d] < Cardinality(woken(d)) + batch_requests
    BY <2>1 DEF Inv, QInv, PoolInv, EnoughWoken
  <2>3. q.count[d] \in Nat
    BY TotalNat DEF Inv, QInv
  <2> SUFFICES ASSUME woken(d) = {} PROVE FALSE
    OBVIOUS
  <2>4. Cardinality(woken(d)) = 0
    BY FS_EmptySet
  <2> QED
    BY <2>2, <2>3, <2>4, Thresholds
<1> QED
  BY <1>1, PoolInvariant, PTL

\* The congestion flag follows the count with the hysteresis of the two thresholds.
THEOREM CongestionRight == Spec => []CongestionTracksCount
<1>1. Inv => CongestionTracksCount
  BY DEF Inv, QInv, PoolInv, Congestion, CongestionTracksCount
<1> QED
  BY <1>1, PoolInvariant, PTL

\* A plugged queue has its timer or its work pending, and a queue that holds requests and is
\* not plugged has the driver's attention.
THEOREM QueueAttended == Spec => []QueueNotForgotten
<1>1. Inv => QueueNotForgotten
  BY DEF Inv, QInv, PlugTimed, Attended, Working, QueueNotForgotten
<1> QED
  BY <1>1, PoolInvariant, PTL

\* blk_stop_queue keeps every submitter, waiter and timer from calling request_fn: while the
\* queue is stopped only the driver's own calls, which do not look at the flag, give the
\* device a request.
THEOREM StopRespected == Spec => OnlyDriverRunsStopped
<1>1. Inv /\ [Next]_vars
        => [q.stopped /\ ~DriverRuns => \A d \in Dirs : q'.inflight[d] <= q.inflight[d]]_vars
  BY InvNext DEF StepRuns, NotRun
<1> QED
  BY <1>1, PoolInvariant, PTL DEF Spec, OnlyDriverRunsStopped
=============================================================================
