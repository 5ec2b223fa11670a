---------------------------- MODULE RequestPool ----------------------------
(***************************************************************************)
(* When a submitter gets a request, and when the driver is called: the     *)
(* request pool, congestion and plugging of one queue (ll_rw_blk.c).       *)
(* Which request is served first is BlockQueue's subject; here requests    *)
(* are counted.                                                            *)
(*                                                                         *)
(*   q.count[d]      free requests of direction d (rl->count)              *)
(*   q.congested[d]  BDI_read_congested, BDI_write_congested               *)
(*   q.wait[d]       the processes on rl->wait, oldest first               *)
(*   q.queued[d]     requests with the scheduler                           *)
(*   q.inflight[d]   requests with the device                              *)
(*   q.plugged       the queue is on the plug list                         *)
(*   q.timer         unplug_timer is pending                               *)
(*   q.stopped       QUEUE_FLAG_STOPPED                                    *)
(*   firing, work    the timer's handler is under way; unplug_work pending *)
(*   kick, starting  the driver's completion handler: about to restart the *)
(*                   queue; in blk_start_queue, past the test of the flag  *)
(*   pc[p], bio[p]   where process p is, and the bio it submits            *)
(*   left            bios the processes will still submit                  *)
(*                                                                         *)
(* bio.special marks a driver that gets a request for itself through       *)
(* blk_get_request.                                                        *)
(*                                                                         *)
(* A process is "idle", or in get_request_wait: about to unplug the queue, *)
(* to put itself on the wait queue ("prepare"), on it and about to look at *)
(* the count ("check"), asleep ("schedule"), awake ("finish"), trying to   *)
(* get a request ("get"), or back in __make_request with one ("again"); or *)
(* it sleeps in blk_congestion_wait ("congestion").                        *)
(***************************************************************************)
EXTENDS Integers, FiniteSets, SequencesExt

CONSTANTS
  Proc,               \* processes
  Bios,               \* the bios they submit
  queue_nr_requests,  \* requests of each direction
  unplug_thresh,      \* requests in use at which a plugged queue is unplugged
  Depth,              \* requests the device takes at a time
  MaxBios,            \* number of bios submitted, when not Endless
  Endless             \* whether submission never ends

READ == "READ"
WRITE == "WRITE"
Dirs == {READ, WRITE}

\* Bit numbers: BIO_RW_AHEAD of bi_rw, BIO_UPTODATE of bi_flags.
BIO_RW_AHEAD == 1
BIO_UPTODATE == 0
BioType == [rw : Dirs, bi_rw : SUBSET Nat, bi_flags : SUBSET Nat, special : BOOLEAN]

\* blk_dev_init makes the number a multiple of 8 between 16 and 128.
ASSUME PoolAssumption ==
  /\ IsFiniteSet(Proc)
  /\ Bios \subseteq BioType /\ Bios # {}
  /\ queue_nr_requests \in 16 .. 128 /\ queue_nr_requests % 8 = 0
  /\ unplug_thresh \in Nat
  /\ Depth \in Nat \ {0}
  /\ MaxBios \in Nat
  /\ Endless \in BOOLEAN

VARIABLES q, firing, work, kick, starting, pc, bio, left

vars == <<q, firing, work, kick, starting, pc, bio, left>>

(***************************************************************************)
(* The numbers                                                             *)
(***************************************************************************)
batch_requests ==
  IF queue_nr_requests \div 8 > 8 THEN 8 ELSE queue_nr_requests \div 8

queue_congestion_on_threshold ==
  IF queue_nr_requests \div 8 - 1 < 0 THEN 1 ELSE queue_nr_requests \div 8 - 1

queue_congestion_off_threshold ==
  IF queue_nr_requests \div 8 + 1 > queue_nr_requests THEN queue_nr_requests
  ELSE queue_nr_requests \div 8 + 1

\* The bio of a process that submits none.
none == CHOOSE b \in Bios : TRUE

Init ==
  /\ q = [count     |-> [d \in Dirs |-> queue_nr_requests],
          congested |-> [d \in Dirs |-> FALSE],
          wait      |-> [d \in Dirs |-> <<>>],
          queued    |-> [d \in Dirs |-> 0],
          inflight  |-> [d \in Dirs |-> 0],
          plugged   |-> FALSE,
          timer     |-> FALSE,
          stopped   |-> FALSE]
  /\ firing = FALSE /\ work = FALSE /\ kick = FALSE /\ starting = FALSE
  /\ pc = [p \in Proc |-> "idle"]
  /\ bio = [p \in Proc |-> none]
  /\ left = MaxBios

elv_queue_empty(s) == \A d \in Dirs : s.queued[d] = 0

(***************************************************************************)
(* Taking a request and putting it back                                    *)
(***************************************************************************)
\* Mutant: the queue is congested one request later.
get_request_late(s, d) ==
  [s EXCEPT !.count[d] = @ - 1,
            !.congested[d] = @ \/ s.count[d] < queue_congestion_on_threshold]

get_request(s, d) ==
  [s EXCEPT !.count[d] = @ - 1,
            !.congested[d] = @ \/ s.count[d] - 1 < queue_congestion_on_threshold]

\* Mutant: no waiter is woken at the batch itself.
blk_put_request_past_batch(s, d) ==
  [s EXCEPT !.count[d] = @ + 1,
            !.congested[d] = @ /\ s.count[d] + 1 < queue_congestion_off_threshold,
            !.wait[d] = IF s.count[d] + 1 > batch_requests /\ @ # <<>> THEN Tail(@) ELSE @]

\* Mutant: a waiter is woken at the batch only.
blk_put_request_at_batch(s, d) ==
  [s EXCEPT !.count[d] = @ + 1,
            !.congested[d] = @ /\ s.count[d] + 1 < queue_congestion_off_threshold,
            !.wait[d] = IF s.count[d] + 1 = batch_requests /\ @ # <<>> THEN Tail(@) ELSE @]

\* wake_up takes the oldest exclusive waiter off the wait queue.
blk_put_request(s, d) ==
  [s EXCEPT !.count[d] = @ + 1,
            !.congested[d] = @ /\ s.count[d] + 1 < queue_congestion_off_threshold,
            !.wait[d] = IF s.count[d] + 1 >= batch_requests /\ @ # <<>> THEN Tail(@) ELSE @]

(***************************************************************************)
(* Plugging, and calling the driver                                        *)
(***************************************************************************)
\* Mutant: the timer is not set.
blk_plug_device_no_timer(s) == [s EXCEPT !.plugged = TRUE]

blk_plug_device(s) ==
  IF s.plugged THEN s ELSE [s EXCEPT !.plugged = TRUE, !.timer = TRUE]

blk_remove_plug(s) ==
  IF s.plugged THEN [s EXCEPT !.plugged = FALSE, !.timer = FALSE] ELSE s

blk_stop_queue(s) == [blk_remove_plug(s) EXCEPT !.stopped = TRUE]

\* The driver takes what the device has room for, in an order of the scheduler's
\* choice, and may stop the queue when the device is full.
request_fn(s) ==
  LET queued == s.queued[READ] + s.queued[WRITE]
      room   == Depth - s.inflight[READ] - s.inflight[WRITE]
      n      == IF queued < room THEN queued ELSE room
      Taken  == {t \in [Dirs -> 0 .. Depth] :
                   t[READ] + t[WRITE] = n /\ \A d \in Dirs : t[d] <= s.queued[d]}
      ran    == {[s EXCEPT !.queued   = [d \in Dirs |-> @[d] - t[d]],
                           !.inflight = [d \in Dirs |-> @[d] + t[d]]] : t \in Taken}
  IN IF n < queued THEN ran \cup {blk_stop_queue(r) : r \in ran} ELSE ran

\* Mutant: the stop flag is not looked at.
generic_unplug_device_anyway(s) ==
  LET off == blk_remove_plug(s)
  IN IF s.plugged /\ ~elv_queue_empty(off) THEN request_fn(off) ELSE {off}

generic_unplug_device(s) ==
  LET off == blk_remove_plug(s)
  IN IF s.plugged /\ ~off.stopped /\ ~elv_queue_empty(off) THEN request_fn(off) ELSE {off}

\* The end of __make_request: unplug the queue when enough requests are in use.
unplug_at_threshold(s) ==
  LET nr_queued == (queue_nr_requests - s.count[READ]) + (queue_nr_requests - s.count[WRITE])
  IN IF s.plugged /\ nr_queued = unplug_thresh THEN generic_unplug_device(s) ELSE {s}

(***************************************************************************)
(* Submitters                                                              *)
(***************************************************************************)
goto(p, label) ==
  /\ pc' = [pc EXCEPT ![p] = label]
  /\ bio' = IF label = "idle" THEN [bio EXCEPT ![p] = none] ELSE bio

bio_flagged(b, bit) == bit \in b.bi_flags

\* Mutant: the request got from get_request_wait is forgotten after a merge.
merge_bio_leaks(b, freereq) ==
  /\ q.queued[b.rw] > 0
  /\ q' \in unplug_at_threshold(q)

\* __make_request for bio b, from the lock on; freereq tells whether the process comes
\* back from get_request_wait with a request.  It is done, or it has no request.
merge_bio(b, freereq) ==
  \E bridged \in BOOLEAN :
    /\ q.queued[b.rw] > IF bridged THEN 1 ELSE 0
    /\ LET one == IF bridged THEN blk_put_request([q EXCEPT !.queued[b.rw] = @ - 1], b.rw) ELSE q
           two == IF freereq THEN blk_put_request(one, b.rw) ELSE one
       IN q' \in unplug_at_threshold(two)

add_request(b, freereq) ==
  LET s == IF elv_queue_empty(q) THEN blk_plug_device(q) ELSE q
  IN /\ freereq \/ s.count[b.rw] > 0
     /\ LET got == IF freereq THEN s ELSE get_request(s, b.rw)
        IN q' \in unplug_at_threshold([got EXCEPT !.queued[b.rw] = @ + 1])

no_request(b) ==
  /\ q.count[b.rw] = 0
  /\ q' = IF elv_queue_empty(q) THEN blk_plug_device(q) ELSE q

make_request(p, b) ==
  /\ pc[p] = "idle"
  /\ ~b.special
  /\ Endless \/ left > 0
  /\ \/ (merge_bio(b, FALSE) \/ add_request(b, FALSE)) /\ UNCHANGED <<pc, bio>>
     \/ /\ no_request(b)
        /\ IF bio_flagged(b, BIO_RW_AHEAD) THEN UNCHANGED <<pc, bio>>
           ELSE pc' = [pc EXCEPT ![p] = "unplug"] /\ bio' = [bio EXCEPT ![p] = b]
  /\ left' = IF Endless THEN left ELSE left - 1
  /\ UNCHANGED <<firing, work, kick, starting>>

again(p) ==
  /\ pc[p] = "again"
  /\ ~bio[p].special
  /\ merge_bio(bio[p], TRUE) \/ add_request(bio[p], TRUE)
  /\ goto(p, "idle")
  /\ UNCHANGED <<firing, work, kick, starting, left>>

\* A driver asks for a request of its own ...
blk_get_request(p, b) ==
  /\ pc[p] = "idle"
  /\ b.special
  /\ Endless \/ left > 0
  /\ IF q.count[b.rw] > 0
     THEN q' = get_request(q, b.rw) /\ pc' = [pc EXCEPT ![p] = "again"]
     ELSE q' = q /\ pc' = [pc EXCEPT ![p] = "unplug"]
  /\ bio' = [bio EXCEPT ![p] = b]
  /\ left' = IF Endless THEN left ELSE left - 1
  /\ UNCHANGED <<firing, work, kick, starting>>

\* ... and inserts it, which calls the driver whatever the state of the queue.
blk_insert_request(p) ==
  /\ pc[p] = "again"
  /\ bio[p].special
  /\ q' \in request_fn([q EXCEPT !.queued[bio[p].rw] = @ + 1])
  /\ goto(p, "idle")
  /\ UNCHANGED <<firing, work, kick, starting, left>>

(***************************************************************************)
(* get_request_wait                                                        *)
(***************************************************************************)
wait_unplug(p) ==
  /\ pc[p] = "unplug"
  /\ q' \in generic_unplug_device(q)
  /\ goto(p, "prepare")
  /\ UNCHANGED <<firing, work, kick, starting, left>>

prepare_to_wait_exclusive(p) ==
  /\ pc[p] = "prepare"
  /\ q' = [q EXCEPT !.wait[bio[p].rw] = Append(@, p)]
  /\ goto(p, "check")
  /\ UNCHANGED <<firing, work, kick, starting, left>>

wait_check(p) ==
  /\ pc[p] = "check"
  /\ goto(p, IF q.count[bio[p].rw] = 0 THEN "schedule" ELSE "finish")
  /\ UNCHANGED <<q, firing, work, kick, starting, left>>

\* A process that has been woken, before or after it went to sleep, goes on.
io_schedule(p) ==
  /\ pc[p] = "schedule"
  /\ p \notin ToSet(q.wait[bio[p].rw])
  /\ goto(p, "finish")
  /\ UNCHANGED <<q, firing, work, kick, starting, left>>

finish_wait(p) ==
  /\ pc[p] = "finish"
  /\ q' = [q EXCEPT !.wait[bio[p].rw] = RemoveFirst(@, p)]
  /\ goto(p, "get")
  /\ UNCHANGED <<firing, work, kick, starting, left>>

\* Mutant: the process takes the request it was woken for without looking again.
wait_get_unchecked(p) ==
  /\ pc[p] = "get"
  /\ q' = get_request(q, bio[p].rw) /\ goto(p, "again")
  /\ UNCHANGED <<firing, work, kick, starting, left>>

wait_get(p) ==
  /\ pc[p] = "get"
  /\ IF q.count[bio[p].rw] > 0
     THEN q' = get_request(q, bio[p].rw) /\ goto(p, "again")
     ELSE q' = q /\ goto(p, "prepare")
  /\ UNCHANGED <<firing, work, kick, starting, left>>

\* blk_congestion_wait runs the plugged queues and sleeps until a queue leaves
\* congestion or the time is up, which may be at any moment.
blk_congestion_wait(p) ==
  /\ pc[p] = "idle"
  /\ q' \in generic_unplug_device(q)
  /\ goto(p, "congestion")
  /\ UNCHANGED <<firing, work, kick, starting, left>>

congestion_over(p) ==
  /\ pc[p] = "congestion"
  /\ goto(p, "idle")
  /\ UNCHANGED <<q, firing, work, kick, starting, left>>

(***************************************************************************)
(* The timer, and the driver's completions                                 *)
(***************************************************************************)
timer_expires ==
  /\ q.timer /\ ~firing
  /\ q' = [q EXCEPT !.timer = FALSE]
  /\ firing' = TRUE
  /\ UNCHANGED <<work, kick, starting, pc, bio, left>>

blk_unplug_timeout ==
  /\ firing
  /\ firing' = FALSE
  /\ work' = TRUE
  /\ UNCHANGED <<q, kick, starting, pc, bio, left>>

blk_unplug_work ==
  /\ work
  /\ work' = FALSE
  /\ q' \in generic_unplug_device(q)
  /\ UNCHANGED <<firing, kick, starting, pc, bio, left>>

end_that_request_last(d) ==
  /\ q.inflight[d] > 0
  /\ q' = blk_put_request([q EXCEPT !.inflight[d] = @ - 1], d)
  /\ kick' = TRUE
  /\ UNCHANGED <<firing, work, starting, pc, bio, left>>

\* A driver may stop the queue as long as a completion is due that starts it again.
driver_stops ==
  /\ ~q.stopped
  /\ \E d \in Dirs : q.inflight[d] > 0
  /\ q' = blk_stop_queue(q)
  /\ UNCHANGED <<firing, work, kick, starting, pc, bio, left>>

\* The device has room again: the driver runs the queue, stopped or not; one that it
\* stopped it still has to start ...
blk_run_queue ==
  /\ kick
  /\ q' \in request_fn(blk_remove_plug(q))
  /\ kick' = q.stopped
  /\ UNCHANGED <<firing, work, starting, pc, bio, left>>

\* ... which it does here.  The flag is cleared before the lock is taken.
blk_start_queue ==
  /\ kick /\ ~starting /\ q.stopped
  /\ q' = [q EXCEPT !.stopped = FALSE]
  /\ kick' = FALSE /\ starting' = TRUE
  /\ UNCHANGED <<firing, work, pc, bio, left>>

blk_start_queue_locked ==
  /\ starting
  /\ starting' = FALSE
  /\ q' \in IF elv_queue_empty(q) THEN {q} ELSE request_fn(q)
  /\ UNCHANGED <<firing, work, kick, pc, bio, left>>

Submit(p) == (\E b \in Bios : make_request(p, b) \/ blk_get_request(p, b)) \/ blk_congestion_wait(p)

\* What a process does once it has begun.
Continue(p) ==
  \/ again(p) \/ blk_insert_request(p)
  \/ wait_unplug(p) \/ prepare_to_wait_exclusive(p) \/ wait_check(p)
  \/ io_schedule(p) \/ finish_wait(p) \/ wait_get(p)
  \/ congestion_over(p)

Timer == timer_expires \/ blk_unplug_timeout \/ blk_unplug_work

Driver ==
  \/ \E d \in Dirs : end_that_request_last(d)
  \/ driver_stops
  \/ blk_run_queue \/ blk_start_queue \/ blk_start_queue_locked

Next == (\E p \in Proc : Submit(p) \/ Continue(p)) \/ Timer \/ Driver

Spec == Init /\ [][Next]_vars

\* Processes that are not asleep get on, time passes, and the device ends what it took.
Fairness ==
  /\ \A p \in Proc : WF_vars(Continue(p))
  /\ WF_vars(timer_expires) /\ WF_vars(blk_unplug_timeout) /\ WF_vars(blk_unplug_work)
  /\ \A d \in Dirs : WF_vars(end_that_request_last(d))
  /\ WF_vars(blk_run_queue \/ blk_start_queue) /\ WF_vars(blk_start_queue_locked)

LiveSpec == Spec /\ Fairness

(***************************************************************************)
(* Properties                                                              *)
(***************************************************************************)
\* Every variable keeps its type.
TypeOK ==
  /\ q \in [count : [Dirs -> Nat], congested : [Dirs -> BOOLEAN], wait : [Dirs -> Seq(Proc)],
            queued : [Dirs -> Nat], inflight : [Dirs -> Nat],
            plugged : BOOLEAN, timer : BOOLEAN, stopped : BOOLEAN]
  /\ {firing, work, kick, starting} \subseteq BOOLEAN
  /\ pc \in [Proc -> {"idle", "unplug", "prepare", "check", "schedule", "finish", "get",
                      "again", "congestion"}]
  /\ bio \in [Proc -> Bios]
  /\ left \in Nat

\* The processes of direction d that hold a request not yet queued.
holders(d) == {p \in Proc : pc[p] = "again" /\ bio[p].rw = d}

\* No request leaks ("request list leak!") and none is handed out twice: those that are
\* free, queued, with the device or held by a process add up.
NoRequestLeak ==
  \A d \in Dirs :
    q.count[d] + q.queued[d] + q.inflight[d] + Cardinality(holders(d)) = queue_nr_requests

\* The processes of direction d that sleep, and those a wake-up is for.
on_wait(p, d) == p \in ToSet(q.wait[d])
asleep(d) == {p \in Proc : bio[p].rw = d /\ pc[p] = "schedule" /\ on_wait(p, d)}
woken(d) ==
  {p \in Proc : /\ bio[p].rw = d
                /\ pc[p] \in {"check", "schedule", "finish", "get"}
                /\ ~on_wait(p, d)}

\* No wake-up is lost: while a process sleeps for a request, a batch of them is free only
\* if a process that was woken, or never slept, is on its way to take one.
NoLostWakeup ==
  \A d \in Dirs : asleep(d) # {} /\ q.count[d] >= batch_requests => woken(d) # {}

\* The congestion flag has hysteresis: set while the count is below the one threshold,
\* clear while it is at or above the other.
CongestionTracksCount ==
  \A d \in Dirs :
    /\ q.count[d] < queue_congestion_on_threshold => q.congested[d]
    /\ q.count[d] >= queue_congestion_off_threshold => ~q.congested[d]

\* Queued requests are never forgotten: the queue is plugged and its timer or its work
\* will unplug it, or the driver has requests to end or is about to look at the queue.
QueueNotForgotten ==
  /\ q.plugged => q.timer \/ firing \/ work
  /\ ~elv_queue_empty(q)
       => q.plugged \/ kick \/ starting \/ \E d \in Dirs : q.inflight[d] > 0

\* The calls by which a driver has its queue run without a look at the flag: __blk_run_queue,
\* a blk_start_queue that cleared the flag before the queue was stopped again and now gets
\* the lock, and blk_insert_request.
DriverRuns == blk_run_queue \/ blk_start_queue_locked \/ \E p \in Proc : blk_insert_request(p)

\* While its queue is stopped a driver is given requests by calls of its own only, never by
\* a submitter at the threshold, a waiter, blk_congestion_wait or the timer's work
\* (blk_stop_queue: "prevent the request_fn from being called until the driver has signalled
\* it's ready to go again").
OnlyDriverRunsStopped ==
  [][q.stopped /\ ~DriverRuns => \A d \in Dirs : q'.inflight[d] <= q.inflight[d]]_vars

\* When submission ends, every process returns and every request is back in the pool.
Quiesces ==
  <>[](/\ \A d \in Dirs : q.count[d] = queue_nr_requests
       /\ \A p \in Proc : pc[p] \in {"idle", "congestion"})
=============================================================================
