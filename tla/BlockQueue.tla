----------------------------- MODULE BlockQueue -----------------------------
(***************************************************************************)
(* One request queue of the block layer (drivers/block/ll_rw_blk.c and     *)
(* elevator.c) with the deadline/UCSB scheduler behind it: bios come in    *)
(* through make_request, the driver takes requests out through             *)
(* elv_next_request, ends them or puts them back, and processes change the *)
(* QoS of their files through ioctl.  Every operation runs under           *)
(* q->queue_lock and is one step; only the insertion of a barrier takes    *)
(* several, one per request it drains, with the lock held in between.      *)
(*                                                                         *)
(*   q           the request queue and its scheduler (see DeadlineIosched) *)
(*   rq[r]       flags, sector, nr_sectors and the chain of bios of r      *)
(*   free        the requests on the free lists                            *)
(*   active      requests handed to the driver, still on queue_head        *)
(*   driver      requests the driver has taken off the queue               *)
(*   barrier_rq  the barrier being inserted, which holds the lock, or NULL *)
(*   f_qos[f]    priority of file f's QoS structure, NULL without one      *)
(*   pending     bios submitted and not ended                              *)
(*   epoch       barriers submitted so far; a bio carries the value it saw *)
(*                                                                         *)
(* A bio is one sector and one segment long.  bi_qos is the file whose QoS *)
(* structure the bio points to, or NULL.                                   *)
(***************************************************************************)
EXTENDS DeadlineIosched

CONSTANTS
  Bio,          \* bio structures
  Files,        \* open files whose QoS may be set
  Priorities,   \* priorities ioctl may give them
  MaxSector,    \* last sector of the disk
  max_sectors,  \* q->max_sectors: most sectors of a request
  Barriers,     \* whether bios may carry BIO_RW_BARRIER: subset of BOOLEAN
  Aliases,      \* whether a sector may be asked for again while it is being served
  Specials,     \* whether drivers insert requests of their own
  Requeues,     \* whether drivers put requests back
  Kills,        \* whether prep_rq_fn may refuse a request
  RePrioritise, \* whether ioctl changes a QoS structure that exists
  MaxEpoch,     \* bound on epoch
  MaxOverdue    \* bound on how far a request may be past its deadline

ASSUME BlockQueueAssumption ==
  /\ Priorities \subseteq Int
  /\ MaxSector \in Nat
  /\ max_sectors \in Nat \ {0}
  /\ Barriers \subseteq BOOLEAN
  /\ {Aliases, Specials, Requeues, Kills, RePrioritise} \subseteq BOOLEAN
  /\ MaxEpoch \in Nat
  /\ MaxOverdue \in Nat
  /\ NULL \notin Files

VARIABLES q, rq, free, active, driver, barrier_rq, f_qos, pending, epoch

vars == <<q, rq, free, active, driver, barrier_rq, f_qos, pending, epoch>>

Sectors == 0 .. MaxSector
BioRec == [id : Bio, bi_sector : Sectors, bi_qos : Files \cup {NULL}, epoch : Nat]

\* A request on a free list; get_request clears what was left in it.
idle == [flags |-> {}, sector |-> 0, nr_sectors |-> 0, bios |-> <<>>]

Init ==
  /\ q = deadline_init
  /\ rq = [r \in Rq |-> idle]
  /\ free = Rq
  /\ active = {}
  /\ driver = {}
  /\ barrier_rq = NULL
  /\ f_qos = [f \in Files |-> NULL]
  /\ pending = {}
  /\ epoch = 0

\* The queue lock is free.
lock == barrier_rq = NULL

ids(bios) == {bios[i].id : i \in DOMAIN bios}
sectors(bios) == {bios[i].bi_sector : i \in DOMAIN bios}

\* rq->bio->bi_qos of a request, NULL when it has no bio.
rq_qos(rr, r) == IF rr[r].bios = <<>> THEN NULL ELSE Head(rr[r].bios).bi_qos

\* rq->bio->bi_qos->priority, for the requests that have one.
prio(rr) == [r \in Rq |-> IF rq_qos(rr, r) = NULL THEN 0 ELSE f_qos[rq_qos(rr, r)]]

(***************************************************************************)
(* Inserting a request: deadline_insert_request by the kind of request.  A *)
(* barrier keeps the lock until the sort lists are empty.                  *)
(***************************************************************************)
deadline_insert_request(qq, rr, r, at_head) ==
  IF "REQ_HARDBARRIER" \in rr[r].flags
  THEN q' = insert_barrier(qq) /\ barrier_rq' = r
  ELSE /\ q' = IF ~blk_fs_request(rr, r) THEN insert_special(qq, r, at_head)
               ELSE IF rq_qos(rr, r) # NULL THEN insert_ucsb(qq, rr, prio(rr), r)
               ELSE insert_best_effort(qq, rr, r)
       /\ barrier_rq' = NULL

\* Mutant: the barrier goes on the dispatch list without draining the sort lists.
insert_barrier_no_drain ==
  /\ ~lock
  /\ q' = [q EXCEPT !.queue_head = Append(@, barrier_rq)]
  /\ barrier_rq' = NULL
  /\ UNCHANGED <<rq, free, active, driver, f_qos, pending, epoch>>

insert_barrier_drain ==
  /\ ~lock
  /\ IF deadline_has_request(q)
     THEN /\ q' = deadline_dispatch_requests(q, rq)
          /\ UNCHANGED barrier_rq
     ELSE /\ q' = [q EXCEPT !.queue_head = Append(@, barrier_rq)]
          /\ barrier_rq' = NULL
  /\ UNCHANGED <<rq, free, active, driver, f_qos, pending, epoch>>

(***************************************************************************)
(* Submitting a bio                                                        *)
(***************************************************************************)
\* A direct I/O bio points to the QoS structure of its file, if the file has one;
\* any other bio has a NULL bi_qos.
bi_qos == {NULL} \cup {f \in Files : f_qos[f] # NULL}

\* The bio goes into a request of its own, taken from the free list of its
\* direction.  When there is none the submitter gives up (read-ahead) or sleeps
\* and starts again: the bio is not queued, but what elv_merge did stays done.
get_rq(qq, rr, bio, dir, barrier) ==
  \/ \E r \in free :
       /\ rq_data_dir(r) = dir
       /\ LET flags == {"REQ_CMD"} \cup (IF barrier THEN {"REQ_HARDBARRIER", "REQ_NOMERGE"} ELSE {})
              new   == [flags |-> flags, sector |-> bio.bi_sector,
                        nr_sectors |-> 1, bios |-> <<bio>>]
          IN /\ rq' = [rr EXCEPT ![r] = new]
             /\ deadline_insert_request(qq, rq', r, FALSE)
       /\ free' = free \ {r}
       /\ pending' = pending \cup {bio.id}
       /\ epoch' = IF barrier THEN epoch + 1 ELSE epoch
  \/ /\ \A r \in free : rq_data_dir(r) # dir
     /\ q' = qq /\ rq' = rr
     /\ UNCHANGED <<free, barrier_rq, pending, epoch>>

\* ll_back_merge_fn and ll_front_merge_fn: the request may take one more bio.
may_grow(r) == rq[r].nr_sectors + 1 <= max_sectors

ll_merge_requests_fn(rr, req, next) ==
  /\ "REQ_SPECIAL" \notin rr[req].flags \cup rr[next].flags
  /\ rr[req].nr_sectors + rr[next].nr_sectors <= max_sectors

\* Mutant: neighbours in the tree are taken for neighbours on the disk.
attempt_merge_any(rr, req, next) ==
  /\ rq_mergeable(rr, req) /\ rq_mergeable(rr, next)
  /\ ll_merge_requests_fn(rr, req, next)

\* req may swallow next, which starts where it ends.
attempt_merge(rr, req, next) ==
  /\ rq_mergeable(rr, req) /\ rq_mergeable(rr, next)
  /\ rq_end(rr, req) = rr[next].sector
  /\ ll_merge_requests_fn(rr, req, next)

\* The bio has been added to r, giving rr.  If r now touches the request after it
\* (back merge) or before it (front merge) the two become one, and the emptied
\* one goes back to its free list.
merged(qq, rr, r, req, next) ==
  IF req # NULL /\ next # NULL /\ attempt_merge(rr, req, next)
  THEN LET big == [rr EXCEPT ![req].nr_sectors = @ + rr[next].nr_sectors,
                             ![req].bios = @ \o rr[next].bios]
       IN /\ q' = deadline_merged_requests(qq, big, req, next)
          /\ rq' = [big EXCEPT ![next] = idle]
          /\ free' = free \cup {next}
  ELSE /\ q' = deadline_merged_request(qq, rr, r)
       /\ rq' = rr
       /\ UNCHANGED free

back_merge(qq, r, bio) ==
  LET rr == [rq EXCEPT ![r].nr_sectors = @ + 1, ![r].bios = Append(@, bio)]
  IN merged(qq, rr, r, r, rb_next(qq, r))

front_merge(qq, r, bio) ==
  LET rr == [rq EXCEPT ![r].sector = bio.bi_sector, ![r].nr_sectors = @ + 1,
                       ![r].bios = <<bio>> \o @]
  IN merged(qq, rr, r, rb_prev(qq, r), r)

elv_merge(bio, dir) ==
  LET hits == hash_hits(q, rq, bio.bi_sector)
  IN \E hit \in (IF hits = {} THEN {NULL} ELSE hits), dead \in SUBSET hash_dead(q, rq) :
       LET m == deadline_merge(q, rq, dir, bio.bi_sector, hit, dead)
       IN \/ /\ m.ret # "NO_MERGE" /\ may_grow(m.req)
             /\ IF m.ret = "BACK_MERGE" THEN back_merge(m.q, m.req, bio)
                                        ELSE front_merge(m.q, m.req, bio)
             /\ pending' = pending \cup {bio.id}
             /\ UNCHANGED <<barrier_rq, epoch>>
          \/ /\ m.ret # "NO_MERGE" /\ ~may_grow(m.req)
             /\ get_rq([m.q EXCEPT !.last_merge = NULL],
                       [rq EXCEPT ![m.req].flags = @ \cup {"REQ_NOMERGE"}], bio, dir, FALSE)
          \/ /\ m.ret = "NO_MERGE"
             /\ get_rq(m.q, rq, bio, dir, FALSE)

make_request(b, dir, sector, barrier, qos) ==
  /\ lock
  /\ b \notin pending
  /\ barrier => epoch < MaxEpoch
  /\ Aliases \/ \A r \in Rq : rq_data_dir(r) = dir => sector \notin sectors(rq[r].bios)
  /\ LET bio == [id |-> b, bi_sector |-> sector, bi_qos |-> qos, epoch |-> epoch]
     IN IF deadline_queue_empty(q) \/ barrier \/ qos # NULL
        THEN get_rq(q, rq, bio, dir, barrier)
        ELSE elv_merge(bio, dir)
  /\ UNCHANGED <<active, driver, f_qos>>

(***************************************************************************)
(* The driver's side                                                       *)
(***************************************************************************)
\* One pass of elv_next_request's loop: the request on top of the dispatch list is
\* marked started and handed out.
elv_next_request ==
  LET next == deadline_next_request(q, rq, prio(rq))
      r    == Head(next.queue_head)
  IN /\ lock
     /\ next.queue_head # <<>>
     /\ r \notin active
     /\ q' = ForgetMerge(next, r)
     /\ rq' = [rq EXCEPT ![r].flags = @ \cup {"REQ_STARTED"}]
     /\ active' = active \cup {r}
     /\ UNCHANGED <<free, driver, barrier_rq, f_qos, pending, epoch>>

elv_remove_request(qq, r) == deadline_remove_request(ForgetMerge(qq, r), r)

\* A pass in which prep_rq_fn answers BLKPREP_KILL: the request leaves the queue and
\* every bio of it ends with an error.
elv_next_request_kill ==
  LET next == deadline_next_request(q, rq, prio(rq))
      r    == Head(next.queue_head)
  IN /\ Kills /\ lock
     /\ next.queue_head # <<>>
     /\ q' = elv_remove_request(next, r)
     /\ rq' = [rq EXCEPT ![r] = idle]
     /\ active' = active \ {r}
     /\ free' = free \cup {r}
     /\ pending' = pending \ ids(rq[r].bios)
     /\ UNCHANGED <<driver, barrier_rq, f_qos, epoch>>

blkdev_dequeue_request(r) ==
  /\ lock
  /\ r \in active
  /\ q' = elv_remove_request(q, r)
  /\ active' = active \ {r}
  /\ driver' = driver \cup {r}
  /\ UNCHANGED <<rq, free, barrier_rq, f_qos, pending, epoch>>

\* Mutant: the sectors that have ended are not taken off the request.
blk_recalc_rq_sectors_start_only(x, n) == [x EXCEPT !.sector = @ + n]

blk_recalc_rq_sectors(x, n) == [x EXCEPT !.sector = @ + n, !.nr_sectors = @ - n]

\* The first n bios of r end and r shrinks to the rest; a driver may report this
\* of a request that is still on the queue.
end_that_request_first(r, n) ==
  /\ r \in active \cup driver
  /\ n < Len(rq[r].bios)
  /\ rq' = [rq EXCEPT ![r] = [blk_recalc_rq_sectors(rq[r], n) EXCEPT
                                !.bios = SubSeq(rq[r].bios, n + 1, Len(rq[r].bios))]]
  /\ pending' = pending \ ids(SubSeq(rq[r].bios, 1, n))
  /\ UNCHANGED <<q, free, active, driver, barrier_rq, f_qos, epoch>>

\* The last of r ends and r goes back to its free list.
end_that_request_last(r) ==
  /\ lock
  /\ r \in driver
  /\ rq' = [rq EXCEPT ![r] = idle]
  /\ pending' = pending \ ids(rq[r].bios)
  /\ driver' = driver \ {r}
  /\ free' = free \cup {r}
  /\ UNCHANGED <<q, active, barrier_rq, f_qos, epoch>>

\* A driver puts a request it could not serve back on the queue...
blk_insert_request(r, at_head) ==
  /\ Requeues /\ lock
  /\ r \in driver
  /\ rq' = [rq EXCEPT ![r].flags = @ \cup {"REQ_SPECIAL", "REQ_SOFTBARRIER"}]
  /\ deadline_insert_request(q, rq', r, at_head)
  /\ driver' = driver \ {r}
  /\ UNCHANGED <<free, active, f_qos, pending, epoch>>

\* ... or inserts one of its own, got from blk_get_request.
blk_insert_special(r, at_head) ==
  /\ Specials /\ lock
  /\ r \in free
  /\ rq' = [rq EXCEPT ![r] = [idle EXCEPT !.flags = {"REQ_SPECIAL", "REQ_SOFTBARRIER"}]]
  /\ deadline_insert_request(q, rq', r, at_head)
  /\ free' = free \ {r}
  /\ UNCHANGED <<active, driver, f_qos, pending, epoch>>

(***************************************************************************)
(* ioctl and time.  Neither takes the queue lock.                          *)
(***************************************************************************)
UCSB_IO_SOFT_RT(f) ==
  /\ f_qos[f] = NULL
  /\ f_qos' = [f_qos EXCEPT ![f] = UCSB_DEF_PRIORITY + 2]
  /\ UNCHANGED <<q, rq, free, active, driver, barrier_rq, pending, epoch>>

UCSB_IO_PRIORITY(f, p) ==
  /\ f_qos[f] = NULL \/ RePrioritise
  /\ f_qos' = [f_qos EXCEPT ![f] = p]
  /\ UNCHANGED <<q, rq, free, active, driver, barrier_rq, pending, epoch>>

jiffy ==
  /\ Sorted(q) # {}
  /\ \A r \in Sorted(q) : q.expires[r] > -MaxOverdue
  /\ q' = [q EXCEPT !.expires = [r \in Rq |-> IF r \in Sorted(q) THEN @[r] - 1 ELSE @[r]]]
  /\ UNCHANGED <<rq, free, active, driver, barrier_rq, f_qos, pending, epoch>>

Submit ==
  \E b \in Bio, dir \in Dirs, sector \in Sectors, barrier \in Barriers, qos \in bi_qos :
    make_request(b, dir, sector, barrier, qos)

Drive ==
  \/ elv_next_request
  \/ elv_next_request_kill
  \/ \E r \in Rq :
       \/ blkdev_dequeue_request(r)
       \/ \E n \in 1 .. max_sectors : end_that_request_first(r, n)
       \/ end_that_request_last(r)

Insert ==
  \E r \in Rq, at_head \in BOOLEAN :
    blk_insert_request(r, at_head) \/ blk_insert_special(r, at_head)

SetQos ==
  \E f \in Files : UCSB_IO_SOFT_RT(f) \/ \E p \in Priorities : UCSB_IO_PRIORITY(f, p)

Next == Submit \/ insert_barrier_drain \/ Drive \/ Insert \/ SetQos \/ jiffy

Spec == Init /\ [][Next]_vars

\* The driver keeps asking for requests, serves and ends those it takes, the holder of
\* the lock gets on, and time passes.
Fairness ==
  /\ WF_vars(elv_next_request)
  /\ \A r \in Rq : WF_vars(blkdev_dequeue_request(r)) /\ WF_vars(end_that_request_last(r))
  /\ WF_vars(insert_barrier_drain)
  /\ WF_vars(jiffy)

LiveSpec == Spec /\ Fairness

(***************************************************************************)
(* Invariants                                                              *)
(***************************************************************************)
\* Every variable keeps its type.
TypeOK ==
  /\ q \in QueueType
  /\ rq \in [Rq -> [flags : SUBSET Flags, sector : Nat, nr_sectors : Nat, bios : Seq(BioRec)]]
  /\ free \subseteq Rq
  /\ active \subseteq Rq
  /\ driver \subseteq Rq
  /\ barrier_rq \in Rq \cup {NULL}
  /\ f_qos \in [Files -> Int \cup {NULL}]
  /\ pending \subseteq Bio
  /\ epoch \in Nat

\* The barrier whose insertion is under way.
inserting == {barrier_rq} \ {NULL}

\* Every request is in exactly one place (a free list, a sort list, the QoS queue, the
\* dispatch list, the driver, a barrier being inserted) and no list holds it twice:
\* merges, requeues, aliases and drains neither leak a request nor file it twice.
OneOwner ==
  /\ free \cup Queued(q) \cup driver \cup inserting = Rq
  /\ free \cap (Queued(q) \cup driver \cup inserting) = {}
  /\ driver \cap (Queued(q) \cup inserting) = {}
  /\ inserting \cap Queued(q) = {}
  /\ ListsDisjoint(q)
  /\ active \subseteq ToSet(q.queue_head)

\* The sort list and the fifo of a direction hold the same requests of that direction,
\* each filed under the sector it starts at, no two under the same one.
ListsAgree ==
  /\ TreeMatchesFifo(q)
  /\ \A r \in Sorted(q) : q.rb_key[r] = rq[r].sector

\* The scheduler's shortcuts never dangle: next_drq, last_merge and the hash lead only
\* to requests that are on the sort lists, at most one direction has a next request,
\* and outside the insertion of a barrier no hash entry is of an older generation, so
\* that the wrap of hash_valid_count cannot bring one back.
NoDangling ==
  /\ HintsSorted(q)
  /\ lock => \A r \in Rq : q.hash[r] \in {0, q.hash_valid_count}

\* ucsb_flag tells deadline_remove_request which lists a request is on: it is set on
\* every QoS request from its insertion until it leaves the queue, and on no other.
\* Every request on the QoS queue can be asked for its priority, and ucsb_cnt counts
\* them.
QosQueueSound ==
  /\ FlagTellsList(q)
  /\ \A r \in ToSet(q.ucsb_queue) : rq_qos(rq, r) # NULL
  /\ \A r \in Sorted(q) : rq_qos(rq, r) = NULL

\* No bio is lost, ended twice or served by two requests: the chains of the requests in
\* use partition the pending bios, and each chain covers exactly its request's sectors.
BioChains ==
  /\ pending = UNION {ids(rq[r].bios) : r \in Rq}
  /\ \A r, s \in Rq : r # s => ids(rq[r].bios) \cap ids(rq[s].bios) = {}
  /\ \A r \in Rq :
       /\ Len(rq[r].bios) = rq[r].nr_sectors
       /\ \A i, j \in DOMAIN rq[r].bios : rq[r].bios[i].id = rq[r].bios[j].id => i = j
       /\ \A i \in DOMAIN rq[r].bios : rq[r].bios[i].bi_sector = rq[r].sector + i - 1

is_barrier(r) == "REQ_HARDBARRIER" \in rq[r].flags
\* A file system request that has not been put back, and is not a QoS request.
best_effort(r) ==
  blk_fs_request(rq, r) /\ "REQ_SPECIAL" \notin rq[r].flags /\ rq_qos(rq, r) = NULL
rq_epoch(r) == Head(rq[r].bios).epoch

\* Barriers order best-effort requests: bios submitted on different sides of a barrier
\* never share a request, none submitted before it is still being sorted, and on the
\* dispatch list what came before the barrier is before it and what came after, after.
BarrierOrder ==
  /\ \A r \in Rq : \A i, j \in DOMAIN rq[r].bios : rq[r].bios[i].epoch = rq[r].bios[j].epoch
  /\ lock => \A r \in Sorted(q) : best_effort(r) => rq_epoch(r) = epoch
  /\ \A i, j \in DOMAIN q.queue_head :
       LET r == q.queue_head[i]
           s == q.queue_head[j]
       IN best_effort(r) /\ best_effort(s) /\ i < j
            => /\ rq_epoch(r) <= rq_epoch(s)
               /\ is_barrier(r) => rq_epoch(r) < rq_epoch(s)

\* No request outgrows the device, whichever way bios and requests are merged.
SizeBound == \A r \in Rq : rq[r].nr_sectors <= max_sectors

\* Reads are preferred to waiting writes at most writes_starved times in a row.
StarvedBound == q.starved <= writes_starved

\* A request the driver has been given only ever shrinks: nothing is merged into it, and
\* what is left of it keeps its place on the disk.
StartedOnlyShrinks ==
  [][\A r \in (active \cup driver) \cap (active' \cup driver') :
       /\ IsSuffix(rq'[r].bios, rq[r].bios)
       /\ rq'[r].sector + rq'[r].nr_sectors = rq[r].sector + rq[r].nr_sectors]_vars

\* Every best-effort bio is ended, whatever keeps arriving: neither the other direction
\* ("max times reads can starve a write"), nor the sweep of the elevator, nor a barrier
\* starves it.
EveryBioServed == \A b \in Bio : b \in pending ~> b \notin pending

(***************************************************************************)
(* What the documents say, and the code does not do                        *)
(***************************************************************************)
\* "Service higher-priority requests", then "Linux best-effort requests": a best-effort
\* request is dispatched only when no QoS request of at least the default priority waits.
HigherPriorityFirst ==
  [][elv_next_request /\ Sorted(q') # Sorted(q)
       => \A s \in ToSet(q.ucsb_queue) : prio(rq)[s] < UCSB_DEF_PRIORITY]_vars
=============================================================================
