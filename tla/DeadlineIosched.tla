-------------------------- MODULE DeadlineIosched --------------------------
(***************************************************************************)
(* The deadline I/O scheduler with the UCSB QoS queue                      *)
(* (drivers/block/deadline-iosched.c), as state-to-state operators.  Each  *)
(* C function that changes the scheduler is an operator that takes the     *)
(* request queue q and returns the queue it leaves behind; the actions     *)
(* that call them are in BlockQueue.                                       *)
(*                                                                         *)
(* q is request_queue_t together with its elevator_data and the            *)
(* deadline_rq part of every request:                                      *)
(*   queue_head        the driver's dispatch list (dd->dispatch)           *)
(*   last_merge        the last merge hint, a request or NULL              *)
(*   sort_list[d]      the requests in the red-black tree of direction d,  *)
(*                     ordered by rb_key                                   *)
(*   fifo_list[d]      the same requests in arrival order                  *)
(*   next_drq[d]       the next request in sort order, or NULL             *)
(*   hash[r]           hash_valid_count of r: 0 when r is off the hash     *)
(*   hash_valid_count  the generation a hash entry must carry to be used   *)
(*   batching, starved, last_sector   the elevator's counters              *)
(*   ucsb_queue, ucsb_cnt             the QoS queue and its counter        *)
(*   ucsb_flag[r]      r went through the QoS queue                        *)
(*   rb_key[r]         the sector r was filed under                        *)
(*   expires[r]        jiffies left until r expires; negative once it has  *)
(***************************************************************************)
EXTENDS Integers, SequencesExt

CONSTANTS
  ReadRq, WriteRq,   \* the request structures of the two free lists
  NULL,
  fifo_expire,       \* [READ |-> read_expire, WRITE |-> write_expire]
  fifo_batch,        \* sequential requests treated as one
  writes_starved,    \* times reads may be preferred to waiting writes
  front_merges,      \* whether bios are merged at the front
  UINT,              \* number of values of an unsigned int
  ULONG              \* number of values of hash_valid_count

READ == "READ"
WRITE == "WRITE"
Dirs == {READ, WRITE}
Rq == ReadRq \cup WriteRq

ASSUME IoschedAssumption ==
  /\ ReadRq \cap WriteRq = {}
  /\ NULL \notin Rq
  /\ fifo_expire \in [Dirs -> Nat]
  /\ fifo_batch \in Nat
  /\ writes_starved \in Nat
  /\ front_merges \in BOOLEAN
  /\ UINT \in Nat \ {0}
  /\ ULONG \in Nat \ {0, 1}

\* A request comes from the free list of its direction and keeps it.
rq_data_dir(r) == IF r \in ReadRq THEN READ ELSE WRITE

UCSB_DEF_PRIORITY == 16

(***************************************************************************)
(* Request flags, and what may be merged                                   *)
(***************************************************************************)
Flags == {"REQ_CMD", "REQ_STARTED", "REQ_NOMERGE", "REQ_HARDBARRIER",
          "REQ_SOFTBARRIER", "REQ_SPECIAL", "REQ_QUEUED"}

blk_fs_request(rq, r) == "REQ_CMD" \in rq[r].flags

rq_mergeable(rq, r) ==
  /\ blk_fs_request(rq, r)
  /\ rq[r].flags \cap {"REQ_NOMERGE", "REQ_STARTED",
                       "REQ_HARDBARRIER", "REQ_SOFTBARRIER"} = {}

\* rq->special is set exactly on the requests flagged REQ_SPECIAL.
elv_rq_merge_ok(rq, r, dir) ==
  /\ rq_mergeable(rq, r)
  /\ dir = rq_data_dir(r)
  /\ "REQ_SPECIAL" \notin rq[r].flags

rq_end(rq, r) == rq[r].sector + rq[r].nr_sectors

elv_try_merge(rq, r, dir, sector) ==
  IF ~elv_rq_merge_ok(rq, r, dir) THEN "NO_MERGE"
  ELSE IF rq_end(rq, r) = sector THEN "BACK_MERGE"
  ELSE IF rq[r].sector - 1 = sector THEN "FRONT_MERGE"
  ELSE "NO_MERGE"

(***************************************************************************)
(* The initial queue: deadline_init and elevator_init                      *)
(***************************************************************************)
deadline_init ==
  [queue_head       |-> <<>>,
   last_merge       |-> NULL,
   sort_list        |-> [d \in Dirs |-> {}],
   fifo_list        |-> [d \in Dirs |-> <<>>],
   next_drq         |-> [d \in Dirs |-> NULL],
   hash             |-> [r \in Rq |-> 0],
   hash_valid_count |-> 1,
   batching         |-> 0,
   starved          |-> 0,
   last_sector      |-> 0,
   ucsb_queue       |-> <<>>,
   ucsb_cnt         |-> 0,
   ucsb_flag        |-> [r \in Rq |-> FALSE],
   rb_key           |-> [r \in Rq |-> 0],
   expires          |-> [r \in Rq |-> 0]]

(***************************************************************************)
(* The red-black trees                                                     *)
(***************************************************************************)
\* The request of S filed under the lowest, or the highest, sector.
Lowest(q, S) ==
  IF S = {} THEN NULL ELSE CHOOSE r \in S : \A s \in S : q.rb_key[r] <= q.rb_key[s]
Highest(q, S) ==
  IF S = {} THEN NULL ELSE CHOOSE r \in S : \A s \in S : q.rb_key[s] <= q.rb_key[r]

rb_next(q, r) ==
  Lowest(q, {s \in q.sort_list[rq_data_dir(r)] : q.rb_key[r] < q.rb_key[s]})
rb_prev(q, r) ==
  Highest(q, {s \in q.sort_list[rq_data_dir(r)] : q.rb_key[s] < q.rb_key[r]})

deadline_find_first_drq(q, d) == Lowest(q, q.sort_list[d])

\* Mutant: next_drq stays on the request that leaves the tree.
deadline_del_drq_rb_keeps_next(q, r) ==
  [q EXCEPT !.sort_list[rq_data_dir(r)] = @ \ {r}]

deadline_del_drq_rb(q, r) ==
  LET d == rq_data_dir(r)
  IN [q EXCEPT !.next_drq[d] = IF @ = r THEN rb_next(q, r) ELSE @,
               !.sort_list[d] = @ \ {r}]

(***************************************************************************)
(* Removing a request from every structure of the scheduler                *)
(***************************************************************************)
deadline_del_drq_hash(q, r) == [q EXCEPT !.hash[r] = 0]

\* Mutant: only the QoS queue is unlinked.
Unlink_ucsb_only(q, r) == [q EXCEPT !.ucsb_queue = RemoveFirst(@, r)]

\* list_del_init(&rq->queuelist), whichever list r is on.
Unlink(q, r) ==
  [q EXCEPT !.queue_head = RemoveFirst(@, r),
            !.ucsb_queue = RemoveFirst(@, r)]

ForgetMerge(q, r) == [q EXCEPT !.last_merge = IF @ = r THEN NULL ELSE @]

\* Mutant: ucsb_flag is left set on a QoS request that leaves the queue.
deadline_remove_request_keeps_flag(q, r) ==
  LET off == IF q.ucsb_flag[r] THEN q
             ELSE [deadline_del_drq_rb(deadline_del_drq_hash(q, r), r) EXCEPT
                     !.fifo_list[rq_data_dir(r)] = RemoveFirst(@, r),
                     !.expires[r] = 0, !.rb_key[r] = 0]
  IN Unlink(ForgetMerge(off, r), r)

\* The expiry and the key of a request that is off the lists are never read:
\* the model clears them.
deadline_remove_request(q, r) ==
  LET off == IF q.ucsb_flag[r]
             THEN [q EXCEPT !.ucsb_flag[r] = FALSE]
             ELSE [deadline_del_drq_rb(deadline_del_drq_hash(q, r), r) EXCEPT
                     !.fifo_list[rq_data_dir(r)] = RemoveFirst(@, r),
                     !.expires[r] = 0, !.rb_key[r] = 0]
  IN Unlink(ForgetMerge(off, r), r)

deadline_move_to_dispatch(q, r) ==
  [deadline_remove_request(q, r) EXCEPT !.queue_head = Append(@, r)]

deadline_move_request(q, rq, r) ==
  LET after == [d \in Dirs |-> IF d = rq_data_dir(r) THEN rb_next(q, r) ELSE NULL]
  IN deadline_move_to_dispatch([q EXCEPT !.next_drq = after,
                                         !.last_sector = rq_end(rq, r)], r)

(***************************************************************************)
(* Filing a request: an alias already filed under the same sector makes    *)
(* room by moving to the dispatch list.                                    *)
(***************************************************************************)
alias(q, rq, r) == {s \in q.sort_list[rq_data_dir(r)] : q.rb_key[s] = rq[r].sector}

deadline_add_drq_rb(q, rq, r) ==
  LET room == IF alias(q, rq, r) = {} THEN q
              ELSE deadline_move_request(q, rq, CHOOSE s \in alias(q, rq, r) : TRUE)
  IN [room EXCEPT !.rb_key[r] = rq[r].sector,
                  !.sort_list[rq_data_dir(r)] = @ \cup {r}]

deadline_add_request(q, rq, r) ==
  [deadline_add_drq_rb(q, rq, r) EXCEPT
     !.expires[r] = fifo_expire[rq_data_dir(r)],
     !.fifo_list[rq_data_dir(r)] = Append(@, r)]

deadline_add_drq_hash(q, r) == [q EXCEPT !.hash[r] = q.hash_valid_count]

(***************************************************************************)
(* The UCSB QoS queue.  prio[r] is the priority a QoS request has now: it  *)
(* is read through rq->bio->bi_qos each time.                              *)
(***************************************************************************)
bi_sector(rq, r) == Head(rq[r].bios).bi_sector

\* The request the scan by priority stops at: the first of lower priority, or the last.
scan_priority(q, prio, r) ==
  LET lower == {i \in DOMAIN q.ucsb_queue : prio[q.ucsb_queue[i]] < prio[r]}
  IN IF lower = {} THEN Len(q.ucsb_queue) ELSE Min(lower)

\* From there back to the first request that is not beyond r on the disk; 0 is the head.
scan_sector(q, rq, prio, r) ==
  Max({0} \cup {i \in 1 .. scan_priority(q, prio, r) :
                   bi_sector(rq, q.ucsb_queue[i]) <= bi_sector(rq, r)})

ucsb_io_add_request(q, rq, prio, r) ==
  [q EXCEPT !.ucsb_cnt = @ + 1,
            !.ucsb_queue = IF @ = <<>> THEN <<r>>
                           ELSE InsertAt(@, scan_sector(q, rq, prio, r) + 1, r)]

ucsb_io_can_dispatch(q, prio, priority) ==
  q.ucsb_queue # <<>> /\ prio[Head(q.ucsb_queue)] >= priority

ucsb_io_dispatch_request(q) ==
  [q EXCEPT !.ucsb_queue = Tail(@),
            !.ucsb_cnt = @ - 1,
            !.queue_head = Append(@, Head(q.ucsb_queue))]

(***************************************************************************)
(* Choosing the next best-effort request                                   *)
(***************************************************************************)
deadline_check_fifo(q, d) == q.expires[Head(q.fifo_list[d])] < 0

deadline_has_request(q) == \E d \in Dirs : q.fifo_list[d] # <<>>

\* Mutant: starved writes are not looked at while there are reads.
dispatch_dir_reads_first(q) == IF q.fifo_list[READ] # <<>> THEN READ ELSE WRITE

\* Outside a batch, reads go first unless writes have been starved long enough.
dispatch_dir(q) ==
  IF q.fifo_list[READ] # <<>> /\ ~(q.fifo_list[WRITE] # <<>> /\ q.starved >= writes_starved)
  THEN READ ELSE WRITE

\* Mutant: the count is not reset when writes get their turn.
starved_next_no_reset(q) ==
  IF q.fifo_list[WRITE] # <<>> THEN (q.starved + 1) % UINT ELSE q.starved

starved_next(q) ==
  IF dispatch_dir(q) = WRITE THEN 0
  ELSE IF q.fifo_list[WRITE] # <<>> THEN (q.starved + 1) % UINT
  ELSE q.starved

deadline_dispatch_requests(q, rq) ==
  LET next     == IF q.next_drq[WRITE] # NULL THEN q.next_drq[WRITE] ELSE q.next_drq[READ]
      batching == IF next # NULL /\ q.last_sector # rq[next].sector
                  THEN (q.batching + fifo_batch) % UINT ELSE q.batching
      inBatch  == next # NULL /\ batching < fifo_batch
      dir      == dispatch_dir(q)
      expired  == deadline_check_fifo(q, dir)
      restart  == expired \/ q.next_drq[dir] = NULL
      drq      == IF inBatch THEN next
                  ELSE IF expired THEN Head(q.fifo_list[dir])
                  ELSE IF q.next_drq[dir] # NULL THEN q.next_drq[dir]
                  ELSE deadline_find_first_drq(q, dir)
  IN deadline_move_request(
       [q EXCEPT !.batching = ((IF ~inBatch /\ restart THEN 0 ELSE batching) + 1) % UINT,
                 !.starved  = IF inBatch THEN @ ELSE starved_next(q)],
       rq, drq)

deadline_queue_empty(q) ==
  ~deadline_has_request(q) /\ q.ucsb_queue = <<>> /\ q.queue_head = <<>>

(***************************************************************************)
(* deadline_next_request: what is on the dispatch list goes first, then    *)
(* QoS requests of at least the default priority, best effort, and the     *)
(* background QoS requests.                                                *)
(***************************************************************************)
deadline_next_request(q, rq, prio) ==
  IF q.queue_head # <<>> THEN q
  ELSE IF ucsb_io_can_dispatch(q, prio, UCSB_DEF_PRIORITY) THEN ucsb_io_dispatch_request(q)
  ELSE IF deadline_has_request(q) THEN deadline_dispatch_requests(q, rq)
  ELSE IF ucsb_io_can_dispatch(q, prio, 0) THEN ucsb_io_dispatch_request(q)
  ELSE q

(***************************************************************************)
(* deadline_insert_request.  For a hard barrier the code empties the sort  *)
(* lists in a loop before it appends the barrier: BlockQueue takes one     *)
(* step per iteration, with the queue lock held.                           *)
(***************************************************************************)
\* Mutant: the generation wraps to 0, which means "not on the hash".
DL_INVALIDATE_HASH_wraps(q) == [q EXCEPT !.hash_valid_count = (@ + 1) % ULONG]

DL_INVALIDATE_HASH(q) ==
  [q EXCEPT !.hash_valid_count = IF (@ + 1) % ULONG = 0 THEN 1 ELSE (@ + 1) % ULONG]

insert_barrier(q) == [DL_INVALIDATE_HASH(q) EXCEPT !.last_merge = NULL]

insert_special(q, r, at_head) ==
  [q EXCEPT !.queue_head = IF at_head THEN <<r>> \o @ ELSE Append(@, r)]

insert_ucsb(q, rq, prio, r) ==
  ucsb_io_add_request([q EXCEPT !.ucsb_flag[r] = TRUE], rq, prio, r)

insert_best_effort(q, rq, r) ==
  LET hashed == IF rq_mergeable(rq, r)
                THEN [deadline_add_drq_hash(q, r) EXCEPT
                        !.last_merge = IF @ = NULL THEN r ELSE @]
                ELSE q
  IN deadline_add_request(hashed, rq, r)

(***************************************************************************)
(* Merging.  deadline_merge looks for a request the bio at sector sits     *)
(* next to: the last one merged, the back-merge hash, then the tree.  The  *)
(* order inside a hash chain is left open: hit is any valid entry that     *)
(* ends at sector, dead the unmergeable entries the walk drops.            *)
(***************************************************************************)
hash_hits(q, rq, sector) ==
  {r \in Rq : q.hash[r] = q.hash_valid_count /\ rq_mergeable(rq, r) /\ rq_end(rq, r) = sector}

hash_dead(q, rq) ==
  {r \in Rq : q.hash[r] # 0 /\ (~rq_mergeable(rq, r) \/ q.hash[r] # q.hash_valid_count)}

deadline_find_drq_rb(q, d, sector) ==
  LET found == {r \in q.sort_list[d] : q.rb_key[r] = sector}
  IN IF found = {} THEN NULL ELSE CHOOSE r \in found : TRUE

elv_try_last_merge(q, rq, dir, sector) ==
  IF q.last_merge # NULL THEN elv_try_merge(rq, q.last_merge, dir, sector) ELSE "NO_MERGE"

deadline_merge(q, rq, dir, sector, hit, dead) ==
  LET last   == elv_try_last_merge(q, rq, dir, sector)
      tried  == [q EXCEPT !.last_merge =
                   IF @ # NULL /\ ~rq_mergeable(rq, @) THEN NULL ELSE @]
      walked == [tried EXCEPT !.hash = [r \in Rq |-> IF r \in dead THEN 0 ELSE @[r]]]
      front  == deadline_find_drq_rb(q, dir, sector + 1)
      result(ret, r, p) == [ret |-> ret, req |-> r, q |-> p]
  IN IF last # "NO_MERGE" THEN result(last, q.last_merge, tried)
     ELSE IF hit # NULL /\ elv_rq_merge_ok(rq, hit, dir)
     THEN result("BACK_MERGE", hit, [walked EXCEPT !.last_merge = hit])
     ELSE IF front_merges /\ front # NULL /\ elv_rq_merge_ok(rq, front, dir)
     THEN result("FRONT_MERGE", front, [walked EXCEPT !.last_merge = front])
     ELSE result("NO_MERGE", NULL, walked)

\* Mutant: the tree is not updated after a front merge.
reposition_hash_only(q, rq, r) ==
  deadline_add_drq_hash(deadline_del_drq_hash(q, r), r)

\* Refile r after a merge: under its new end in the hash, and under its new
\* start in the tree when the merge was at the front.
reposition(q, rq, r) ==
  LET rehashed == deadline_add_drq_hash(deadline_del_drq_hash(q, r), r)
  IN IF rq[r].sector # q.rb_key[r]
     THEN deadline_add_drq_rb(deadline_del_drq_rb(rehashed, r), rq, r)
     ELSE rehashed

deadline_merged_request(q, rq, r) ==
  [reposition(q, rq, r) EXCEPT !.last_merge = r]

\* list_move(&drq->fifo, &dnext->fifo): r takes the place just behind next.
fifo_behind(s, r, next) ==
  LET rest == RemoveFirst(s, r)
  IN InsertAt(rest, SelectInSeq(rest, LAMBDA x : x = next) + 1, r)

deadline_merged_requests(q, rq, r, next) ==
  LET d     == rq_data_dir(r)
      moved == reposition(q, rq, r)
      aged  == IF /\ {r, next} \subseteq ToSet(moved.fifo_list[d])
                  /\ moved.expires[next] < moved.expires[r]
               THEN [moved EXCEPT !.fifo_list[d] = fifo_behind(@, r, next),
                                  !.expires[r] = moved.expires[next]]
               ELSE moved
  IN deadline_remove_request(aged, next)

(***************************************************************************)
(* The shape of the scheduler: the parts of BlockQueue's invariants that   *)
(* are about q alone.                                                      *)
(***************************************************************************)
QueueType ==
  [queue_head       : Seq(Rq),
   last_merge       : Rq \cup {NULL},
   sort_list        : [Dirs -> SUBSET Rq],
   fifo_list        : [Dirs -> Seq(Rq)],
   next_drq         : [Dirs -> Rq \cup {NULL}],
   hash             : [Rq -> Nat],
   hash_valid_count : Nat \ {0},
   batching         : Nat,
   starved          : Nat,
   last_sector      : Nat,
   ucsb_queue       : Seq(Rq),
   ucsb_cnt         : Int,
   ucsb_flag        : [Rq -> BOOLEAN],
   rb_key           : [Rq -> Nat],
   expires          : [Rq -> Int]]

Sorted(q) == q.sort_list[READ] \cup q.sort_list[WRITE]
Queued(q) == Sorted(q) \cup ToSet(q.ucsb_queue) \cup ToSet(q.queue_head)

\* No request is on two lists, or on one twice.
ListsDisjoint(q) ==
  /\ IsInjective(q.queue_head) /\ IsInjective(q.ucsb_queue)
  /\ \A d \in Dirs : IsInjective(q.fifo_list[d])
  /\ Sorted(q) \cap (ToSet(q.ucsb_queue) \cup ToSet(q.queue_head)) = {}
  /\ ToSet(q.ucsb_queue) \cap ToSet(q.queue_head) = {}

\* "requests are present on both sort_list and fifo_list"; the keys of a tree differ.
TreeMatchesFifo(q) ==
  \A d \in Dirs :
    /\ ToSet(q.fifo_list[d]) = q.sort_list[d]
    /\ \A r \in q.sort_list[d] : rq_data_dir(r) = d
    /\ \A r, s \in q.sort_list[d] : q.rb_key[r] = q.rb_key[s] => r = s

\* next_drq ("read, write or both are NULL"), last_merge and the hash lead to sorted
\* requests.
HintsSorted(q) ==
  /\ \A d \in Dirs : q.next_drq[d] \in q.sort_list[d] \cup {NULL}
  /\ \E d \in Dirs : q.next_drq[d] = NULL
  /\ q.last_merge \in Sorted(q) \cup {NULL}
  /\ \A r \in Rq : q.hash[r] # 0 => r \in Sorted(q)

\* ucsb_flag is set on what is on the QoS queue and on nothing that is sorted, and
\* ucsb_cnt counts the QoS queue.
FlagTellsList(q) ==
  /\ \A r \in ToSet(q.ucsb_queue) : q.ucsb_flag[r]
  /\ \A r \in Rq : q.ucsb_flag[r] => r \in ToSet(q.ucsb_queue) \cup ToSet(q.queue_head)
  /\ q.ucsb_cnt = Len(q.ucsb_queue)
=============================================================================
