---------------------------- MODULE TaggedQueue ----------------------------
(***************************************************************************)
(* Tagged command queueing (drivers/block/ll_rw_blk.c) on top of the       *)
(* request queue of BlockQueue: a driver that tags the requests it takes,  *)
(* gives several to the device at a time, and after a reset of the device  *)
(* puts them all back with blk_queue_invalidate_tags.                      *)
(*                                                                         *)
(*   tags          q->queue_tags: tag_map (the set of bits that are set),  *)
(*                 tag_index, busy_list, busy and max_depth; NULL without  *)
(*                 tagging                                                 *)
(*   tag[r]        rq->tag; a request that has one carries REQ_QUEUED      *)
(*   redo          while tags are invalidated, which takes one step per    *)
(*                 request with the lock held: the requests outstanding    *)
(*                 before, oldest first; otherwise empty                   *)
(*   given         what the device has, in the order it was given          *)
(*   bug           a BUG or BUG_ON of these functions was hit              *)
(***************************************************************************)
EXTENDS BlockQueue

CONSTANTS
  Depths,              \* depths the driver may ask for
  queue_nr_requests,   \* requests of a free list
  BLK_TAGS_PER_LONG    \* bits of a word of tag_map

\* struct blk_queue_tag of a depth.
blk_queue_tag(depth) ==
  [tag_map : SUBSET Nat, tag_index : [0 .. depth - 1 -> Rq \cup {NULL}], busy_list : Seq(Rq),
   busy : Nat, max_depth : {depth}]

ASSUME TaggedQueueAssumption ==
  /\ Depths \subseteq Nat
  /\ queue_nr_requests \in Nat
  /\ BLK_TAGS_PER_LONG \in Nat \ {0}
  /\ \A depth \in 0 .. 2 * queue_nr_requests : NULL \notin blk_queue_tag(depth)

VARIABLES tags, tag, redo, given, bug

tag_vars == <<tags, tag, redo, given, bug>>
all_vars == <<vars, tag_vars>>

TInit ==
  /\ Init
  /\ tags = NULL
  /\ tag = [r \in Rq |-> -1]
  /\ redo = <<>> /\ given = <<>>
  /\ bug = FALSE

\* The queue lock is free, of barriers and of an invalidation.
unlocked == lock /\ redo = <<>>

blk_rq_tagged(r) == "REQ_QUEUED" \in rq[r].flags

(***************************************************************************)
(* Turning tagging on and off                                              *)
(***************************************************************************)
bits(depth) == (depth \div BLK_TAGS_PER_LONG) + 1

\* The bits past the depth are never free.
upper_bits(depth) == depth .. bits(depth) * BLK_TAGS_PER_LONG - 1

\* The depth is cut to two free lists of requests.  When memory is short nothing changes.
blk_queue_init_tags(asked) ==
  /\ unlocked /\ tags = NULL
  /\ LET depth == Min({asked, 2 * queue_nr_requests})
     IN tags' = [tag_map |-> upper_bits(depth), tag_index |-> [n \in 0 .. depth - 1 |-> NULL],
                 busy_list |-> <<>>, busy |-> 0, max_depth |-> depth]
  /\ UNCHANGED <<vars, tag, redo, given, bug>>

\* A driver does this when its device is idle; busy tags are a bug.
blk_queue_free_tags ==
  /\ unlocked /\ tags # NULL /\ driver = {}
  /\ bug' = (bug \/ tags.busy # 0 \/ tags.busy_list # <<>>)
  /\ tags' = NULL
  /\ UNCHANGED <<vars, tag, redo, given>>

(***************************************************************************)
(* Tagging a request                                                       *)
(***************************************************************************)
full_word(w) ==
  w * BLK_TAGS_PER_LONG .. (w + 1) * BLK_TAGS_PER_LONG - 1 \subseteq tags.tag_map

\* The scan gives up once the full words reach the depth.
no_tag_left ==
  \E w \in 0 .. tags.max_depth : /\ \A v \in 0 .. w : full_word(v)
                                 /\ (w + 1) * BLK_TAGS_PER_LONG >= tags.max_depth

\* Mutant: a request waits its turn at the end of the list.
busy_list_add_tail(list, r) == Append(list, r)
\* list_add: the last one started comes first.
busy_list_add(list, r) == <<r>> \o list

\* Tag a request that elv_next_request has handed out and take it off the queue.  Without a
\* free tag it stays where it is.
blk_queue_start_tag(r) ==
  /\ unlocked /\ tags # NULL /\ r \in active
  /\ \/ blk_rq_tagged(r) /\ bug' = TRUE /\ UNCHANGED <<vars, tags, tag, given>>
     \/ /\ ~blk_rq_tagged(r) /\ ~no_tag_left
        /\ LET n == Min(0 .. bits(tags.max_depth) * BLK_TAGS_PER_LONG \ tags.tag_map)
           IN /\ tags' = [tags EXCEPT !.tag_map = @ \cup {n}, !.tag_index[n] = r,
                                      !.busy_list = busy_list_add(@, r), !.busy = @ + 1]
              /\ tag' = [tag EXCEPT ![r] = n]
        /\ given' = Append(given, r)
        /\ rq' = [rq EXCEPT ![r].flags = @ \cup {"REQ_QUEUED"}]
        /\ q' = elv_remove_request(q, r)
        /\ active' = active \ {r}
        /\ driver' = driver \cup {r}
        /\ UNCHANGED <<free, barrier_rq, f_qos, pending, epoch, bug>>
  /\ UNCHANGED redo

\* Mutant: a tag just below the depth is taken to be out of range.
blk_queue_find_tag_short(n) ==
  IF tags = NULL \/ tags.max_depth <= n + 1 THEN NULL ELSE tags.tag_index[n]

\* The request that has tag n.  (At n = max_depth the code reads past tag_index: a device
\* never returns that tag.)
blk_queue_find_tag(n) == IF tags = NULL \/ tags.max_depth < n THEN NULL ELSE tags.tag_index[n]

\* Mutant: the tag is not given back.
drop_tag_keeps_bit(t, n, r) ==
  [t EXCEPT !.busy_list = RemoveFirst(@, r), !.tag_index[n] = NULL, !.busy = @ - 1]
drop_tag(t, n, r) ==
  [t EXCEPT !.tag_map = @ \ {n}, !.busy_list = RemoveFirst(@, r), !.tag_index[n] = NULL,
            !.busy = @ - 1]

\* The tag was not handed out: blk_queue_end_tag leaves everything as it is.
not_busy(n) == n >= tags.max_depth \/ n \notin tags.tag_map

blk_queue_end_tag(r) ==
  /\ bug' = (bug \/ tag[r] = -1)
  /\ given' = RemoveFirst(given, r)
  /\ IF not_busy(tag[r]) THEN UNCHANGED <<tags, tag>>
     ELSE tags' = drop_tag(tags, tag[r], r) /\ tag' = [tag EXCEPT ![r] = -1]

\* The driver ends the last of r, "before end_that_request_last()".
end_tagged(r) ==
  /\ unlocked
  /\ end_that_request_last(r)
  /\ IF blk_rq_tagged(r) THEN blk_queue_end_tag(r) ELSE UNCHANGED <<tags, tag, given, bug>>
  /\ UNCHANGED redo

\* ... or puts r back: blk_insert_request, which ends the tag first.
requeue_tagged(r, at_head) ==
  /\ unlocked /\ Requeues /\ r \in driver
  /\ LET cleared == rq[r].flags \ {"REQ_QUEUED"}
     IN rq' = [rq EXCEPT ![r].flags = cleared \cup {"REQ_SPECIAL", "REQ_SOFTBARRIER"}]
  /\ deadline_insert_request(q, rq', r, at_head)
  /\ driver' = driver \ {r}
  /\ IF blk_rq_tagged(r) THEN blk_queue_end_tag(r) ELSE UNCHANGED <<tags, tag, given, bug>>
  /\ UNCHANGED <<free, active, f_qos, pending, epoch, redo>>

(***************************************************************************)
(* The device was reset: nothing is outstanding any more                   *)
(***************************************************************************)
invalidate_begin ==
  /\ unlocked /\ tags # NULL /\ tags.busy_list # <<>>
  /\ redo' = given
  /\ UNCHANGED <<vars, tags, tag, given, bug>>

untagged(x) == [x EXCEPT !.flags = @ \ {"REQ_QUEUED", "REQ_STARTED"}]

\* One pass of the loop: the first request of the busy list goes back to the scheduler, at
\* the head.
invalidate_next ==
  /\ lock /\ redo # <<>> /\ tags.busy_list # <<>>
  /\ LET r == Head(tags.busy_list)
     IN /\ IF tag[r] = -1
           THEN tags' = [tags EXCEPT !.busy_list = Tail(@)] /\ UNCHANGED <<tag, given, bug>>
           ELSE blk_queue_end_tag(r)
        /\ rq' = [rq EXCEPT ![r] = untagged(@)]
        /\ deadline_insert_request(q, rq', r, TRUE)
        /\ driver' = driver \ {r}
  /\ UNCHANGED <<free, active, f_qos, pending, epoch, redo>>

invalidate_end ==
  /\ lock /\ redo # <<>> /\ tags.busy_list = <<>>
  /\ redo' = <<>>
  /\ UNCHANGED <<vars, tags, tag, given, bug>>

(***************************************************************************)
(* Specification.  Without tags the driver takes requests as in BlockQueue *)
(***************************************************************************)
Untagged ==
  /\ redo = <<>>
  /\ \/ Submit
     \/ elv_next_request
     \/ \E r \in Rq : tags = NULL /\ blkdev_dequeue_request(r)
     \/ \E r \in Rq, n \in 1 .. max_sectors : end_that_request_first(r, n)
     \/ \E r \in Rq, at_head \in BOOLEAN : blk_insert_special(r, at_head)
  /\ UNCHANGED tag_vars

Tagged ==
  \E r \in Rq :
    \/ blk_queue_start_tag(r)
    \/ end_tagged(r)
    \/ \E at_head \in BOOLEAN : requeue_tagged(r, at_head)

TNext ==
  \/ Untagged
  \/ insert_barrier_drain /\ UNCHANGED tag_vars
  \/ \E depth \in Depths : blk_queue_init_tags(depth)
  \/ blk_queue_free_tags
  \/ Tagged
  \/ invalidate_begin
  \/ invalidate_next
  \/ invalidate_end

TSpec == TInit /\ [][TNext]_all_vars

(***************************************************************************)
(* Properties                                                              *)
(***************************************************************************)
tagged == {r \in Rq : blk_rq_tagged(r)}

\* The five records of an outstanding request agree whatever order requests are started,
\* ended, put back or invalidated in: a bit of tag_map, an entry of tag_index, rq->tag and
\* REQ_QUEUED, a place on busy_list and a unit of busy.  No tag is handed out past the
\* depth, or twice; and no BUG is hit over a request that comes off the queue tagged or is
\* ended without a tag, or over a busy tag when tagging is turned off.
TagsAgree ==
  /\ ~bug
  /\ tags = NULL => tagged = {}
  /\ tags # NULL =>
       /\ tags.tag_map = upper_bits(tags.max_depth) \cup {tag[r] : r \in tagged}
       /\ ToSet(tags.busy_list) = tagged /\ IsInjective(tags.busy_list)
       /\ tags.busy = Len(tags.busy_list)
       /\ \A n \in 0 .. tags.max_depth - 1 :
            {r \in tagged : tag[r] = n} = {tags.tag_index[n]} \ {NULL}
  /\ tagged \subseteq driver
  /\ \A r \in tagged : tag[r] \in 0 .. tags.max_depth - 1

\* The tag the device returns leads to its request.
AnswersMatched == \A r \in tagged : blk_queue_find_tag(tag[r]) = r

\* x comes before y in s.
before(s, x, y) == \E i, j \in DOMAIN s : i < j /\ s[i] = x /\ s[j] = y

\* The requests of drivers among those that were outstanding: they are not sorted again.
commands == {r \in ToSet(redo) : ~blk_fs_request(rq, r)}

\* After a reset nothing is outstanding, every request is back with the scheduler and may be
\* handed out again, and those that are not re-sorted (driver commands) are at the front of
\* the dispatch list in the order they were first started, with nothing else ahead of them:
\* "readd all requests to the request queue in the right order".
ResetRestarts ==
  [][invalidate_end =>
       /\ tagged = {}
       /\ \A r \in ToSet(redo) : r \in Queued(q) /\ "REQ_STARTED" \notin rq[r].flags
       /\ \A r \in commands : \E k \in DOMAIN q.queue_head :
            /\ q.queue_head[k] = r
            /\ \A i \in 1 .. k - 1 : /\ q.queue_head[i] \in commands
                                     /\ before(redo, q.queue_head[i], r)]_all_vars
=============================================================================
