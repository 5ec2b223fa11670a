-------------------------- MODULE BlockQueueProofs --------------------------
(***************************************************************************)
(* The structural invariants of BlockQueue hold in every behaviour, for    *)
(* any set of requests, bios and files and any tunables.                   *)
(*                                                                         *)
(* None of TypeOK, OneOwner, ListsAgree, NoDangling and QosQueueSound is   *)
(* inductive alone: the scheduler finds the next request through hints and *)
(* lists that only agree because every earlier operation kept all of them  *)
(* in step.  Inv is their conjunction with StarvedBound, SizeBound and the *)
(* length of the bio chains.  The proofs use it regrouped by the state it  *)
(* is about: the queue (QInv), the requests (RqInv) and the owners (Owned).*)
(*                                                                         *)
(* BioChains needs FreeEmpty beside Inv: get_request hands a free request  *)
(* out again, whose old chain must be empty.  What a submission does to    *)
(* the chains is the action BioQueued, which the lemmas about merging and  *)
(* queueing establish next to Inv'.                                        *)
(*                                                                         *)
(* BarrierOrder needs LineInv beside Inv: all that can still go behind the *)
(* dispatch list is of one epoch, which no request on the list is beyond.  *)
(***************************************************************************)
EXTENDS BlockQueue, DeadlineProofs

\* A request has as many sectors as its chain has bios.
ChainLength == \A r \in Rq : Len(rq[r].bios) = rq[r].nr_sectors

Inv ==
  /\ TypeOK /\ OneOwner /\ ListsAgree /\ NoDangling /\ QosQueueSound
  /\ StarvedBound /\ SizeBound /\ ChainLength

RqRec == [flags : SUBSET Flags, sector : Nat, nr_sectors : Nat, bios : Seq(BioRec)]

\* The requests rr are well formed.
RqInv(rr) ==
  /\ rr \in [Rq -> RqRec]
  /\ \A r \in Rq : Len(rr[r].bios) = rr[r].nr_sectors /\ rr[r].nr_sectors <= max_sectors

\* The queue qq is well formed and files the requests rr as they are; b holds its lock.
QInv(qq, rr, b) ==
  /\ WellFormed(qq, {}, {})
  /\ qq.starved <= writes_starved
  /\ \A s \in Sorted(qq) : qq.rb_key[s] = rr[s].sector /\ rq_qos(rr, s) = NULL
  /\ \A s \in ToSet(qq.ucsb_queue) : rq_qos(rr, s) # NULL
  /\ b = NULL => \A s \in Rq : qq.hash[s] \in {0, qq.hash_valid_count}

\* Every request is on the free list fr, on the queue qq, with the driver (dr), or is b,
\* the barrier being inserted; the requests handed out (ac) are on the dispatch list.
Owned(qq, fr, dr, b, ac) ==
  LET ins == {b} \ {NULL}
  IN /\ fr \subseteq Rq /\ dr \subseteq Rq /\ ac \subseteq Rq /\ b \in Rq \cup {NULL}
     /\ fr \cup Queued(qq) \cup dr \cup ins = Rq
     /\ fr \cap (Queued(qq) \cup dr \cup ins) = {}
     /\ dr \cap (Queued(qq) \cup ins) = {}
     /\ ins \cap Queued(qq) = {}
     /\ ac \subseteq ToSet(qq.queue_head)

\* The variables the invariant says no more of than their type.
RestType ==
  /\ f_qos \in [Files -> Int \cup {NULL}]
  /\ pending \subseteq Bio
  /\ epoch \in Nat

LEMMA InvRegrouped ==
  Inv <=> /\ RqInv(rq) /\ QInv(q, rq, barrier_rq)
          /\ Owned(q, free, driver, barrier_rq, active) /\ RestType
BY WellFormedAtRest
   DEF Inv, TypeOK, OneOwner, ListsAgree, NoDangling, QosQueueSound, StarvedBound, SizeBound,
       ChainLength, RqInv, QInv, Owned, RestType, RqRec, inserting, lock

LEMMA InvRegroupedPrime ==
  Inv' <=> /\ RqInv(rq') /\ QInv(q', rq', barrier_rq')
           /\ Owned(q', free', driver', barrier_rq', active') /\ RestType'
BY WellFormedAtRest
   DEF Inv, TypeOK, OneOwner, ListsAgree, NoDangling, QosQueueSound, StarvedBound, SizeBound,
       ChainLength, RqInv, QInv, Owned, RestType, RqRec, inserting, lock

LEMMA InvInit == Init => Inv
<1> SUFFICES ASSUME Init PROVE Inv
  OBVIOUS
<1>1. RqInv(rq)
  BY EmptySeq, BlockQueueAssumption DEF Init, RqInv, RqRec, idle
<1>2. /\ q \in QueueType /\ Sorted(q) = {} /\ ToSet(q.queue_head) = {} /\ ToSet(q.ucsb_queue) = {}
      /\ \A d \in Dirs : ToSet(q.fifo_list[d]) = {}
  BY EmptySeq DEF Init, deadline_init, QueueType, Sorted, ToSet, Dirs
<1>3. ListsDisjoint(q)
  BY <1>2 DEF Init, deadline_init, ListsDisjoint, IsInjective, Dirs
<1>4. WellFormed(q, {}, {})
  BY <1>2, <1>3, EmptySeq DEF Init, deadline_init, WellFormed, FlagTellsList, Dirs
<1>5. QInv(q, rq, barrier_rq)
  <2>1. q.starved = 0 /\ \A s \in Rq : q.hash[s] = 0
    BY DEF Init, deadline_init
  <2>2. 0 <= writes_starved
    BY IoschedAssumption
  <2> QED
    BY <1>2, <1>4, <2>1, <2>2 DEF QInv
<1>6. Owned(q, free, driver, barrier_rq, active)
  BY <1>2 DEF Init, Owned, Queued
<1>7. RestType
  BY DEF Init, RestType
<1> QED
  BY <1>1, <1>5, <1>6, <1>7, InvRegrouped

(***************************************************************************)
(* Facts the steps share                                                   *)
(***************************************************************************)
LEMMA EndsTyped ==
  ASSUME NEW rr, RqInv(rr)
  PROVE  \A s \in Rq : rr[s].sector \in Nat /\ rq_end(rr, s) \in Nat
BY DEF RqInv, RqRec, rq_end

\* Changing a request that is neither sorted nor on the QoS queue is invisible to the queue.
LEMMA QInvOther ==
  ASSUME NEW qq, NEW rr, NEW b, QInv(qq, rr, b), NEW ss, NEW r,
         \A s \in Rq \ {r} : ss[s] = rr[s],
         r \notin Sorted(qq), r \notin ToSet(qq.ucsb_queue)
  PROVE  QInv(qq, ss, b)
<1>1. qq \in QueueType /\ qq.ucsb_queue \in List(Rq)
  BY ListTypes DEF QInv, WellFormed
<1>2. Sorted(qq) \subseteq Rq /\ ToSet(qq.ucsb_queue) \subseteq Rq
  <2>1. qq.sort_list \in [Dirs -> SUBSET Rq]
    BY <1>1, FieldTypes
  <2>2. ToSet(qq.ucsb_queue) \subseteq Rq
    BY <1>1, ListElements
  <2>3. Sorted(qq) \subseteq Rq
    BY <2>1 DEF Sorted, Dirs
  <2> QED
    BY <2>2, <2>3
<1>3. \A s \in Sorted(qq) \cup ToSet(qq.ucsb_queue) : ss[s] = rr[s]
  BY <1>2
<1>4. \A s \in Sorted(qq) \cup ToSet(qq.ucsb_queue) : rq_qos(ss, s) = rq_qos(rr, s)
  BY <1>3 DEF rq_qos
<1> QED
  BY <1>3, <1>4 DEF QInv

\* The queue after a step that sorts nothing and adds nothing to the QoS queue.
LEMMA QInvShrinks ==
  ASSUME NEW qq, NEW rr, NEW b, QInv(qq, rr, b), NEW p, WellFormed(p, {}, {}),
         p.starved <= writes_starved,
         Sorted(p) \subseteq Sorted(qq), ToSet(p.ucsb_queue) \subseteq ToSet(qq.ucsb_queue),
         \A s \in Sorted(p) : p.rb_key[s] = qq.rb_key[s],
         \A s \in Rq : p.hash[s] \in {0, qq.hash[s]},
         p.hash_valid_count = qq.hash_valid_count
  PROVE  QInv(p, rr, b)
BY DEF QInv

\* What is on the dispatch list is nowhere else.
LEMMA HeadElsewhere ==
  ASSUME NEW qq, WellFormed(qq, {}, {}), NEW r \in ToSet(qq.queue_head)
  PROVE  r \in Rq /\ r \in Queued(qq) /\ r \notin Sorted(qq) /\ r \notin ToSet(qq.ucsb_queue)
<1>1. qq.queue_head \in List(Rq) /\ ListsDisjoint(qq)
  BY ListTypes DEF WellFormed
<1> QED
  BY <1>1, ListElements DEF ListsDisjoint, Queued

\* The first request of the dispatch list is on it.
LEMMA HeadListed ==
  ASSUME NEW qq, WellFormed(qq, {}, {}), qq.queue_head # <<>>
  PROVE  Head(qq.queue_head) \in ToSet(qq.queue_head)
<1>1. qq.queue_head \in List(Rq)
  BY ListTypes DEF WellFormed
<1> QED
  BY <1>1, TailList

(***************************************************************************)
(* The order of the dispatch list                                          *)
(***************************************************************************)
\* is_barrier, best_effort and rq_epoch, of a request alone.
Hard(x) == "REQ_HARDBARRIER" \in x.flags
BestEffort(x) ==
  /\ "REQ_CMD" \in x.flags /\ "REQ_SPECIAL" \notin x.flags
  /\ x.bios = <<>> \/ Head(x.bios).bi_qos = NULL
EpochOf(x) == Head(x.bios).epoch

\* The bios of a file system request, one or more, are from between the same two barriers
\* and of one QoS structure, or of none.
Pure(x) ==
  /\ "REQ_CMD" \in x.flags => x.bios # <<>>
  /\ \A i, j \in DOMAIN x.bios :
       x.bios[i].epoch = x.bios[j].epoch /\ x.bios[i].bi_qos = x.bios[j].bi_qos

\* x may be dispatched before a best-effort request of epoch e...
Ahead(x, e) == BestEffort(x) => EpochOf(x) <= e /\ (Hard(x) => EpochOf(x) < e)

\* ... and before y.
line(rr) == {p \in Rq \X Rq : BestEffort(rr[p[2]]) => Ahead(rr[p[1]], EpochOf(rr[p[2]]))}

\* The dispatch list s is in order, and a request of epoch e may be put behind it.
LineOrder(s, rr, e) == (\A r \in ToSet(s) : Ahead(rr[r], e)) /\ InOrder(s, line(rr))

\* Only requests of epoch e, and no barriers, are being sorted.
SortedNow(qq, rr, e) ==
  \A r \in Sorted(qq) : ~Hard(rr[r]) /\ (BestEffort(rr[r]) => EpochOf(rr[r]) = e)

\* b is a barrier being inserted that has not been on the queue before.
new_barrier(rr, b) == b # NULL /\ "REQ_SPECIAL" \notin rr[b].flags

\* The epoch of what is being sorted: a new barrier drains what came before it.
current(rr, b, e) == IF new_barrier(rr, b) THEN EpochOf(rr[b]) ELSE e

LineInv(qq, rr, b, e) ==
  /\ \A r \in Rq : Pure(rr[r])
  /\ new_barrier(rr, b) => "REQ_CMD" \in rr[b].flags /\ e = EpochOf(rr[b]) + 1
  /\ SortedNow(qq, rr, current(rr, b, e))
  /\ LineOrder(qq.queue_head, rr, current(rr, b, e))

LEMMA EpochTyped ==
  ASSUME NEW rr, RqInv(rr), NEW r \in Rq, Pure(rr[r]), "REQ_CMD" \in rr[r].flags
  PROVE  EpochOf(rr[r]) \in Nat
<1>1. rr[r].bios \in Seq(BioRec) /\ rr[r].bios # <<>>
  BY DEF RqInv, RqRec, Pure
<1>2. Head(rr[r].bios) \in BioRec
  BY <1>1, HeadTailProperties
<1> QED
  BY <1>2 DEF EpochOf, BioRec

LEMMA EpochsTyped ==
  ASSUME NEW rr, RqInv(rr), \A r \in Rq : Pure(rr[r])
  PROVE  \A r \in Rq : BestEffort(rr[r]) => EpochOf(rr[r]) \in Nat
BY EpochTyped DEF BestEffort

\* list_add_tail of a request of the current epoch, after which the epoch may be f.
LEMMA LineAppend ==
  ASSUME NEW rr, \A r \in Rq : BestEffort(rr[r]) => EpochOf(rr[r]) \in Nat,
         NEW s \in List(Rq), NEW e \in Nat, LineOrder(s, rr, e),
         NEW r \in Rq, r \notin ToSet(s), NEW f \in Nat, e <= f,
         BestEffort(rr[r]) => EpochOf(rr[r]) = e /\ (Hard(rr[r]) => e < f)
  PROVE  LineOrder(Append(s, r), rr, f)
<1>1. ToSet(Append(s, r)) = ToSet(s) \cup {r} /\ ToSet(s) \subseteq Rq
  BY AppendList, ListElements
<1>2. \A x \in ToSet(s) : Ahead(rr[x], f)
  BY <1>1 DEF LineOrder, Ahead
<1>3. Ahead(rr[r], f)
  BY DEF Ahead
<1>4. \A x \in ToSet(s) : <<x, r>> \in line(rr)
  BY <1>1 DEF LineOrder, line
<1>5. InOrder(s, line(rr))
  BY DEF LineOrder
<1>6. InOrder(Append(s, r), line(rr))
  BY <1>4, <1>5, AppendInOrder
<1> QED
  BY <1>1, <1>2, <1>3, <1>6 DEF LineOrder

\* list_add of a request that is not best effort.
LEMMA LinePrepend ==
  ASSUME NEW rr, NEW s \in List(Rq), NEW e, LineOrder(s, rr, e),
         NEW r \in Rq, r \notin ToSet(s), ~BestEffort(rr[r])
  PROVE  LineOrder(<<r>> \o s, rr, e)
<1>1. ToSet(<<r>> \o s) = ToSet(s) \cup {r} /\ ToSet(s) \subseteq Rq
  BY PrependList, ListElements
<1>2. Ahead(rr[r], e) /\ \A x \in ToSet(s) : <<r, x>> \in line(rr)
  BY <1>1 DEF Ahead, line
<1>3. InOrder(s, line(rr))
  BY DEF LineOrder
<1>4. InOrder(<<r>> \o s, line(rr))
  BY <1>2, <1>3, PrependInOrder
<1> QED
  BY <1>1, <1>2, <1>4 DEF LineOrder

LEMMA LineRemove ==
  ASSUME NEW rr, NEW s \in List(Rq), NEW e, LineOrder(s, rr, e), NEW r
  PROVE  LineOrder(RemoveFirst(s, r), rr, e)
<1>1. ToSet(RemoveFirst(s, r)) = ToSet(s) \ {r}
  BY RemoveFirstList
<1>2. InOrder(s, line(rr))
  BY DEF LineOrder
<1>3. InOrder(RemoveFirst(s, r), line(rr))
  BY <1>2, RemoveInOrder
<1> QED
  BY <1>1, <1>3 DEF LineOrder

\* What the order sees of a request; one that stops being best effort is seen no more.
NoWorse(x, y) ==
  BestEffort(y) => BestEffort(x) /\ EpochOf(y) = EpochOf(x) /\ (Hard(y) => Hard(x))

LEMMA LineKept ==
  ASSUME NEW rr, NEW ss, NEW s \in List(Rq), NEW e, LineOrder(s, rr, e),
         \A r \in ToSet(s) : NoWorse(rr[r], ss[r])
  PROVE  LineOrder(s, ss, e)
<1>1. \A r \in ToSet(s) : Ahead(ss[r], e)
  BY DEF LineOrder, Ahead, NoWorse
<1>2. ASSUME NEW i \in DOMAIN s, NEW j \in DOMAIN s, i < j
      PROVE  <<s[i], s[j]>> \in line(ss)
  <2>1. s[i] \in ToSet(s) /\ s[j] \in ToSet(s) /\ s[i] \in Rq /\ s[j] \in Rq
    BY ListElements DEF ToSet
  <2>2. PICK x, y : x = s[i] /\ y = s[j]
    OBVIOUS
  <2>3. <<x, y>> \in line(rr)
    BY <1>2, <2>2 DEF LineOrder, InOrder
  <2>4. BestEffort(rr[y]) => Ahead(rr[x], EpochOf(rr[y]))
    BY <2>3 DEF line
  <2>5. NoWorse(rr[x], ss[x]) /\ NoWorse(rr[y], ss[y])
    BY <2>1, <2>2
  <2>6. BestEffort(ss[y]) => Ahead(ss[x], EpochOf(ss[y]))
    BY <2>4, <2>5 DEF Ahead, NoWorse
  <2> QED
    BY <2>1, <2>2, <2>6 DEF line
<1>3. InOrder(s, line(ss))
  BY <1>2 DEF InOrder
<1> QED
  BY <1>1, <1>3 DEF LineOrder

\* The queue gave at most one request of A to the dispatch list, all of the current epoch.
LEMMA LineGrows ==
  ASSUME NEW rr, \A r \in Rq : BestEffort(rr[r]) => EpochOf(rr[r]) \in Nat,
         NEW qq, NEW p, qq.queue_head \in List(Rq), NEW A \in SUBSET Rq, HeadGrows(qq, p, A),
         A \cap ToSet(qq.queue_head) = {}, NEW e \in Nat, LineOrder(qq.queue_head, rr, e),
         \A r \in A : BestEffort(rr[r]) => EpochOf(rr[r]) = e /\ ~Hard(rr[r])
  PROVE  LineOrder(p.queue_head, rr, e)
<1>1. CASE p.queue_head = qq.queue_head
  BY <1>1
<1>2. ASSUME NEW r \in A, p.queue_head = Append(qq.queue_head, r)
      PROVE  LineOrder(p.queue_head, rr, e)
  <2>1. /\ r \in Rq /\ r \notin ToSet(qq.queue_head) /\ e <= e
        /\ BestEffort(rr[r]) => EpochOf(rr[r]) = e /\ (Hard(rr[r]) => e < e)
    OBVIOUS
  <2>2. LineOrder(Append(qq.queue_head, r), rr, e)
    BY <2>1, LineAppend
  <2> QED
    BY <1>2, <2>2
<1> QED
  BY <1>1, <1>2 DEF HeadGrows

\* Sorted requests changed, giving ss, or went to the dispatch list, giving p.
LEMMA SortedLine ==
  ASSUME NEW qq, NEW rr, NEW b, QInv(qq, rr, b), NEW c \in Nat, LineOrder(qq.queue_head, rr, c),
         NEW ss, RqInv(ss), \A s \in Rq : Pure(ss[s]),
         \A s \in Rq \ Sorted(qq) : ss[s] = rr[s], SortedNow(qq, ss, c),
         NEW p, Sorted(p) \subseteq Sorted(qq), HeadGrows(qq, p, Sorted(qq))
  PROVE  SortedNow(p, ss, c) /\ LineOrder(p.queue_head, ss, c)
<1>1. /\ qq.queue_head \in List(Rq) /\ Sorted(qq) \in SUBSET Rq
      /\ Sorted(qq) \cap ToSet(qq.queue_head) = {}
  <2>1. qq \in QueueType /\ ListsDisjoint(qq)
    BY DEF QInv, WellFormed
  <2> QED
    BY <2>1, ListTypes DEF QueueType, Sorted, Dirs, ListsDisjoint
<1>2. LineOrder(qq.queue_head, ss, c)
  <2>1. \A s \in ToSet(qq.queue_head) : NoWorse(rr[s], ss[s])
    BY <1>1, ListElements DEF NoWorse
  <2> QED
    BY <1>1, <2>1, LineKept
<1>3. \A s \in Rq : BestEffort(ss[s]) => EpochOf(ss[s]) \in Nat
  BY EpochsTyped
<1>4. \A s \in Sorted(qq) : BestEffort(ss[s]) => EpochOf(ss[s]) = c /\ ~Hard(ss[s])
  BY DEF SortedNow
<1>5. LineOrder(p.queue_head, ss, c)
  BY <1>1, <1>2, <1>3, <1>4, LineGrows
<1> QED
  BY <1>5 DEF SortedNow

(***************************************************************************)
(* Inserting a request                                                     *)
(***************************************************************************)
LEMMA InsertRequest ==
  ASSUME NEW qq, NEW rr, RqInv(rr), QInv(qq, rr, NULL), NEW r \in Rq, r \notin Queued(qq),
         NEW at_head \in BOOLEAN, deadline_insert_request(qq, rr, r, at_head)
  PROVE  /\ QInv(q', rr, barrier_rq')
         /\ ToSet(qq.queue_head) \subseteq ToSet(q'.queue_head)
         /\ barrier_rq' \in {r, NULL}
         /\ barrier_rq' = r => Queued(q') = Queued(qq)
         /\ barrier_rq' = NULL => Queued(q') = Queued(qq) \cup {r}
<1>0. WellFormed(qq, {}, {}) /\ NULL \notin Rq /\ \A s \in Rq : rr[s].sector \in Nat /\ rq_end(rr, s) \in Nat
  BY IoschedAssumption, EndsTyped DEF QInv
<1>1. CASE "REQ_HARDBARRIER" \in rr[r].flags
  <2>1. q' = insert_barrier(qq) /\ barrier_rq' = r
    BY <1>1 DEF deadline_insert_request
  <2>2. WellFormed(q', {}, {}) /\ SamePlaces(qq, q') /\ Sorted(q') = Sorted(qq)
    BY <1>0, <2>1, InsertBarrierWellFormed
  <2> QED
    BY <1>0, <2>1, <2>2 DEF QInv, SamePlaces, Queued
<1>2. CASE "REQ_HARDBARRIER" \notin rr[r].flags /\ ~blk_fs_request(rr, r)
  <2>1. q' = insert_special(qq, r, at_head) /\ barrier_rq' = NULL
    BY <1>2 DEF deadline_insert_request
  <2>2. WellFormed(q', {}, {}) /\ Listed(qq, r, q')
    BY <1>0, <2>1, InsertSpecialWellFormed
  <2> QED
    BY <1>0, <2>1, <2>2 DEF QInv, Listed, Queued
<1>3. CASE /\ "REQ_HARDBARRIER" \notin rr[r].flags /\ blk_fs_request(rr, r)
           /\ rq_qos(rr, r) # NULL
  <2>1. q' = insert_ucsb(qq, rr, prio(rr), r) /\ barrier_rq' = NULL
    BY <1>3 DEF deadline_insert_request
  <2>2. WellFormed(q', {}, {}) /\ QosAdded(qq, r, q')
    BY <1>0, <2>1, InsertUcsbWellFormed
  <2> QED
    BY <1>0, <1>3, <2>1, <2>2 DEF QInv, QosAdded, Queued
<1>4. CASE /\ "REQ_HARDBARRIER" \notin rr[r].flags /\ blk_fs_request(rr, r)
           /\ rq_qos(rr, r) = NULL
  <2>1. q' = insert_best_effort(qq, rr, r) /\ barrier_rq' = NULL
    BY <1>4 DEF deadline_insert_request
  <2>2. WellFormed(q', {}, {}) /\ SortedIn(qq, rr, r, q')
    BY <1>0, <2>1, InsertBestEffortWellFormed
  <2>3. \A s \in Sorted(q') : q'.rb_key[s] = rr[s].sector /\ rq_qos(rr, s) = NULL
    BY <1>4, <2>2 DEF QInv, SortedIn
  <2>4. \A s \in Rq : q'.hash[s] \in {0, q'.hash_valid_count}
    BY <2>2 DEF QInv, SortedIn
  <2>5. q'.ucsb_queue = qq.ucsb_queue /\ q'.starved = qq.starved
    BY <2>2 DEF SortedIn
  <2>6. QInv(q', rr, NULL)
    BY <2>2, <2>3, <2>4, <2>5 DEF QInv
  <2> QED
    BY <1>0, <2>1, <2>2, <2>6 DEF SortedIn, Queued
<1> QED
  BY <1>1, <1>2, <1>3, <1>4

\* Inserting a request of the current epoch keeps the order.
LEMMA InsertLine ==
  ASSUME NEW qq, NEW rr, RqInv(rr), QInv(qq, rr, NULL), NEW r \in Rq, r \notin Queued(qq),
         NEW at_head \in BOOLEAN, deadline_insert_request(qq, rr, r, at_head),
         \A s \in Rq : Pure(rr[s]), NEW e \in Nat,
         SortedNow(qq, rr, e), LineOrder(qq.queue_head, rr, e),
         BestEffort(rr[r]) => EpochOf(rr[r]) = e
  PROVE  /\ SortedNow(q', rr, e) /\ LineOrder(q'.queue_head, rr, e)
         /\ barrier_rq' = IF Hard(rr[r]) THEN r ELSE NULL
<1>0. /\ WellFormed(qq, {}, {}) /\ \A s \in Rq : rr[s].sector \in Nat /\ rq_end(rr, s) \in Nat
      /\ qq.queue_head \in List(Rq) /\ r \notin ToSet(qq.queue_head)
      /\ Sorted(qq) \subseteq Rq /\ Sorted(qq) \cap ToSet(qq.queue_head) = {}
  <2>1. WellFormed(qq, {}, {}) /\ qq \in QueueType /\ ListsDisjoint(qq)
    BY DEF QInv, WellFormed
  <2>2. Sorted(qq) \subseteq Rq
    BY <2>1 DEF QueueType, Sorted, Dirs
  <2> QED
    BY <2>1, <2>2, EndsTyped, ListTypes DEF ListsDisjoint, Queued
<1>a. \A s \in Rq : BestEffort(rr[s]) => EpochOf(rr[s]) \in Nat
  BY EpochsTyped
<1>1. CASE Hard(rr[r])
  <2>1. q' = insert_barrier(qq) /\ barrier_rq' = r
    BY <1>1 DEF deadline_insert_request, Hard
  <2>2. SamePlaces(qq, q') /\ Sorted(q') = Sorted(qq)
    BY <1>0, <2>1, InsertBarrierWellFormed
  <2> QED
    BY <1>1, <2>1, <2>2 DEF SamePlaces, SortedNow
<1>2. CASE ~Hard(rr[r]) /\ ~blk_fs_request(rr, r)
  <2>1. q' = insert_special(qq, r, at_head) /\ barrier_rq' = NULL
    BY <1>2 DEF deadline_insert_request, Hard
  <2>2. Listed(qq, r, q') /\ ~BestEffort(rr[r])
    BY <1>0, <1>2, <2>1, InsertSpecialWellFormed DEF blk_fs_request, BestEffort
  <2>3. e <= e
    OBVIOUS
  <2>4. /\ LineOrder(Append(qq.queue_head, r), rr, e)
        /\ LineOrder(<<r>> \o qq.queue_head, rr, e)
    BY <1>0, <1>a, <2>2, <2>3, LineAppend, LinePrepend
  <2> QED
    BY <1>2, <2>1, <2>2, <2>4 DEF Listed, SortedNow
<1>3. CASE ~Hard(rr[r]) /\ blk_fs_request(rr, r) /\ rq_qos(rr, r) # NULL
  <2>1. q' = insert_ucsb(qq, rr, prio(rr), r) /\ barrier_rq' = NULL
    BY <1>3 DEF deadline_insert_request, Hard
  <2>2. QosAdded(qq, r, q')
    BY <1>0, <2>1, InsertUcsbWellFormed
  <2> QED
    BY <1>3, <2>1, <2>2 DEF QosAdded, SortedNow
<1>4. CASE ~Hard(rr[r]) /\ blk_fs_request(rr, r) /\ rq_qos(rr, r) = NULL
  <2>1. q' = insert_best_effort(qq, rr, r) /\ barrier_rq' = NULL
    BY <1>4 DEF deadline_insert_request, Hard
  <2>2. SortedIn(qq, rr, r, q')
    BY <1>0, <2>1, InsertBestEffortWellFormed
  <2>3. SortedNow(q', rr, e)
    BY <1>4, <2>2 DEF SortedIn, SortedNow
  <2>4. LineOrder(q'.queue_head, rr, e)
    <3>1. HeadGrows(qq, q', Sorted(qq))
      BY <2>2 DEF SortedIn
    <3>2. \A s \in Sorted(qq) : BestEffort(rr[s]) => EpochOf(rr[s]) = e /\ ~Hard(rr[s])
      BY DEF SortedNow
    <3> QED
      BY <1>0, <1>a, <3>1, <3>2, LineGrows
  <2> QED
    BY <1>4, <2>1, <2>3, <2>4
<1> QED
  BY <1>1, <1>2, <1>3, <1>4

\* A request that leaves the free list or the driver for the queue is still owned once.
LEMMA InsertOwned ==
  ASSUME NEW qq, NEW fr, NEW dr, NEW ac, Owned(qq, fr, dr, NULL, ac),
         NEW r \in fr \cup dr, NULL \notin Rq,
         ToSet(qq.queue_head) \subseteq ToSet(q'.queue_head),
         barrier_rq' \in {r, NULL},
         barrier_rq' = r => Queued(q') = Queued(qq),
         barrier_rq' = NULL => Queued(q') = Queued(qq) \cup {r}
  PROVE  Owned(q', fr \ {r}, dr \ {r}, barrier_rq', ac)
BY DEF Owned

(***************************************************************************)
(* Submitting a bio: what it does to the chains of the requests            *)
(***************************************************************************)
SameChain(x, y) == y.sector = x.sector /\ y.nr_sectors = x.nr_sectors /\ y.bios = x.bios

\* y starts where x ends, and z is the two in one.
Joined(x, y, z) ==
  /\ x.sector + x.nr_sectors = y.sector
  /\ z.sector = x.sector
  /\ z.nr_sectors = x.nr_sectors + y.nr_sectors
  /\ z.bios = x.bios \o y.bios

\* The bio as a request of its own.
single(bio) == [flags |-> {}, sector |-> bio.bi_sector, nr_sectors |-> 1, bios |-> <<bio>>]

\* y is x with the bio merged at the back or at the front.
Took(x, bio, y) == Joined(x, single(bio), y) \/ Joined(single(bio), x, y)

\* At most REQ_NOMERGE was set, on a sorted request.
MarkedOnly(rr) ==
  \A s \in Rq : /\ SameChain(rq[s], rr[s])
                /\ rr[s].flags \subseteq rq[s].flags \cup {"REQ_NOMERGE"}
                /\ s \notin Sorted(q) => rr[s] = rq[s]

\* The bio is in a request r of its own...
Started(bio, r) ==
  /\ SameChain(single(bio), rq'[r])
  /\ \A s \in Rq \ {r} : SameChain(rq[s], rq'[s])
  /\ free' = free \ {r}

\* ... in a request r that was sorted...
Grown(bio, r) ==
  /\ Took(rq[r], bio, rq'[r])
  /\ \A s \in Rq \ {r} : SameChain(rq[s], rq'[s])
  /\ free' = free

\* ... or closed the gap between r and t, which are now one.
Bridged(bio, r, t) ==
  /\ r # t
  /\ \E x \in RqRec : \/ Took(rq[r], bio, x) /\ Joined(x, rq[t], rq'[r])
                      \/ Took(rq[t], bio, x) /\ Joined(rq[r], x, rq'[r])
  /\ rq'[t] = idle
  /\ \A s \in Rq \ {r, t} : SameChain(rq[s], rq'[s])
  /\ free' = free \cup {t}

\* The submitter gave up, or the bio is queued; only free and sorted requests are touched.
BioQueued(bio) ==
  /\ \A s \in Rq \ (free \cup Sorted(q)) : rq'[s] = rq[s]
  /\ \A s \in Rq :
       rq'[s].flags \subseteq rq[s].flags \cup {"REQ_CMD", "REQ_HARDBARRIER", "REQ_NOMERGE"}
  /\ \/ /\ \A s \in Rq : SameChain(rq[s], rq'[s])
        /\ free' = free /\ pending' = pending
     \/ /\ pending' = pending \cup {bio.id}
        /\ \/ \E r \in free : Started(bio, r)
           \/ \E r \in Sorted(q) : Grown(bio, r)
           \/ \E r, t \in Sorted(q) : Bridged(bio, r, t)

\* The bio is queued behind what was submitted before it.
BioInLine(qq, rr, bio) ==
  LineInv(qq, rr, NULL, epoch) /\ bio.epoch = epoch => LineInv(q', rq', barrier_rq', epoch')

LEMMA GetRqStep ==
  ASSUME NEW qq, NEW rr, RqInv(rr), QInv(qq, rr, NULL),
         Owned(qq, free, driver, NULL, active), RestType, barrier_rq = NULL,
         RqInv(rq), MarkedOnly(rr), NEW bio \in BioRec, NEW dir, NEW barrier \in BOOLEAN,
         get_rq(qq, rr, bio, dir, barrier), UNCHANGED <<active, driver, f_qos>>
  PROVE  Inv' /\ BioQueued(bio) /\ BioInLine(qq, rr, bio)
<1>0. NULL \notin Rq /\ max_sectors \in Nat \ {0}
  BY IoschedAssumption, BlockQueueAssumption
<1>1. ASSUME NEW r \in free,
             NEW new, new = [flags |-> {"REQ_CMD"} \cup
                                         (IF barrier THEN {"REQ_HARDBARRIER", "REQ_NOMERGE"} ELSE {}),
                             sector |-> bio.bi_sector, nr_sectors |-> 1, bios |-> <<bio>>],
             rq' = [rr EXCEPT ![r] = new],
             deadline_insert_request(qq, rq', r, FALSE),
             free' = free \ {r},
             pending' = pending \cup {bio.id},
             epoch' = IF barrier THEN epoch + 1 ELSE epoch
      PROVE  Inv' /\ BioQueued(bio) /\ BioInLine(qq, rr, bio)
  <2>1. r \in Rq /\ r \notin Queued(qq) /\ r \notin driver
    BY DEF Owned
  <2>2. new \in RqRec /\ Len(new.bios) = new.nr_sectors /\ new.nr_sectors <= max_sectors
    <3>1. bio.bi_sector \in Nat
      BY BlockQueueAssumption DEF BioRec, Sectors
    <3>2. <<bio>> \in Seq(BioRec) /\ Len(<<bio>>) = 1
      OBVIOUS
    <3> QED
      BY <1>0, <1>1, <3>1, <3>2 DEF RqRec, Flags
  <2>3. RqInv(rq')
    BY <1>1, <2>1, <2>2 DEF RqInv
  <2>4. QInv(qq, rq', NULL)
    <3>1. \A s \in Rq \ {r} : rq'[s] = rr[s]
      BY <1>1 DEF RqInv
    <3>2. r \notin Sorted(qq) /\ r \notin ToSet(qq.ucsb_queue)
      BY <2>1 DEF Queued
    <3> QED
      BY <3>1, <3>2, QInvOther
  <2>5. /\ QInv(q', rq', barrier_rq')
        /\ ToSet(qq.queue_head) \subseteq ToSet(q'.queue_head)
        /\ barrier_rq' \in {r, NULL}
        /\ barrier_rq' = r => Queued(q') = Queued(qq)
        /\ barrier_rq' = NULL => Queued(q') = Queued(qq) \cup {r}
    BY <1>1, <2>1, <2>3, <2>4, InsertRequest
  <2>6. Owned(q', free', driver', barrier_rq', active')
    <3>1. Owned(q', free \ {r}, driver \ {r}, barrier_rq', active)
      BY <1>0, <2>5, InsertOwned
    <3>2. driver \ {r} = driver
      BY <2>1
    <3> QED
      BY <1>1, <3>1, <3>2
  <2>7. RestType'
    BY <1>1 DEF RestType, BioRec
  <2>8. rq'[r] = new /\ \A s \in Rq \ {r} : rq'[s] = rr[s]
    BY <1>1, <2>1 DEF RqInv
  <2>9. Started(bio, r)
    <3>1. SameChain(single(bio), rq'[r])
      BY <1>1, <2>8 DEF SameChain, single
    <3> QED
      BY <1>1, <2>8, <3>1 DEF Started, MarkedOnly
  <2>10. new.flags \subseteq {"REQ_CMD", "REQ_HARDBARRIER", "REQ_NOMERGE"}
    BY <1>1
  <2>11. \A s \in Rq : rq'[s].flags
                       \subseteq rq[s].flags \cup {"REQ_CMD", "REQ_HARDBARRIER", "REQ_NOMERGE"}
    BY <2>8, <2>10 DEF MarkedOnly
  <2>12. \A s \in Rq \ (free \cup Sorted(q)) : rq'[s] = rq[s]
    BY <2>8 DEF MarkedOnly
  <2>13. BioQueued(bio)
    BY <1>1, <2>9, <2>11, <2>12 DEF BioQueued
  <2>14. ASSUME LineInv(qq, rr, NULL, epoch), bio.epoch = epoch
         PROVE  LineInv(q', rq', barrier_rq', epoch')
    <3>0. epoch \in Nat /\ r \notin Sorted(qq) /\ r \notin ToSet(qq.queue_head) /\ FALSE \in BOOLEAN
      BY <2>1 DEF RestType, Queued
    <3>1. /\ \A s \in Rq : Pure(rr[s])
          /\ SortedNow(qq, rr, epoch) /\ LineOrder(qq.queue_head, rr, epoch)
      BY <2>14 DEF LineInv, current, new_barrier
    <3>2. new.bios = <<bio>> /\ <<bio>> # <<>> /\ Head(<<bio>>) = bio /\ DOMAIN <<bio>> = {1}
      BY <1>1
    <3>3. Pure(new) /\ EpochOf(new) = epoch
      BY <2>14, <3>2 DEF Pure, EpochOf
    <3>4. "REQ_CMD" \in new.flags /\ "REQ_SPECIAL" \notin new.flags /\ (Hard(new) <=> barrier)
      BY <1>1 DEF Hard
    <3>5. \A s \in Rq : Pure(rq'[s])
      BY <2>8, <3>1, <3>3
    <3>6. WellFormed(qq, {}, {}) /\ qq.queue_head \in List(Rq) /\ Sorted(qq) \subseteq Rq
      BY ListTypes DEF QInv, WellFormed, QueueType, Sorted, Dirs
    <3>7. SortedNow(qq, rq', epoch)
      BY <2>8, <3>0, <3>1, <3>6 DEF SortedNow
    <3>8. LineOrder(qq.queue_head, rq', epoch)
      <4>1. \A s \in ToSet(qq.queue_head) : NoWorse(rr[s], rq'[s])
        BY <2>8, <3>0, <3>6, ListElements DEF NoWorse
      <4> QED
        BY <3>1, <3>6, <4>1, LineKept
    <3>9. /\ SortedNow(q', rq', epoch) /\ LineOrder(q'.queue_head, rq', epoch)
          /\ barrier_rq' = IF Hard(rq'[r]) THEN r ELSE NULL
      BY <1>1, <2>1, <2>3, <2>4, <2>8, <3>0, <3>3, <3>5, <3>7, <3>8, InsertLine
    <3>10. CASE barrier
      <4>1. barrier_rq' = r /\ epoch' = epoch + 1 /\ new_barrier(rq', barrier_rq')
        BY <1>0, <1>1, <2>1, <2>8, <3>4, <3>9, <3>10 DEF new_barrier
      <4>2. current(rq', barrier_rq', epoch') = epoch /\ epoch' = EpochOf(rq'[barrier_rq']) + 1
        BY <2>8, <3>3, <4>1 DEF current
      <4>3. "REQ_CMD" \in rq'[barrier_rq'].flags
        BY <2>8, <3>4, <4>1
      <4> QED
        BY <3>5, <3>9, <4>2, <4>3 DEF LineInv
    <3>11. CASE ~barrier
      <4>1. epoch' = epoch /\ ~new_barrier(rq', barrier_rq')
        BY <1>1, <2>8, <3>4, <3>9, <3>11 DEF new_barrier
      <4>2. current(rq', barrier_rq', epoch') = epoch
        BY <4>1 DEF current
      <4> QED
        BY <3>5, <3>9, <4>1, <4>2 DEF LineInv
    <3> QED
      BY <3>10, <3>11
  <2>15. BioInLine(qq, rr, bio)
    BY <2>14 DEF BioInLine
  <2> QED
    BY <2>3, <2>5, <2>6, <2>7, <2>13, <2>15, InvRegroupedPrime
<1>2. CASE q' = qq /\ rq' = rr /\ UNCHANGED <<free, barrier_rq, pending, epoch>>
  <2>1. Inv'
    BY <1>2, InvRegroupedPrime DEF RestType
  <2>2. BioQueued(bio)
    BY <1>2 DEF BioQueued, MarkedOnly
  <2>3. BioInLine(qq, rr, bio)
    BY <1>2 DEF BioInLine
  <2> QED
    BY <2>1, <2>2, <2>3
<1> QED
  BY <1>1, <1>2 DEF get_rq

\* rq->bio->bi_qos of a chain that grew, when no bio involved has a QoS structure.
LEMMA QosOfAppend ==
  ASSUME NEW s \in Seq(BioRec), NEW t \in Seq(BioRec),
         s # <<>> => Head(s).bi_qos = NULL, t # <<>> => Head(t).bi_qos = NULL
  PROVE  s \o t # <<>> => Head(s \o t).bi_qos = NULL
<1>1. CASE s = <<>>
  BY <1>1, ConcatEmptySeq
<1>2. CASE s # <<>>
  <2>1. /\ Len(s) \in Nat \ {0} /\ Len(t) \in Nat
        /\ s \o t \in Seq(BioRec) /\ Len(s \o t) = Len(s) + Len(t)
        /\ \A i \in 1 .. Len(s) + Len(t) : (s \o t)[i] = IF i <= Len(s) THEN s[i] ELSE t[i - Len(s)]
    BY <1>2, EmptySeq, LenProperties, ConcatProperties
  <2>2. (s \o t)[1] = s[1]
    BY <2>1
  <2>3. Head(s) = s[1] /\ Head(s \o t) = (s \o t)[1]
    BY <2>1
  <2> QED
    BY <1>2, <2>2, <2>3
<1> QED
  BY <1>1, <1>2

\* The bios of x, one or more, are of epoch e and of no QoS structure.
AllOf(x, e) ==
  /\ x.bios \in Seq(BioRec) \ {<<>>}
  /\ \A i \in DOMAIN x.bios : x.bios[i].epoch = e /\ x.bios[i].bi_qos = NULL

LEMMA AllPure ==
  ASSUME NEW x, NEW e, AllOf(x, e)
  PROVE  Pure(x) /\ EpochOf(x) = e
<1>1. Head(x.bios) = x.bios[1] /\ 1 \in DOMAIN x.bios
  BY EmptySeq, LenProperties DEF AllOf
<1> QED
  BY <1>1 DEF AllOf, Pure, EpochOf

LEMMA JoinedAll ==
  ASSUME NEW x, NEW y, NEW z, NEW e, AllOf(x, e), AllOf(y, e), Joined(x, y, z)
  PROVE  AllOf(z, e)
<1> DEFINE s == x.bios
           u == y.bios
<1>1. /\ s \in Seq(BioRec) /\ u \in Seq(BioRec) /\ s # <<>> /\ z.bios = s \o u
      /\ \A i \in DOMAIN s : s[i].epoch = e /\ s[i].bi_qos = NULL
      /\ \A i \in DOMAIN u : u[i].epoch = e /\ u[i].bi_qos = NULL
  BY DEF AllOf, Joined
<1> HIDE DEF s, u
<1>2. /\ Len(s) \in Nat \ {0} /\ Len(u) \in Nat /\ DOMAIN s = 1 .. Len(s) /\ DOMAIN u = 1 .. Len(u)
      /\ s \o u \in Seq(BioRec) /\ Len(s \o u) = Len(s) + Len(u)
      /\ \A i \in 1 .. Len(s) + Len(u) : (s \o u)[i] = IF i <= Len(s) THEN s[i] ELSE u[i - Len(s)]
  BY <1>1, EmptySeq, LenProperties, ConcatProperties
<1>3. s \o u # <<>> /\ DOMAIN (s \o u) = 1 .. Len(s) + Len(u)
  BY <1>2, EmptySeq, LenProperties
<1>4. ASSUME NEW i \in DOMAIN (s \o u)
      PROVE  (s \o u)[i].epoch = e /\ (s \o u)[i].bi_qos = NULL
  <2>1. CASE i <= Len(s)
    <3>1. i \in DOMAIN s /\ (s \o u)[i] = s[i]
      BY <1>2, <1>3, <2>1
    <3> QED
      BY <1>1, <3>1
  <2>2. CASE ~(i <= Len(s))
    <3>1. i - Len(s) \in DOMAIN u /\ (s \o u)[i] = u[i - Len(s)]
      BY <1>2, <1>3, <2>2
    <3> QED
      BY <1>1, <3>1
  <2> QED
    BY <2>1, <2>2
<1> QED
  BY <1>1, <1>2, <1>3, <1>4 DEF AllOf

LEMMA TookAll ==
  ASSUME NEW x, NEW y, NEW bio \in BioRec, bio.bi_qos = NULL, AllOf(x, bio.epoch), Took(x, bio, y)
  PROVE  AllOf(y, bio.epoch)
<1>1. AllOf(single(bio), bio.epoch)
  <2>1. <<bio>> \in Seq(BioRec) /\ <<bio>> # <<>> /\ DOMAIN <<bio>> = {1} /\ <<bio>>[1] = bio
    OBVIOUS
  <2>2. single(bio).bios = <<bio>>
    BY DEF single
  <2> QED
    BY <2>1, <2>2 DEF AllOf
<1> QED
  BY <1>1, JoinedAll DEF Took

\* A sorted request that may be merged has bios of the current epoch only.
LEMMA SortedAll ==
  ASSUME NEW qq, NEW rr, NEW b, QInv(qq, rr, b), RqInv(rr), NEW e, SortedNow(qq, rr, e),
         NEW r \in Sorted(qq), r \in Rq, Pure(rr[r]),
         rq_mergeable(rr, r), "REQ_SPECIAL" \notin rr[r].flags
  PROVE  AllOf(rr[r], e)
<1>1. "REQ_CMD" \in rr[r].flags /\ rr[r].bios # <<>> /\ rr[r].bios \in Seq(BioRec)
  BY DEF rq_mergeable, blk_fs_request, Pure, RqInv, RqRec
<1>2. Head(rr[r].bios).bi_qos = NULL
  BY <1>1 DEF QInv, rq_qos
<1>3. Head(rr[r].bios).epoch = e
  BY <1>1, <1>2 DEF SortedNow, BestEffort, EpochOf
<1>4. Head(rr[r].bios) = rr[r].bios[1] /\ 1 \in DOMAIN rr[r].bios
  BY <1>1, EmptySeq, LenProperties
<1> QED
  BY <1>1, <1>2, <1>3, <1>4 DEF AllOf, Pure

\* A bio was added to r, giving rr; r may have grown together with a neighbour.
LEMMA MergedStep ==
  ASSUME NEW qq, QInv(qq, rq, NULL), RqInv(rq),
         Owned(qq, free, driver, NULL, active), RestType, barrier_rq = NULL,
         NEW rr, RqInv(rr), NEW r \in Sorted(qq),
         \A s \in Rq \ {r} : rr[s] = rq[s], rq_qos(rr, r) = NULL,
         NEW req, NEW next, merged(qq, rr, r, req, next),
         \/ req = r /\ next = rb_next(qq, r) /\ rr[r].sector = rq[r].sector
         \/ req = rb_prev(qq, r) /\ next = r,
         NEW bio \in BioRec, bio.bi_qos = NULL, pending' = pending \cup {bio.id},
         Sorted(qq) = Sorted(q), Took(rq[r], bio, rr[r]), rr[r].flags = rq[r].flags,
         rq_mergeable(rq, r), "REQ_SPECIAL" \notin rq[r].flags,
         UNCHANGED <<barrier_rq, epoch, active, driver, f_qos>>
  PROVE  Inv' /\ BioQueued(bio) /\ BioInLine(qq, rq, bio)
<1>0. /\ NULL \notin Rq /\ WellFormed(qq, {}, {}) /\ qq \in QueueType /\ ListsDisjoint(qq)
      /\ Sorted(qq) \subseteq Rq
      /\ \A s \in Rq : rr[s].sector \in Nat /\ rq_end(rr, s) \in Nat
  BY IoschedAssumption, EndsTyped DEF QInv, WellFormed, QueueType, Sorted, Dirs
<1>1. RestType'
  BY DEF RestType, BioRec
<1>2. \A s \in Sorted(qq) : rq_qos(rr, s) = NULL
  <2>1. \A s \in Rq \ {r} : rq_qos(rr, s) = rq_qos(rq, s)
    BY DEF rq_qos
  <2> QED
    BY <1>0, <2>1 DEF QInv
<1>5. ASSUME LineInv(qq, rq, NULL, epoch), bio.epoch = epoch
      PROVE  /\ epoch \in Nat /\ \A s \in Rq : Pure(rq[s])
             /\ SortedNow(qq, rq, epoch) /\ LineOrder(qq.queue_head, rq, epoch)
             /\ AllOf(rr[r], epoch)
  <2>1. /\ epoch \in Nat /\ \A s \in Rq : Pure(rq[s])
        /\ SortedNow(qq, rq, epoch) /\ LineOrder(qq.queue_head, rq, epoch)
    BY <1>5 DEF LineInv, current, new_barrier, RestType
  <2>2. AllOf(rq[r], bio.epoch)
    BY <1>0, <1>5, <2>1, SortedAll
  <2> QED
    BY <1>5, <2>1, <2>2, TookAll
<1>3. CASE req # NULL /\ next # NULL /\ attempt_merge(rr, req, next)
  <2> DEFINE big == [rr EXCEPT ![req].nr_sectors = @ + rr[next].nr_sectors,
                               ![req].bios = @ \o rr[next].bios]
  <2>1. /\ q' = deadline_merged_requests(qq, big, req, next)
        /\ rq' = [big EXCEPT ![next] = idle]
        /\ free' = free \cup {next}
    BY <1>3 DEF merged
  <2>2. req \in Sorted(qq) /\ next \in Sorted(qq) /\ req # next
    <3>1. rq_data_dir(r) \in Dirs /\ qq.sort_list[rq_data_dir(r)] \subseteq Sorted(qq)
      BY <1>0, DirType DEF Sorted, Dirs
    <3>2. /\ rb_next(qq, r) \in (qq.sort_list[rq_data_dir(r)] \ {r}) \cup {NULL}
          /\ rb_prev(qq, r) \in (qq.sort_list[rq_data_dir(r)] \ {r}) \cup {NULL}
      BY <1>0, Neighbours DEF QueueType
    <3> QED
      BY <1>3, <3>1, <3>2
  <2>3. \A s \in Sorted(qq) \ {next} : rr[s].sector = qq.rb_key[s]
    BY <1>0 DEF QInv
  <2>4. /\ rr[req] \in RqRec /\ rr[next] \in RqRec
        /\ rr[req].bios \in Seq(BioRec) /\ rr[next].bios \in Seq(BioRec)
        /\ rr[req].nr_sectors \in Nat /\ rr[next].nr_sectors \in Nat
        /\ Len(rr[req].bios) = rr[req].nr_sectors /\ Len(rr[next].bios) = rr[next].nr_sectors
    BY <1>0, <2>2 DEF RqInv, RqRec
  <2>5. /\ rr[req].bios \o rr[next].bios \in Seq(BioRec)
        /\ Len(rr[req].bios \o rr[next].bios) = rr[req].nr_sectors + rr[next].nr_sectors
    <3>1. \A s, t \in Seq(BioRec) : s \o t \in Seq(BioRec) /\ Len(s \o t) = Len(s) + Len(t)
      BY ConcatProperties
    <3> QED
      BY <2>4, <3>1
  <2>6. rr[req].nr_sectors + rr[next].nr_sectors <= max_sectors
    BY <1>3 DEF attempt_merge, ll_merge_requests_fn
  <2>7. /\ \A s \in Rq \ {req} : big[s] = rr[s]
        /\ big[req].sector = rr[req].sector
        /\ big[req].nr_sectors = rr[req].nr_sectors + rr[next].nr_sectors
        /\ big[req].bios = rr[req].bios \o rr[next].bios
        /\ big \in [Rq -> RqRec]
    <3> DEFINE n == rr[req].nr_sectors + rr[next].nr_sectors
               c == rr[req].bios \o rr[next].bios
               x == [rr[req] EXCEPT !.nr_sectors = n, !.bios = c]
    <3>0. n \in Nat /\ c \in Seq(BioRec)
      <4>1. \A i, j \in Nat : i + j \in Nat
        OBVIOUS
      <4>2. n \in Nat
        BY <2>4, <4>1
      <4> QED
        BY <2>5, <4>2
    <3>1. rr \in [Rq -> RqRec] /\ req \in Rq
      BY <1>0, <2>2 DEF RqInv
    <3>2. big = [rr EXCEPT ![req] = x]
      BY <2>4, <3>1 DEF RqRec
    <3> HIDE DEF n, c
    <3>3. x \in RqRec /\ x.sector = rr[req].sector /\ x.nr_sectors = n /\ x.bios = c
      BY <2>4, <3>0 DEF RqRec
    <3> HIDE DEF x, big
    <3> QED
      BY <3>1, <3>2, <3>3 DEF n, c
  <2> HIDE DEF big
  <2>8. RqInv(big)
    BY <2>5, <2>6, <2>7 DEF RqInv
  <2>9. /\ \A s \in Rq \ {next} : rq'[s] = big[s]
        /\ rq'[next] = idle
    BY <1>0, <2>1, <2>2, <2>7
  <2>10. RqInv(rq')
    <3>1. idle \in RqRec /\ Len(idle.bios) = idle.nr_sectors /\ idle.nr_sectors <= max_sectors
      BY EmptySeq, BlockQueueAssumption DEF idle, RqRec
    <3> QED
      BY <2>1, <2>7, <2>8, <2>9, <3>1 DEF RqInv
  <2>11. WellFormed(q', {}, {}) /\ Swallowed(qq, next, q')
    <3>1. \A s \in Rq : rq_end(big, s) \in Nat
      BY <2>8, EndsTyped
    <3>2. big[req].sector = qq.rb_key[req]
      BY <2>2, <2>3, <2>7
    <3> QED
      BY <1>0, <2>1, <2>2, <3>1, <3>2, MergedRequestsWellFormed
  <2>12. rq_qos(big, req) = NULL
    <3>1. /\ rr[req].bios # <<>> => Head(rr[req].bios).bi_qos = NULL
          /\ rr[next].bios # <<>> => Head(rr[next].bios).bi_qos = NULL
      BY <1>2, <2>2 DEF rq_qos
    <3>2. big[req].bios # <<>> => Head(big[req].bios).bi_qos = NULL
      <4> DEFINE s == rr[req].bios
                 t == rr[next].bios
      <4>1. /\ s \in Seq(BioRec) /\ t \in Seq(BioRec) /\ big[req].bios = s \o t
            /\ s # <<>> => Head(s).bi_qos = NULL
            /\ t # <<>> => Head(t).bi_qos = NULL
        BY <2>4, <2>7, <3>1
      <4> HIDE DEF s, t
      <4>2. s \o t # <<>> => Head(s \o t).bi_qos = NULL
        BY <4>1, QosOfAppend
      <4> QED
        BY <4>1, <4>2
    <3> QED
      BY <3>2 DEF rq_qos
  <2>13. \A s \in Sorted(q') : q'.rb_key[s] = rq'[s].sector /\ rq_qos(rq', s) = NULL
    <3> SUFFICES ASSUME NEW s \in Sorted(q')
                 PROVE  q'.rb_key[s] = rq'[s].sector /\ rq_qos(rq', s) = NULL
      OBVIOUS
    <3>1. s \in Sorted(qq) /\ s # next /\ s \in Rq /\ q'.rb_key[s] = qq.rb_key[s]
      BY <1>0, <2>11 DEF Swallowed
    <3>2. rq'[s] = big[s] /\ big[s].sector = rr[s].sector
      BY <2>7, <2>9, <3>1
    <3>3. rq_qos(big, s) = NULL
      <4>1. CASE s = req
        BY <2>12, <4>1
      <4>2. CASE s # req
        BY <1>2, <2>7, <3>1, <4>2 DEF rq_qos
      <4> QED
        BY <4>1, <4>2
    <3> QED
      BY <2>3, <3>1, <3>2, <3>3 DEF rq_qos
  <2>14. \A s \in ToSet(q'.ucsb_queue) : rq_qos(rq', s) # NULL
    <3> SUFFICES ASSUME NEW s \in ToSet(q'.ucsb_queue) PROVE rq_qos(rq', s) # NULL
      OBVIOUS
    <3>1. s \in ToSet(qq.ucsb_queue) /\ s \notin Sorted(qq)
      BY <1>0, <2>11 DEF Swallowed, ListsDisjoint
    <3>2. s \in Rq
      BY <1>0, <3>1, ListTypes, ListElements
    <3>3. rq'[s] = rq[s]
      BY <2>2, <2>7, <2>9, <3>1, <3>2
    <3> QED
      BY <3>1, <3>3 DEF QInv, rq_qos
  <2>15. QInv(q', rq', barrier_rq')
    BY <2>11, <2>13, <2>14 DEF QInv, Swallowed
  <2>16. Owned(q', free', driver', barrier_rq', active')
    <3>1. Queued(q') = Queued(qq) \ {next} /\ next \in Queued(qq)
      BY <1>0, <2>2, <2>11 DEF Swallowed, Queued, ListsDisjoint
    <3>2. ToSet(q'.queue_head) = ToSet(qq.queue_head)
      BY <2>11 DEF Swallowed
    <3> QED
      BY <1>0, <2>1, <2>2, <3>1, <3>2 DEF Owned
  <2>17. Joined(rr[req], rr[next], rq'[req])
    <3>1. rr[req].sector + rr[req].nr_sectors = rr[next].sector
      BY <1>3 DEF attempt_merge, rq_end
    <3>2. rq'[req] = big[req]
      BY <1>0, <2>2, <2>9
    <3> QED
      BY <2>7, <3>1, <3>2 DEF Joined
  <2>18. Bridged(bio, req, next)
    <3>1. \A s \in Rq \ {req, next} : rq'[s] = rq[s]
      BY <2>7, <2>9
    <3>2. \A s \in Rq \ {req, next} : SameChain(rq[s], rq'[s])
      BY <3>1 DEF SameChain
    <3>3. CASE req = r
      <4>1. rr[next] = rq[next] /\ rr[r] \in RqRec
        BY <1>0, <2>2, <2>4, <3>3
      <4> QED
        BY <2>1, <2>2, <2>9, <2>17, <3>2, <3>3, <4>1 DEF Bridged
    <3>4. CASE next = r
      <4>1. rr[req] = rq[req] /\ rr[r] \in RqRec
        BY <1>0, <2>2, <2>4, <3>4
      <4> QED
        BY <2>1, <2>2, <2>9, <2>17, <3>2, <3>4, <4>1 DEF Bridged
    <3> QED
      BY <3>3, <3>4
  <2>19. \A s \in Rq : s \notin {req, next} => rq'[s] = rq[s]
    BY <2>7, <2>9
  <2>20. rq'[req].flags \subseteq rq[req].flags /\ rq'[next].flags = {}
    <3>1. big[req].flags = rr[req].flags
      BY <1>0, <2>2, <2>4 DEF big, RqInv, RqRec
    <3>2. rr[req].flags = rq[req].flags
      BY <1>0, <2>2
    <3> QED
      BY <1>0, <2>2, <2>9, <3>1, <3>2 DEF idle
  <2>21. BioQueued(bio)
    <3>1. \A s \in Rq \ (free \cup Sorted(q)) : rq'[s] = rq[s]
      BY <2>2, <2>19
    <3>2. \A s \in Rq : rq'[s].flags
                       \subseteq rq[s].flags \cup {"REQ_CMD", "REQ_HARDBARRIER", "REQ_NOMERGE"}
      BY <2>19, <2>20
    <3> QED
      BY <2>2, <2>18, <3>1, <3>2 DEF BioQueued
  <2>22. ASSUME LineInv(qq, rq, NULL, epoch), bio.epoch = epoch
         PROVE  LineInv(q', rq', barrier_rq', epoch')
    <3>1. /\ epoch \in Nat /\ \A s \in Rq : Pure(rq[s])
          /\ SortedNow(qq, rq, epoch) /\ LineOrder(qq.queue_head, rq, epoch)
          /\ AllOf(rr[r], epoch)
      BY <1>5, <2>22
    <3>2. /\ rq_mergeable(rr, req) /\ "REQ_SPECIAL" \notin rr[req].flags
          /\ rq_mergeable(rr, next) /\ "REQ_SPECIAL" \notin rr[next].flags
      BY <1>3 DEF attempt_merge, ll_merge_requests_fn
    <3>3. ASSUME NEW s \in {req, next} PROVE AllOf(rr[s], epoch)
      <4>1. CASE s = r
        BY <3>1, <4>1
      <4>2. CASE s # r
        <5>1. rr[s] = rq[s] /\ s \in Rq /\ s \in Sorted(qq)
          BY <1>0, <2>2, <4>2
        <5>2. rq_mergeable(rq, s) /\ "REQ_SPECIAL" \notin rq[s].flags
          BY <3>2, <3>3, <5>1 DEF rq_mergeable, blk_fs_request
        <5>3. AllOf(rq[s], epoch)
          BY <3>1, <5>1, <5>2, SortedAll
        <5> QED
          BY <5>1, <5>3
      <4> QED
        BY <4>1, <4>2
    <3>4. AllOf(rq'[req], epoch)
      BY <2>17, <3>3, JoinedAll
    <3>5. Pure(rq'[req]) /\ EpochOf(rq'[req]) = epoch
      BY <3>4, AllPure
    <3>6. Pure(rq'[next]) /\ ~Hard(rq'[next]) /\ ~BestEffort(rq'[next])
      BY <2>9 DEF idle, Pure, Hard, BestEffort
    <3>7. ~Hard(rq'[req])
      BY <1>0, <2>2, <2>20, <3>1 DEF SortedNow, Hard
    <3>8. \A s \in Rq : Pure(rq'[s])
      BY <2>19, <3>1, <3>5, <3>6
    <3>9. SortedNow(qq, rq', epoch)
      BY <1>0, <2>19, <3>1, <3>5, <3>6, <3>7 DEF SortedNow
    <3>10. /\ \A s \in Rq \ Sorted(qq) : rq'[s] = rq[s]
           /\ Sorted(q') \subseteq Sorted(qq) /\ HeadGrows(qq, q', Sorted(qq))
      BY <2>2, <2>11, <2>19 DEF Swallowed, HeadGrows
    <3>11. SortedNow(q', rq', epoch) /\ LineOrder(q'.queue_head, rq', epoch)
      BY <2>10, <3>1, <3>8, <3>9, <3>10, SortedLine
    <3> QED
      BY <3>8, <3>11 DEF LineInv, current, new_barrier
  <2>23. BioInLine(qq, rq, bio)
    BY <2>22 DEF BioInLine
  <2> QED
    BY <1>1, <2>10, <2>15, <2>16, <2>21, <2>23, InvRegroupedPrime
<1>4. CASE ~(req # NULL /\ next # NULL /\ attempt_merge(rr, req, next))
  <2>1. q' = deadline_merged_request(qq, rr, r) /\ rq' = rr /\ free' = free
    BY <1>4 DEF merged
  <2>2. WellFormed(q', {}, {}) /\ SortedIn(qq, rr, r, q')
    BY <1>0, <2>1, MergedRequestWellFormed
  <2>3. \A s \in Sorted(q') : q'.rb_key[s] = rr[s].sector /\ rq_qos(rr, s) = NULL
    <3> SUFFICES ASSUME NEW s \in Sorted(q')
                 PROVE  q'.rb_key[s] = rr[s].sector /\ rq_qos(rr, s) = NULL
      OBVIOUS
    <3>1. s \in Sorted(qq) /\ s \in Rq
      BY <1>0, <2>2 DEF SortedIn
    <3>2. s # r => rr[s].sector = qq.rb_key[s]
      BY <3>1 DEF QInv
    <3> QED
      BY <1>2, <2>2, <3>1, <3>2 DEF SortedIn
  <2>4. \A s \in ToSet(q'.ucsb_queue) : rq_qos(rr, s) # NULL
    <3> SUFFICES ASSUME NEW s \in ToSet(q'.ucsb_queue) PROVE rq_qos(rr, s) # NULL
      OBVIOUS
    <3>1. s \in ToSet(qq.ucsb_queue) /\ s \notin Sorted(qq)
      BY <1>0, <2>2 DEF SortedIn, ListsDisjoint
    <3>2. s \in Rq
      BY <1>0, <3>1, ListTypes, ListElements
    <3> QED
      BY <3>1, <3>2 DEF QInv, rq_qos
  <2>5. QInv(q', rq', barrier_rq')
    BY <2>1, <2>2, <2>3, <2>4 DEF QInv, SortedIn
  <2>6. Owned(q', free', driver', barrier_rq', active')
    <3>1. Queued(q') = Queued(qq) /\ ToSet(qq.queue_head) \subseteq ToSet(q'.queue_head)
      BY <2>2 DEF SortedIn, Queued
    <3> QED
      BY <2>1, <3>1 DEF Owned
  <2>7. Grown(bio, r)
    BY <2>1 DEF Grown, SameChain
  <2>8. BioQueued(bio)
    <3>1. \A s \in Rq \ (free \cup Sorted(q)) : rq'[s] = rq[s]
      BY <2>1
    <3>2. \A s \in Rq : rq'[s].flags
                       \subseteq rq[s].flags \cup {"REQ_CMD", "REQ_HARDBARRIER", "REQ_NOMERGE"}
      BY <2>1
    <3> QED
      BY <2>7, <3>1, <3>2 DEF BioQueued
  <2>9. ASSUME LineInv(qq, rq, NULL, epoch), bio.epoch = epoch
        PROVE  LineInv(q', rq', barrier_rq', epoch')
    <3>1. /\ epoch \in Nat /\ \A s \in Rq : Pure(rq[s])
          /\ SortedNow(qq, rq, epoch) /\ LineOrder(qq.queue_head, rq, epoch)
          /\ AllOf(rr[r], epoch)
      BY <1>5, <2>9
    <3>2. Pure(rr[r]) /\ EpochOf(rr[r]) = epoch
      BY <3>1, AllPure
    <3>3. \A s \in Rq : Pure(rr[s])
      BY <3>1, <3>2
    <3>4. SortedNow(qq, rr, epoch)
      BY <1>0, <3>1, <3>2 DEF SortedNow, Hard
    <3>5. /\ \A s \in Rq \ Sorted(qq) : rr[s] = rq[s]
          /\ Sorted(q') \subseteq Sorted(qq) /\ HeadGrows(qq, q', Sorted(qq))
      BY <2>2 DEF SortedIn
    <3>6. SortedNow(q', rr, epoch) /\ LineOrder(q'.queue_head, rr, epoch)
      BY <3>1, <3>3, <3>4, <3>5, SortedLine
    <3> QED
      BY <2>1, <3>3, <3>6 DEF LineInv, current, new_barrier
  <2>10. BioInLine(qq, rq, bio)
    BY <2>9 DEF BioInLine
  <2> QED
    BY <1>1, <2>1, <2>5, <2>6, <2>8, <2>10, InvRegroupedPrime
<1> QED
  BY <1>3, <1>4

SameButFlags(rr, ss) ==
  /\ ss \in [Rq -> RqRec]
  /\ \A s \in Rq : /\ ss[s].sector = rr[s].sector
                   /\ ss[s].nr_sectors = rr[s].nr_sectors /\ ss[s].bios = rr[s].bios

LEMMA SetFlags ==
  ASSUME NEW rr, RqInv(rr), NEW r \in Rq, NEW f \in SUBSET Flags
  PROVE  SameButFlags(rr, [rr EXCEPT ![r].flags = @ \cup f])
BY DEF RqInv, RqRec, SameButFlags

\* Setting flags of a request changes nothing the invariants see.
LEMMA FlagsOnly ==
  ASSUME NEW rr, RqInv(rr), NEW ss, SameButFlags(rr, ss)
  PROVE  /\ RqInv(ss)
         /\ \A qq, b : QInv(qq, rr, b) => QInv(qq, ss, b)
<1>1. /\ ss \in [Rq -> RqRec]
      /\ \A s \in Rq : /\ ss[s].sector = rr[s].sector
                       /\ ss[s].nr_sectors = rr[s].nr_sectors /\ ss[s].bios = rr[s].bios
  BY DEF SameButFlags
<1>2. RqInv(ss)
  BY <1>1 DEF RqInv
<1>3. ASSUME NEW qq, NEW b, QInv(qq, rr, b) PROVE QInv(qq, ss, b)
  <2>1. qq \in QueueType /\ qq.ucsb_queue \in List(Rq)
    BY <1>3, ListTypes DEF QInv, WellFormed
  <2>2. Sorted(qq) \subseteq Rq /\ ToSet(qq.ucsb_queue) \subseteq Rq
    BY <2>1, ListElements DEF QueueType, Sorted, Dirs
  <2>3. \A s \in Rq : rq_qos(ss, s) = rq_qos(rr, s)
    BY <1>1 DEF rq_qos
  <2> QED
    BY <1>1, <1>3, <2>2, <2>3 DEF QInv
<1> QED
  BY <1>2, <1>3

\* The request that deadline_merge offers may take bios, and ends, or starts, where the bio is.
LEMMA MergeAdjoins ==
  ASSUME NEW qq, NEW rr, RqInv(rr), QInv(qq, rr, NULL), NEW dir \in Dirs, NEW sector \in Nat,
         NEW hit \in hash_hits(qq, rr, sector) \cup {NULL}, NEW dead,
         NEW m, m = deadline_merge(qq, rr, dir, sector, hit, dead), m.ret # "NO_MERGE"
  PROVE  /\ elv_rq_merge_ok(rr, m.req, dir)
         /\ IF m.ret = "BACK_MERGE" THEN rq_end(rr, m.req) = sector
                                    ELSE rr[m.req].sector = sector + 1
<1> DEFINE last   == elv_try_last_merge(qq, rr, dir, sector)
           front  == deadline_find_drq_rb(qq, dir, sector + 1)
           tried  == [qq EXCEPT !.last_merge = IF @ # NULL /\ ~rq_mergeable(rr, @) THEN NULL ELSE @]
           walked == [tried EXCEPT !.hash = [r \in Rq |-> IF r \in dead THEN 0 ELSE @[r]]]
<1>1. \/ m.ret = last /\ m.req = qq.last_merge
      \/ m.ret = "BACK_MERGE" /\ m.req = hit /\ hit # NULL /\ elv_rq_merge_ok(rr, hit, dir)
      \/ m.ret = "FRONT_MERGE" /\ m.req = front /\ front # NULL /\ elv_rq_merge_ok(rr, front, dir)
  <2> HIDE DEF tried, walked, front
  <2>1. m = IF last # "NO_MERGE" THEN [ret |-> last, req |-> qq.last_merge, q |-> tried]
            ELSE IF hit # NULL /\ elv_rq_merge_ok(rr, hit, dir)
            THEN [ret |-> "BACK_MERGE", req |-> hit, q |-> [walked EXCEPT !.last_merge = hit]]
            ELSE IF front_merges /\ front # NULL /\ elv_rq_merge_ok(rr, front, dir)
            THEN [ret |-> "FRONT_MERGE", req |-> front, q |-> [walked EXCEPT !.last_merge = front]]
            ELSE [ret |-> "NO_MERGE", req |-> NULL, q |-> walked]
    BY DEF deadline_merge, tried, walked, front
  <2> HIDE DEF last
  <2> QED
    BY <2>1
<1>2. CASE m.ret = last /\ m.req = qq.last_merge
  <2>1. qq.last_merge # NULL /\ last = elv_try_merge(rr, m.req, dir, sector)
    BY <1>2 DEF elv_try_last_merge
  <2>2. m.req \in Rq
    BY <1>2, <2>1 DEF QInv, WellFormed, QueueType
  <2>3. rr[m.req].sector \in Nat
    BY <2>2, EndsTyped
  <2> QED
    BY <1>2, <2>1, <2>3 DEF elv_try_merge
<1>3. CASE m.ret = "BACK_MERGE" /\ m.req = hit /\ hit # NULL /\ elv_rq_merge_ok(rr, hit, dir)
  BY <1>3 DEF hash_hits
<1>4. CASE m.ret = "FRONT_MERGE" /\ m.req = front /\ front # NULL /\ elv_rq_merge_ok(rr, front, dir)
  <2>1. front \in qq.sort_list[dir] /\ qq.rb_key[front] = sector + 1
    BY <1>4 DEF deadline_find_drq_rb
  <2>2. front \in Sorted(qq)
    BY <2>1 DEF Sorted, Dirs
  <2> QED
    BY <1>4, <2>1, <2>2 DEF QInv
<1> QED
  BY <1>1, <1>2, <1>3, <1>4

LEMMA MakeRequestStep ==
  ASSUME Inv, NEW b \in Bio, NEW dir \in Dirs, NEW sector \in Sectors,
         NEW barrier \in BOOLEAN, NEW qos \in bi_qos, make_request(b, dir, sector, barrier, qos),
         NEW bio, bio = [id |-> b, bi_sector |-> sector, bi_qos |-> qos, epoch |-> epoch]
  PROVE  Inv' /\ BioQueued(bio) /\ BioInLine(q, rq, bio)
<1>0. /\ RqInv(rq) /\ QInv(q, rq, NULL) /\ Owned(q, free, driver, NULL, active) /\ RestType
      /\ barrier_rq = NULL /\ UNCHANGED <<active, driver, f_qos>>
  BY InvRegrouped DEF make_request, lock
<1>1. bio \in BioRec
  BY <1>0 DEF BioRec, RestType, bi_qos
<1>2. CASE get_rq(q, rq, bio, dir, barrier)
  <2>1. MarkedOnly(rq)
    BY DEF MarkedOnly, SameChain
  <2> QED
    BY <1>0, <1>1, <1>2, <2>1, GetRqStep
<1>3. CASE qos = NULL /\ elv_merge(bio, dir)
  <2>1. bio.bi_sector = sector /\ bio.bi_qos = NULL /\ bio.id = b
    BY <1>3
  <2>2. PICK hit \in hash_hits(q, rq, bio.bi_sector) \cup {NULL}, dead \in SUBSET hash_dead(q, rq) :
          LET m == deadline_merge(q, rq, dir, bio.bi_sector, hit, dead)
          IN \/ /\ m.ret # "NO_MERGE" /\ may_grow(m.req)
                /\ IF m.ret = "BACK_MERGE" THEN back_merge(m.q, m.req, bio)
                                           ELSE front_merge(m.q, m.req, bio)
                /\ pending' = pending \cup {bio.id}
                /\ UNCHANGED <<barrier_rq, epoch>>
             \/ /\ m.ret # "NO_MERGE" /\ ~may_grow(m.req)
                /\ get_rq([m.q EXCEPT !.last_merge = NULL],
                          [rq EXCEPT ![m.req].flags = @ \cup {"REQ_NOMERGE"}], bio, dir, FALSE)
             \/ /\ m.ret = "NO_MERGE"
                /\ get_rq(m.q, rq, bio, dir, FALSE)
    BY <1>3 DEF elv_merge
  <2> DEFINE m == deadline_merge(q, rq, dir, bio.bi_sector, hit, dead)
             r == m.req
  <2>3. /\ WellFormed(m.q, {}, {}) /\ SamePlaces(q, m.q) /\ Sorted(m.q) = Sorted(q)
        /\ m.q.hash_valid_count = q.hash_valid_count
        /\ m.ret # "NO_MERGE" => r \in Sorted(q)
    <3>1. WellFormed(q, {}, {}) /\ dead \in SUBSET Rq
      BY <1>0 DEF QInv, hash_dead
    <3> QED
      BY <3>1, MergeWellFormed
  <2>4. \/ /\ m.ret # "NO_MERGE" /\ may_grow(r)
           /\ IF m.ret = "BACK_MERGE" THEN back_merge(m.q, r, bio) ELSE front_merge(m.q, r, bio)
           /\ pending' = pending \cup {bio.id}
           /\ UNCHANGED <<barrier_rq, epoch>>
        \/ /\ m.ret # "NO_MERGE"
           /\ get_rq([m.q EXCEPT !.last_merge = NULL],
                     [rq EXCEPT ![r].flags = @ \cup {"REQ_NOMERGE"}], bio, dir, FALSE)
        \/ get_rq(m.q, rq, bio, dir, FALSE)
    BY <2>2
  <2>10. m.ret # "NO_MERGE" =>
           /\ elv_rq_merge_ok(rq, r, dir)
           /\ IF m.ret = "BACK_MERGE" THEN rq_end(rq, r) = sector ELSE rq[r].sector = sector + 1
    <3>1. sector \in Nat
      BY BlockQueueAssumption DEF Sectors
    <3> QED
      BY <1>0, <2>1, <3>1, MergeAdjoins
  <2> HIDE DEF m, r
  <2>5. QInv(m.q, rq, NULL) /\ Owned(m.q, free, driver, NULL, active)
    BY <1>0, <2>3 DEF QInv, Owned, SamePlaces, Queued
  <2>11. LineInv(q, rq, NULL, epoch) => LineInv(m.q, rq, NULL, epoch)
    BY <2>3 DEF LineInv, SortedNow, SamePlaces
  <2>6. CASE get_rq(m.q, rq, bio, dir, FALSE)
    <3>1. MarkedOnly(rq)
      BY DEF MarkedOnly, SameChain
    <3>2. Inv' /\ BioQueued(bio) /\ BioInLine(m.q, rq, bio)
      BY <1>0, <1>1, <2>5, <2>6, <3>1, GetRqStep
    <3> QED
      BY <2>11, <3>2 DEF BioInLine
  <2>7. ASSUME r \in Sorted(q) PROVE r \in Rq /\ r \in Sorted(m.q)
    BY <1>0, <2>3, <2>7 DEF QInv, WellFormed, QueueType, Sorted, Dirs
  <2>8. CASE /\ m.ret # "NO_MERGE"
             /\ get_rq([m.q EXCEPT !.last_merge = NULL],
                       [rq EXCEPT ![r].flags = @ \cup {"REQ_NOMERGE"}], bio, dir, FALSE)
    <3> DEFINE p == [m.q EXCEPT !.last_merge = NULL]
               ss == [rq EXCEPT ![r].flags = @ \cup {"REQ_NOMERGE"}]
    <3>1. /\ p \in QueueType /\ SamePlaces(m.q, p) /\ p.next_drq = m.q.next_drq
          /\ p.last_merge = NULL /\ p.hash_valid_count = m.q.hash_valid_count
          /\ p.ucsb_cnt = m.q.ucsb_cnt /\ p.ucsb_flag = m.q.ucsb_flag
      BY <2>3 DEF WellFormed, QueueType, SamePlaces
    <3> HIDE DEF p
    <3>2. WellFormed(p, {}, {}) /\ Sorted(p) = Sorted(m.q)
      BY <2>3, <3>1, HintsWellFormed
    <3>3. QInv(p, rq, NULL) /\ Owned(p, free, driver, NULL, active)
      BY <2>5, <3>1, <3>2 DEF QInv, Owned, SamePlaces, Queued
    <3>4. RqInv(ss) /\ QInv(p, ss, NULL)
      <4>1. {"REQ_NOMERGE"} \in SUBSET Flags /\ r \in Rq
        BY <2>3, <2>7, <2>8 DEF Flags
      <4>2. SameButFlags(rq, ss)
        BY <1>0, <4>1, SetFlags
      <4> HIDE DEF ss
      <4>3. RqInv(ss) /\ \A qq, h : QInv(qq, rq, h) => QInv(qq, ss, h)
        BY <1>0, <4>2, FlagsOnly
      <4> QED
        BY <3>3, <4>3
    <3>5. get_rq(p, ss, bio, dir, FALSE)
      BY <2>8 DEF p
    <3>6. MarkedOnly(ss)
      <4>1. r \in Sorted(q) /\ r \in Rq
        BY <2>3, <2>7, <2>8
      <4> QED
        BY <1>0, <4>1 DEF MarkedOnly, SameChain, RqInv, RqRec
    <3>7. LineInv(q, rq, NULL, epoch) => LineInv(p, ss, NULL, epoch)
      <4>1. r \in Sorted(q) /\ r \in Rq /\ rq \in [Rq -> RqRec]
        BY <1>0, <2>3, <2>7, <2>8 DEF RqInv
      <4>2. /\ \A s \in Rq : ss[s].bios = rq[s].bios
            /\ \A s \in Rq : ss[s].flags \subseteq rq[s].flags \cup {"REQ_NOMERGE"}
            /\ \A s \in Rq : rq[s].flags \subseteq ss[s].flags
        BY <4>1 DEF RqRec
      <4> HIDE DEF ss
      <4>3. /\ \A s \in Rq : Pure(rq[s]) => Pure(ss[s])
            /\ \A s \in Rq : BestEffort(ss[s]) <=> BestEffort(rq[s])
            /\ \A s \in Rq : Hard(ss[s]) <=> Hard(rq[s])
            /\ \A s \in Rq : EpochOf(ss[s]) = EpochOf(rq[s])
        BY <4>2 DEF Pure, BestEffort, Hard, EpochOf
      <4>4. /\ Sorted(p) = Sorted(q) /\ p.queue_head = q.queue_head
            /\ q.queue_head \in List(Rq) /\ Sorted(q) \subseteq Rq
        BY <1>0, <2>3, <3>1, <3>2, ListTypes DEF SamePlaces, QInv, WellFormed, QueueType, Sorted, Dirs
      <4>5. ASSUME LineInv(q, rq, NULL, epoch) PROVE LineInv(p, ss, NULL, epoch)
        <5>1. /\ \A s \in Rq : Pure(rq[s])
              /\ SortedNow(q, rq, epoch) /\ LineOrder(q.queue_head, rq, epoch)
          BY <4>5 DEF LineInv, current, new_barrier
        <5>2. \A s \in ToSet(q.queue_head) : NoWorse(rq[s], ss[s])
          BY <4>3, <4>4, ListElements DEF NoWorse
        <5>3. LineOrder(p.queue_head, ss, epoch)
          BY <4>4, <5>1, <5>2, LineKept
        <5>4. SortedNow(p, ss, epoch)
          BY <4>3, <4>4, <5>1 DEF SortedNow
        <5> QED
          BY <4>3, <5>1, <5>3, <5>4 DEF LineInv, current, new_barrier
      <4> QED
        BY <4>5
    <3> HIDE DEF ss
    <3>8. Inv' /\ BioQueued(bio) /\ BioInLine(p, ss, bio)
      BY <1>0, <1>1, <3>3, <3>4, <3>5, <3>6, GetRqStep
    <3> QED
      BY <3>7, <3>8 DEF BioInLine
  <2>9. CASE /\ m.ret # "NO_MERGE" /\ may_grow(r)
             /\ IF m.ret = "BACK_MERGE" THEN back_merge(m.q, r, bio)
                                        ELSE front_merge(m.q, r, bio)
             /\ pending' = pending \cup {bio.id}
             /\ UNCHANGED <<barrier_rq, epoch>>
    <3>1. /\ r \in Rq /\ r \in Sorted(m.q) /\ rq[r] \in RqRec
          /\ rq[r].bios \in Seq(BioRec) /\ <<bio>> \in Seq(BioRec) /\ rq[r].nr_sectors \in Nat
          /\ Len(rq[r].bios) = rq[r].nr_sectors
          /\ rq[r].nr_sectors + 1 <= max_sectors
          /\ rq[r].bios # <<>> => Head(rq[r].bios).bi_qos = NULL
          /\ rq[r].sector \in Nat
      <4>1. r \in Sorted(q) /\ r \in Rq /\ r \in Sorted(m.q)
        BY <2>3, <2>7, <2>9
      <4> QED
        BY <1>0, <1>1, <2>9, <4>1 DEF may_grow, RqInv, RqRec, QInv, rq_qos
    <3>4. rq_mergeable(rq, r) /\ "REQ_SPECIAL" \notin rq[r].flags
      BY <2>9, <2>10 DEF elv_rq_merge_ok
    <3>2. CASE m.ret = "BACK_MERGE" /\ back_merge(m.q, r, bio)
      <4> DEFINE n == rq[r].nr_sectors + 1
                 c == Append(rq[r].bios, bio)
                 x == [rq[r] EXCEPT !.nr_sectors = n, !.bios = c]
                 rr == [rq EXCEPT ![r].nr_sectors = @ + 1, ![r].bios = Append(@, bio)]
      <4>1. n \in Nat /\ n <= max_sectors /\ c \in Seq(BioRec) /\ Len(c) = n
        BY <1>1, <3>1, AppendProperties
      <4>2. c # <<>> => Head(c).bi_qos = NULL
        <5>1. c = rq[r].bios \o <<bio>>
          BY <1>1, <3>1, AppendIsConcat
        <5>2. Head(<<bio>>).bi_qos = NULL
          BY <2>1
        <5> QED
          BY <3>1, <5>1, <5>2, QosOfAppend
      <4>3. rr = [rq EXCEPT ![r] = x]
        BY <1>0, <3>1 DEF RqInv, RqRec
      <4>4. merged(m.q, rr, r, r, rb_next(m.q, r))
        BY <3>2 DEF back_merge
      <4>9. c = rq[r].bios \o <<bio>>
        BY <1>1, <3>1, AppendIsConcat
      <4> HIDE DEF c
      <4>5. /\ x \in RqRec /\ x.sector = rq[r].sector /\ x.nr_sectors = n /\ x.bios = c
            /\ x.flags = rq[r].flags
        BY <3>1, <4>1 DEF RqRec
      <4>10. Took(rq[r], bio, x)
        BY <2>1, <2>10, <3>2, <4>5, <4>9 DEF Took, Joined, single, rq_end
      <4> HIDE DEF x, rr
      <4>6. rr[r] = x /\ rr \in [Rq -> RqRec] /\ \A s \in Rq \ {r} : rr[s] = rq[s]
        BY <1>0, <3>1, <4>3, <4>5 DEF RqInv
      <4>7. RqInv(rr)
        BY <1>0, <4>1, <4>5, <4>6 DEF RqInv
      <4>8. rq_qos(rr, r) = NULL /\ rr[r].sector = rq[r].sector
        BY <4>2, <4>5, <4>6 DEF rq_qos
      <4>11. Took(rq[r], bio, rr[r]) /\ rr[r].flags = rq[r].flags
        BY <4>5, <4>6, <4>10
      <4>12. Inv' /\ BioQueued(bio) /\ BioInLine(m.q, rq, bio)
        BY <1>0, <1>1, <2>1, <2>3, <2>5, <2>9, <3>1, <3>4, <4>4, <4>6, <4>7, <4>8, <4>11, MergedStep
      <4> QED
        BY <2>11, <4>12 DEF BioInLine
    <3>3. CASE m.ret # "BACK_MERGE" /\ front_merge(m.q, r, bio)
      <4> DEFINE n == rq[r].nr_sectors + 1
                 c == <<bio>> \o rq[r].bios
                 k == bio.bi_sector
                 x == [rq[r] EXCEPT !.sector = k, !.nr_sectors = n, !.bios = c]
                 rr == [rq EXCEPT ![r].sector = bio.bi_sector, ![r].nr_sectors = @ + 1,
                                  ![r].bios = <<bio>> \o @]
      <4>1. n \in Nat /\ n <= max_sectors /\ c \in Seq(BioRec) /\ Len(c) = n
        <5>1. Len(<<bio>>) = 1
          OBVIOUS
        <5>2. \A s, t \in Seq(BioRec) : s \o t \in Seq(BioRec) /\ Len(s \o t) = Len(s) + Len(t)
          BY ConcatProperties
        <5> QED
          BY <3>1, <5>1, <5>2
      <4>2. c # <<>> => Head(c).bi_qos = NULL
        <5>1. Head(<<bio>>).bi_qos = NULL
          BY <2>1
        <5> QED
          BY <3>1, <5>1, QosOfAppend
      <4>3. rr = [rq EXCEPT ![r] = x]
        BY <1>0, <3>1 DEF RqInv, RqRec
      <4>4. merged(m.q, rr, r, rb_prev(m.q, r), r)
        BY <3>3 DEF front_merge
      <4>5. k \in Nat
        BY <2>1, BlockQueueAssumption DEF Sectors
      <4> HIDE DEF c, k
      <4>6. /\ x \in RqRec /\ x.sector = k /\ x.nr_sectors = n /\ x.bios = c
            /\ x.flags = rq[r].flags
        BY <3>1, <4>1, <4>5 DEF RqRec
      <4>10. Took(rq[r], bio, x)
        <5>1. k + 1 = rq[r].sector /\ n = 1 + rq[r].nr_sectors
          BY <2>1, <2>9, <2>10, <3>1, <3>3 DEF k
        <5>2. Joined(single(bio), rq[r], x)
          BY <4>6, <5>1 DEF Joined, single, c, k
        <5> QED
          BY <5>2 DEF Took
      <4> HIDE DEF x, rr
      <4>7. rr[r] = x /\ rr \in [Rq -> RqRec] /\ \A s \in Rq \ {r} : rr[s] = rq[s]
        BY <1>0, <3>1, <4>3, <4>6 DEF RqInv
      <4>8. RqInv(rr)
        BY <1>0, <4>1, <4>6, <4>7 DEF RqInv
      <4>9. rq_qos(rr, r) = NULL
        BY <4>2, <4>6, <4>7 DEF rq_qos
      <4>11. Took(rq[r], bio, rr[r]) /\ rr[r].flags = rq[r].flags
        BY <4>6, <4>7, <4>10
      <4>12. Inv' /\ BioQueued(bio) /\ BioInLine(m.q, rq, bio)
        BY <1>0, <1>1, <2>1, <2>3, <2>5, <2>9, <3>1, <3>4, <4>4, <4>7, <4>8, <4>9, <4>11, MergedStep
      <4> QED
        BY <2>11, <4>12 DEF BioInLine
    <3> QED
      BY <2>9, <3>2, <3>3
  <2> QED
    BY <2>4, <2>6, <2>8, <2>9
<1> QED
  BY <1>2, <1>3 DEF make_request

(***************************************************************************)
(* The other steps                                                         *)
(***************************************************************************)
\* With the fifos empty nothing is sorted.
LEMMA DrainedEmpty ==
  ASSUME NEW qq, WellFormed(qq, {}, {}), ~deadline_has_request(qq)
  PROVE  Sorted(qq) = {} /\ \A s \in Rq : qq.hash[s] = 0
<1>1. \A d \in Dirs : ToSet(qq.fifo_list[d]) = qq.sort_list[d] /\ qq.fifo_list[d] = <<>>
  BY DEF WellFormed, deadline_has_request
<1>2. \A d \in Dirs : qq.sort_list[d] = {}
  BY <1>1 DEF ToSet
<1>3. Sorted(qq) = {}
  BY <1>2 DEF Sorted, Dirs
<1> QED
  BY <1>3 DEF WellFormed

LEMMA DrainStep ==
  ASSUME Inv, insert_barrier_drain
  PROVE  Inv'
<1>0. /\ RqInv(rq) /\ QInv(q, rq, barrier_rq) /\ Owned(q, free, driver, barrier_rq, active) /\ RestType
      /\ WellFormed(q, {}, {}) /\ q.starved <= writes_starved /\ NULL \notin Rq
      /\ barrier_rq # NULL /\ UNCHANGED <<rq, free, active, driver, f_qos, pending, epoch>>
  BY InvRegrouped, IoschedAssumption DEF insert_barrier_drain, lock, QInv
<1>1. RestType'
  BY <1>0 DEF RestType
<1>2. CASE deadline_has_request(q)
  <2>1. q' = deadline_dispatch_requests(q, rq) /\ barrier_rq' = barrier_rq
    BY <1>2 DEF insert_barrier_drain
  <2>2. \A s \in Rq : rq_end(rq, s) \in Nat
    BY <1>0, EndsTyped
  <2>3. WellFormed(q', {}, {}) /\ MovesOn(q, q') /\ q'.starved <= writes_starved
    BY <1>0, <1>2, <2>1, <2>2, DispatchRequestsWellFormed
  <2>4. QInv(q', rq, barrier_rq)
    BY <1>0, <2>3, QInvShrinks DEF MovesOn
  <2>5. Owned(q', free, driver, barrier_rq, active)
    BY <1>0, <2>3 DEF Owned, MovesOn, Queued
  <2> QED
    BY <1>0, <1>1, <2>1, <2>4, <2>5, InvRegroupedPrime
<1>3. CASE ~deadline_has_request(q)
  <2>1. q' = insert_special(q, barrier_rq, FALSE) /\ barrier_rq' = NULL
    BY <1>3 DEF insert_barrier_drain, insert_special
  <2>2. barrier_rq \in Rq /\ barrier_rq \notin Queued(q)
    BY <1>0 DEF Owned
  <2>3. WellFormed(q', {}, {}) /\ Listed(q, barrier_rq, q')
    BY <1>0, <2>1, <2>2, InsertSpecialWellFormed
  <2>4. Sorted(q) = {} /\ \A s \in Rq : q.hash[s] = 0
    BY <1>0, <1>3, DrainedEmpty
  <2>5. QInv(q', rq, NULL)
    BY <1>0, <2>3, <2>4 DEF QInv, Listed
  <2>6. Owned(q', free, driver, NULL, active)
    BY <1>0, <2>2, <2>3 DEF Owned, Listed, Queued
  <2> QED
    BY <1>0, <1>1, <2>1, <2>5, <2>6, InvRegroupedPrime
<1> QED
  BY <1>2, <1>3

\* What elv_next_request finds on top of the dispatch list.
LEMMA NextRequestFacts ==
  ASSUME Inv, lock, NEW next, next = deadline_next_request(q, rq, prio(rq)),
         NEW r, r = Head(next.queue_head), next.queue_head # <<>>
  PROVE  /\ QInv(next, rq, NULL) /\ Owned(next, free, driver, NULL, active)
         /\ r \in ToSet(next.queue_head) /\ r \in Rq /\ r \in Queued(next)
         /\ r \notin Sorted(next) /\ r \notin ToSet(next.ucsb_queue)
<1>0. /\ RqInv(rq) /\ QInv(q, rq, NULL) /\ Owned(q, free, driver, NULL, active)
      /\ WellFormed(q, {}, {}) /\ q.starved <= writes_starved
  BY InvRegrouped DEF lock, QInv
<1>1. \A s \in Rq : rq_end(rq, s) \in Nat
  BY <1>0, EndsTyped
<1>2. WellFormed(next, {}, {}) /\ Advances(q, next) /\ next.starved <= writes_starved
  BY <1>0, <1>1, NextRequestWellFormed
<1>3. QInv(next, rq, NULL)
  BY <1>0, <1>2, QInvShrinks DEF Advances
<1>4. Owned(next, free, driver, NULL, active)
  BY <1>0, <1>2 DEF Owned, Advances
<1>5. r \in ToSet(next.queue_head)
  BY <1>2, HeadListed
<1> QED
  BY <1>2, <1>3, <1>4, <1>5, HeadElsewhere

LEMMA NextRequestStep ==
  ASSUME Inv, elv_next_request
  PROVE  Inv'
<1> DEFINE next == deadline_next_request(q, rq, prio(rq))
           r == Head(next.queue_head)
<1>0. /\ lock /\ next.queue_head # <<>> /\ q' = ForgetMerge(next, r)
      /\ rq' = [rq EXCEPT ![r].flags = @ \cup {"REQ_STARTED"}]
      /\ active' = active \cup {r}
      /\ UNCHANGED <<free, driver, barrier_rq, f_qos, pending, epoch>>
  BY DEF elv_next_request
<1>1. /\ QInv(next, rq, NULL) /\ Owned(next, free, driver, NULL, active)
      /\ r \in ToSet(next.queue_head) /\ r \in Rq
  <2>1. next = deadline_next_request(q, rq, prio(rq)) /\ r = Head(next.queue_head)
    OBVIOUS
  <2> HIDE DEF next, r
  <2> QED
    BY <1>0, <2>1, NextRequestFacts
<1> HIDE DEF next, r
<1>2. /\ WellFormed(q', {}, {}) /\ SamePlaces(next, q')
      /\ Sorted(q') = Sorted(next) /\ q'.hash_valid_count = next.hash_valid_count
  BY <1>0, <1>1, ForgetMergeWellFormed DEF QInv
<1>3. RqInv(rq') /\ QInv(next, rq', NULL)
  <2>1. RqInv(rq) /\ {"REQ_STARTED"} \in SUBSET Flags
    BY InvRegrouped DEF Flags
  <2>2. SameButFlags(rq, [rq EXCEPT ![r].flags = @ \cup {"REQ_STARTED"}])
    BY <1>1, <2>1, SetFlags
  <2>3. SameButFlags(rq, rq')
    BY <1>0, <2>2
  <2>4. RqInv(rq') /\ \A qq, b : QInv(qq, rq, b) => QInv(qq, rq', b)
    BY <2>1, <2>3, FlagsOnly
  <2> QED
    BY <1>1, <2>4
<1>4. QInv(q', rq', NULL)
  BY <1>2, <1>3 DEF QInv, SamePlaces
<1>5. Owned(q', free, driver, NULL, active')
  BY <1>0, <1>1, <1>2 DEF Owned, SamePlaces, Queued
<1>6. RestType'
  BY <1>0, InvRegrouped DEF RestType
<1> QED
  BY <1>0, <1>3, <1>4, <1>5, <1>6, InvRegroupedPrime DEF lock

\* elv_remove_request of a request on the dispatch list.
LEMMA RemoveFacts ==
  ASSUME NEW qq, NEW rr, QInv(qq, rr, NULL), NEW r \in ToSet(qq.queue_head),
         NEW p, p = elv_remove_request(qq, r)
  PROVE  /\ QInv(p, rr, NULL) /\ Queued(p) = Queued(qq) \ {r}
         /\ ToSet(p.queue_head) = ToSet(qq.queue_head) \ {r}
         /\ p.queue_head = RemoveFirst(qq.queue_head, r) /\ Sorted(p) = Sorted(qq)
<1> DEFINE f == ForgetMerge(qq, r)
<1>0. /\ WellFormed(qq, {}, {}) /\ r \in Rq /\ r \in Queued(qq)
      /\ r \notin Sorted(qq) /\ r \notin ToSet(qq.ucsb_queue)
  BY HeadElsewhere DEF QInv
<1>1. /\ WellFormed(f, {}, {}) /\ SamePlaces(qq, f)
      /\ Sorted(f) = Sorted(qq) /\ f.hash_valid_count = qq.hash_valid_count
  BY <1>0, ForgetMergeWellFormed
<1>2. p = deadline_remove_request(f, r)
  BY DEF elv_remove_request
<1> HIDE DEF f
<1>3. QInv(f, rr, NULL)
  BY <1>1 DEF QInv, SamePlaces
<1>4. WellFormed(p, {}, {}) /\ Gone(f, r, p)
  <2>1. {} \in SUBSET Rq /\ r \notin {} \cup {} /\ r \notin ToSet(f.ucsb_queue)
    BY <1>0, <1>1 DEF SamePlaces
  <2> QED
    BY <1>0, <1>1, <1>2, <2>1, RemoveWellFormed
<1>5. QInv(p, rr, NULL)
  BY <1>3, <1>4 DEF QInv, Gone
<1> QED
  BY <1>0, <1>1, <1>4, <1>5 DEF Gone, SamePlaces, Queued

LEMMA KillStep ==
  ASSUME Inv, elv_next_request_kill
  PROVE  Inv'
<1> DEFINE next == deadline_next_request(q, rq, prio(rq))
           r == Head(next.queue_head)
<1>0. /\ lock /\ next.queue_head # <<>> /\ q' = elv_remove_request(next, r)
      /\ rq' = [rq EXCEPT ![r] = idle]
      /\ active' = active \ {r} /\ free' = free \cup {r}
      /\ pending' = pending \ ids(rq[r].bios)
      /\ UNCHANGED <<driver, barrier_rq, f_qos, epoch>>
  BY DEF elv_next_request_kill
<1>1. /\ QInv(next, rq, NULL) /\ Owned(next, free, driver, NULL, active)
      /\ r \in ToSet(next.queue_head) /\ r \in Rq /\ r \in Queued(next)
      /\ r \notin Sorted(next) /\ r \notin ToSet(next.ucsb_queue)
  <2>1. next = deadline_next_request(q, rq, prio(rq)) /\ r = Head(next.queue_head)
    OBVIOUS
  <2> HIDE DEF next, r
  <2> QED
    BY <1>0, <2>1, NextRequestFacts
<1> HIDE DEF next, r
<1>2. RqInv(rq')
  <2>1. idle \in RqRec /\ Len(idle.bios) = idle.nr_sectors /\ idle.nr_sectors <= max_sectors
    BY EmptySeq, BlockQueueAssumption DEF idle, RqRec
  <2>2. RqInv(rq)
    BY InvRegrouped
  <2> QED
    BY <1>0, <1>1, <2>1, <2>2 DEF RqInv
<1>3. QInv(next, rq', NULL)
  <2>1. \A s \in Rq \ {r} : rq'[s] = rq[s]
    BY <1>0, InvRegrouped DEF RqInv
  <2> QED
    BY <1>1, <2>1, QInvOther
<1>4. /\ QInv(q', rq', NULL) /\ Queued(q') = Queued(next) \ {r}
      /\ ToSet(q'.queue_head) = ToSet(next.queue_head) \ {r}
  BY <1>0, <1>1, <1>3, RemoveFacts
<1>5. Owned(q', free', driver, NULL, active')
  BY <1>0, <1>1, <1>4 DEF Owned
<1>6. RestType'
  BY <1>0, InvRegrouped DEF RestType
<1> QED
  BY <1>0, <1>2, <1>4, <1>5, <1>6, InvRegroupedPrime DEF lock

LEMMA DequeueStep ==
  ASSUME Inv, NEW r \in Rq, blkdev_dequeue_request(r)
  PROVE  Inv'
<1>0. /\ RqInv(rq) /\ QInv(q, rq, NULL) /\ Owned(q, free, driver, NULL, active) /\ RestType
      /\ barrier_rq = NULL /\ r \in ToSet(q.queue_head) /\ WellFormed(q, {}, {})
  BY InvRegrouped DEF blkdev_dequeue_request, lock, Owned, QInv
<1>1. r \in Queued(q)
  BY <1>0, HeadElsewhere
<1>2. /\ QInv(q', rq, NULL) /\ Queued(q') = Queued(q) \ {r}
      /\ ToSet(q'.queue_head) = ToSet(q.queue_head) \ {r}
  BY <1>0, RemoveFacts DEF blkdev_dequeue_request
<1>3. Owned(q', free', driver', NULL, active')
  BY <1>0, <1>1, <1>2 DEF Owned, blkdev_dequeue_request
<1> QED
  BY <1>0, <1>2, <1>3, InvRegroupedPrime DEF blkdev_dequeue_request, RestType

LEMMA EndFirstStep ==
  ASSUME Inv, NEW r \in Rq, NEW n \in 1 .. max_sectors, end_that_request_first(r, n)
  PROVE  Inv'
<1>0. /\ RqInv(rq) /\ QInv(q, rq, barrier_rq) /\ Owned(q, free, driver, barrier_rq, active) /\ RestType
      /\ max_sectors \in Nat
  BY InvRegrouped, BlockQueueAssumption
<1>1. r \notin Sorted(q) /\ r \notin ToSet(q.ucsb_queue)
  <2>1. CASE r \in active
    <3>1. r \in ToSet(q.queue_head) /\ WellFormed(q, {}, {})
      BY <1>0, <2>1 DEF Owned, QInv
    <3> QED
      BY <3>1, HeadElsewhere
  <2>2. CASE r \in driver
    BY <1>0, <2>2 DEF Owned, Queued
  <2> QED
    BY <2>1, <2>2 DEF end_that_request_first
<1> DEFINE k == rq[r].sector + n
           m == rq[r].nr_sectors - n
           c == SubSeq(rq[r].bios, n + 1, Len(rq[r].bios))
           x == [rq[r] EXCEPT !.sector = k, !.nr_sectors = m, !.bios = c]
<1>2. /\ rq[r] \in RqRec /\ rq[r].sector \in Nat /\ rq[r].nr_sectors \in Nat
      /\ rq[r].bios \in Seq(BioRec) /\ Len(rq[r].bios) = rq[r].nr_sectors
      /\ rq[r].nr_sectors <= max_sectors /\ n < rq[r].nr_sectors
  BY <1>0 DEF RqInv, RqRec, end_that_request_first
<1>3. k \in Nat /\ m \in Nat /\ m <= max_sectors /\ c \in Seq(BioRec) /\ Len(c) = m
  <2>0. n \in Nat /\ n + 1 \in Int /\ n + 1 <= rq[r].nr_sectors
    BY <1>0, <1>2
  <2>1. k \in Nat /\ m \in Nat /\ m <= max_sectors
    BY <1>0, <1>2, <2>0
  <2>2. \A j \in n + 1 .. rq[r].nr_sectors : rq[r].bios[j] \in BioRec
    BY <1>2, ElementOfSeq
  <2>3. /\ SubSeq(rq[r].bios, n + 1, rq[r].nr_sectors) \in Seq(BioRec)
        /\ Len(SubSeq(rq[r].bios, n + 1, rq[r].nr_sectors)) =
             IF n + 1 <= rq[r].nr_sectors THEN rq[r].nr_sectors - (n + 1) + 1 ELSE 0
    BY <1>2, <2>0, <2>2, SubSeqProperties
  <2> QED
    BY <1>2, <2>0, <2>1, <2>3
<1>4. rq' = [rq EXCEPT ![r] = x]
  <2> DEFINE y == blk_recalc_rq_sectors(rq[r], n)
  <2>1. rq' = [rq EXCEPT ![r] = [y EXCEPT !.bios = c]]
    BY DEF end_that_request_first
  <2>2. y = [rq[r] EXCEPT !.sector = k, !.nr_sectors = m]
    BY DEF blk_recalc_rq_sectors
  <2> HIDE DEF k, m, y, c
  <2>3. [y EXCEPT !.bios = c] = x
    BY <1>2, <2>2 DEF RqRec
  <2> QED
    BY <2>1, <2>3
<1> HIDE DEF k, m, c
<1>5. x \in RqRec /\ x.nr_sectors = m /\ x.bios = c
  BY <1>2, <1>3 DEF RqRec
<1> HIDE DEF x
<1>6. RqInv(rq')
  BY <1>0, <1>3, <1>4, <1>5 DEF RqInv
<1>7. QInv(q, rq', barrier_rq)
  <2>1. \A s \in Rq \ {r} : rq'[s] = rq[s]
    BY <1>0, <1>4 DEF RqInv
  <2> QED
    BY <1>0, <1>1, <2>1, QInvOther
<1>8. RestType'
  BY <1>0 DEF RestType, end_that_request_first
<1> QED
  BY <1>0, <1>6, <1>7, <1>8, InvRegroupedPrime DEF end_that_request_first

LEMMA EndLastStep ==
  ASSUME Inv, NEW r \in Rq, end_that_request_last(r)
  PROVE  Inv'
<1>0. /\ RqInv(rq) /\ QInv(q, rq, barrier_rq) /\ Owned(q, free, driver, barrier_rq, active) /\ RestType
      /\ r \in driver
  BY InvRegrouped DEF end_that_request_last
<1>1. r \notin Sorted(q) /\ r \notin ToSet(q.ucsb_queue)
  BY <1>0 DEF Owned, Queued
<1>2. RqInv(rq')
  <2>1. idle \in RqRec /\ Len(idle.bios) = idle.nr_sectors /\ idle.nr_sectors <= max_sectors
    BY EmptySeq, BlockQueueAssumption DEF idle, RqRec
  <2> QED
    BY <1>0, <2>1 DEF RqInv, end_that_request_last
<1>3. QInv(q, rq', barrier_rq)
  <2>1. \A s \in Rq \ {r} : rq'[s] = rq[s]
    BY <1>0 DEF RqInv, end_that_request_last
  <2> QED
    BY <1>0, <1>1, <2>1, QInvOther
<1>4. Owned(q, free', driver', barrier_rq, active)
  BY <1>0 DEF Owned, end_that_request_last
<1> QED
  BY <1>0, <1>2, <1>3, <1>4, InvRegroupedPrime DEF end_that_request_last, RestType

\* A request that was off the queue is put on it with other flags, giving rq'.
LEMMA PutBackStep ==
  ASSUME Inv, lock, NEW r \in free \cup driver, NEW at_head \in BOOLEAN,
         RqInv(rq'), \A s \in Rq \ {r} : rq'[s] = rq[s],
         deadline_insert_request(q, rq', r, at_head),
         free' = free \ {r}, driver' = driver \ {r},
         UNCHANGED <<active, f_qos, pending, epoch>>
  PROVE  Inv'
<1>0. /\ QInv(q, rq, NULL) /\ Owned(q, free, driver, NULL, active) /\ RestType /\ NULL \notin Rq
  BY InvRegrouped, IoschedAssumption DEF lock
<1>1. r \in Rq /\ r \notin Queued(q) /\ r \notin Sorted(q) /\ r \notin ToSet(q.ucsb_queue)
  BY <1>0 DEF Owned, Queued
<1>2. QInv(q, rq', NULL)
  BY <1>0, <1>1, QInvOther
<1>3. /\ QInv(q', rq', barrier_rq')
      /\ ToSet(q.queue_head) \subseteq ToSet(q'.queue_head)
      /\ barrier_rq' \in {r, NULL}
      /\ barrier_rq' = r => Queued(q') = Queued(q)
      /\ barrier_rq' = NULL => Queued(q') = Queued(q) \cup {r}
  BY <1>1, <1>2, InsertRequest
<1>4. Owned(q', free \ {r}, driver \ {r}, barrier_rq', active)
  BY <1>0, <1>3, InsertOwned
<1>5. RestType'
  BY <1>0 DEF RestType
<1> QED
  BY <1>3, <1>4, <1>5, InvRegroupedPrime

LEMMA InsertStep ==
  ASSUME Inv, NEW r \in Rq, NEW at_head \in BOOLEAN,
         blk_insert_request(r, at_head) \/ blk_insert_special(r, at_head)
  PROVE  Inv'
<1>0. RqInv(rq) /\ Owned(q, free, driver, barrier_rq, active)
  BY InvRegrouped
<1>1. CASE blk_insert_request(r, at_head)
  <2>1. SameButFlags(rq, [rq EXCEPT ![r].flags = @ \cup {"REQ_SPECIAL", "REQ_SOFTBARRIER"}])
    <3>1. {"REQ_SPECIAL", "REQ_SOFTBARRIER"} \in SUBSET Flags
      BY DEF Flags
    <3> QED
      BY <1>0, <3>1, SetFlags
  <2>2. SameButFlags(rq, rq')
    BY <1>1, <2>1 DEF blk_insert_request
  <2>3. RqInv(rq')
    BY <1>0, <2>2, FlagsOnly
  <2>4. \A s \in Rq \ {r} : rq'[s] = rq[s]
    BY <1>0, <1>1 DEF blk_insert_request, RqInv
  <2>5. free' = free \ {r} /\ driver' = driver \ {r} /\ r \in free \cup driver
    BY <1>0, <1>1 DEF blk_insert_request, Owned
  <2> QED
    BY <1>1, <2>3, <2>4, <2>5, PutBackStep DEF blk_insert_request
<1>2. CASE blk_insert_special(r, at_head)
  <2> DEFINE x == [idle EXCEPT !.flags = {"REQ_SPECIAL", "REQ_SOFTBARRIER"}]
  <2>1. rq' = [rq EXCEPT ![r] = x]
    BY <1>2 DEF blk_insert_special
  <2>2. x \in RqRec /\ Len(x.bios) = x.nr_sectors /\ x.nr_sectors <= max_sectors
    <3>1. idle \in RqRec /\ idle.nr_sectors = 0 /\ Len(idle.bios) = 0
      BY EmptySeq DEF idle, RqRec
    <3>2. {"REQ_SPECIAL", "REQ_SOFTBARRIER"} \in SUBSET Flags
      BY DEF Flags
    <3>3. x \in RqRec /\ x.nr_sectors = idle.nr_sectors /\ x.bios = idle.bios
      BY <3>1, <3>2 DEF RqRec
    <3>4. 0 <= max_sectors
      BY BlockQueueAssumption
    <3> QED
      BY <3>1, <3>3, <3>4
  <2> HIDE DEF x
  <2>3. RqInv(rq')
    BY <1>0, <2>1, <2>2 DEF RqInv
  <2>4. \A s \in Rq \ {r} : rq'[s] = rq[s]
    BY <1>0, <2>1 DEF RqInv
  <2>5. free' = free \ {r} /\ driver' = driver \ {r} /\ r \in free \cup driver
    BY <1>0, <1>2 DEF blk_insert_special, Owned
  <2> QED
    BY <1>2, <2>3, <2>4, <2>5, PutBackStep DEF blk_insert_special
<1> QED
  BY <1>1, <1>2

LEMMA SetQosStep ==
  ASSUME Inv, SetQos
  PROVE  Inv'
<1>0. RqInv(rq) /\ QInv(q, rq, barrier_rq) /\ Owned(q, free, driver, barrier_rq, active) /\ RestType
  BY InvRegrouped
<1>1. UNCHANGED <<q, rq, free, active, driver, barrier_rq, pending, epoch>>
  BY DEF SetQos, UCSB_IO_SOFT_RT, UCSB_IO_PRIORITY
<1>2. f_qos' \in [Files -> Int \cup {NULL}]
  <2>1. UCSB_DEF_PRIORITY + 2 \in Int /\ Priorities \subseteq Int
    BY BlockQueueAssumption DEF UCSB_DEF_PRIORITY
  <2> QED
    BY <1>0, <2>1 DEF SetQos, UCSB_IO_SOFT_RT, UCSB_IO_PRIORITY, RestType
<1> QED
  BY <1>0, <1>1, <1>2, InvRegroupedPrime DEF RestType

LEMMA JiffyStep ==
  ASSUME Inv, jiffy
  PROVE  Inv'
<1>0. /\ RqInv(rq) /\ QInv(q, rq, barrier_rq) /\ Owned(q, free, driver, barrier_rq, active) /\ RestType
      /\ WellFormed(q, {}, {}) /\ q \in QueueType
      /\ UNCHANGED <<rq, free, active, driver, barrier_rq, f_qos, pending, epoch>>
  BY InvRegrouped DEF jiffy, QInv, WellFormed
<1>1. [r \in Rq |-> IF r \in Sorted(q) THEN q.expires[r] - 1 ELSE q.expires[r]] \in [Rq -> Int]
  BY <1>0 DEF QueueType
<1>2. /\ q' \in QueueType /\ SamePlaces(q, q') /\ q'.next_drq = q.next_drq
      /\ q'.last_merge = q.last_merge /\ q'.hash = q.hash /\ q'.hash_valid_count = q.hash_valid_count
      /\ q'.ucsb_cnt = q.ucsb_cnt /\ q'.ucsb_flag = q.ucsb_flag
  BY <1>0, <1>1 DEF jiffy, QueueType, SamePlaces
<1>3. q'.last_merge \in Sorted(q) \cup {NULL}
  BY <1>0, <1>2 DEF WellFormed
<1>4. WellFormed(q', {}, {}) /\ Sorted(q') = Sorted(q)
  BY <1>0, <1>2, <1>3, HintsWellFormed
<1>5. QInv(q', rq, barrier_rq)
  BY <1>0, <1>2, <1>4 DEF QInv, SamePlaces
<1>6. Owned(q', free, driver, barrier_rq, active)
  BY <1>0, <1>2, <1>4 DEF Owned, SamePlaces, Queued
<1> QED
  BY <1>0, <1>5, <1>6, InvRegroupedPrime DEF RestType

\* Every step of every operation preserves the invariant.
LEMMA InvStep == Inv /\ [Next]_vars => Inv'
<1> SUFFICES ASSUME Inv, [Next]_vars PROVE Inv'
  OBVIOUS
<1>1. CASE Submit
  <2>1. PICK b \in Bio, dir \in Dirs, sector \in Sectors, barrier \in Barriers, qos \in bi_qos :
          make_request(b, dir, sector, barrier, qos)
    BY <1>1 DEF Submit
  <2>2. barrier \in BOOLEAN
    BY BlockQueueAssumption
  <2> QED
    BY <2>1, <2>2, MakeRequestStep
<1>2. CASE insert_barrier_drain
  BY <1>2, DrainStep
<1>3. CASE Drive
  <2>1. CASE elv_next_request
    BY <2>1, NextRequestStep
  <2>2. CASE elv_next_request_kill
    BY <2>2, KillStep
  <2>3. ASSUME NEW r \in Rq, blkdev_dequeue_request(r) PROVE Inv'
    BY <2>3, DequeueStep
  <2>4. ASSUME NEW r \in Rq, NEW n \in 1 .. max_sectors, end_that_request_first(r, n) PROVE Inv'
    BY <2>4, EndFirstStep
  <2>5. ASSUME NEW r \in Rq, end_that_request_last(r) PROVE Inv'
    BY <2>5, EndLastStep
  <2> QED
    BY <1>3, <2>1, <2>2, <2>3, <2>4, <2>5 DEF Drive
<1>4. CASE Insert
  BY <1>4, InsertStep DEF Insert
<1>5. CASE SetQos
  BY <1>5, SetQosStep
<1>6. CASE jiffy
  BY <1>6, JiffyStep
<1>7. CASE UNCHANGED vars
  BY <1>7 DEF vars, Inv, TypeOK, OneOwner, ListsAgree, NoDangling, QosQueueSound, StarvedBound,
              SizeBound, ChainLength, inserting, lock
<1> QED
  BY <1>1, <1>2, <1>3, <1>4, <1>5, <1>6, <1>7 DEF Next

(***************************************************************************)
(* The chains of bios                                                      *)
(***************************************************************************)
\* The chain of x covers its sectors, one bio each, and holds no bio twice.
Chain(x) ==
  /\ Len(x.bios) = x.nr_sectors
  /\ \A i, j \in DOMAIN x.bios : x.bios[i].id = x.bios[j].id => i = j
  /\ \A i \in DOMAIN x.bios : x.bios[i].bi_sector = x.sector + i - 1

\* The chains of the requests rr partition the bios P.
Chains(rr, P) ==
  /\ P = UNION {ids(rr[r].bios) : r \in Rq}
  /\ \A r, s \in Rq : r # s => ids(rr[r].bios) \cap ids(rr[s].bios) = {}
  /\ \A r \in Rq : Chain(rr[r])

LEMMA ChainsRegrouped == BioChains <=> Chains(rq, pending)
BY DEF BioChains, Chains, Chain

LEMMA ChainsRegroupedPrime == BioChains' <=> Chains(rq', pending')
BY DEF BioChains, Chains, Chain

LEMMA SameChainChain ==
  ASSUME NEW x, NEW y, SameChain(x, y), Chain(x)
  PROVE  Chain(y) /\ ids(y.bios) = ids(x.bios)
BY DEF SameChain, Chain

LEMMA EmptyChain ==
  ASSUME NEW x, x.bios = <<>>, x.nr_sectors = 0
  PROVE  Chain(x) /\ ids(x.bios) = {}
<1>1. Len(x.bios) = 0 /\ DOMAIN x.bios = {}
  BY EmptySeq
<1> QED
  BY <1>1 DEF Chain, ids

LEMMA SingleChain ==
  ASSUME NEW bio \in BioRec
  PROVE  /\ single(bio) \in RqRec
         /\ Chain(single(bio)) /\ ids(single(bio).bios) = {bio.id}
<1>1. /\ single(bio).bios = <<bio>> /\ single(bio).nr_sectors = 1
      /\ single(bio).sector = bio.bi_sector /\ bio.bi_sector \in Nat
      /\ single(bio) = [flags |-> {}, sector |-> bio.bi_sector, nr_sectors |-> 1, bios |-> <<bio>>]
  BY BlockQueueAssumption DEF single, BioRec, Sectors
<1>2. Len(<<bio>>) = 1 /\ DOMAIN <<bio>> = {1} /\ <<bio>>[1] = bio /\ <<bio>> \in Seq(BioRec)
  OBVIOUS
<1>3. single(bio) \in RqRec
  BY <1>1, <1>2 DEF RqRec
<1>4. Chain(single(bio))
  BY <1>1, <1>2 DEF Chain
<1>5. ids(single(bio).bios) = {bio.id}
  BY <1>1, <1>2 DEF ids
<1> QED
  BY <1>3, <1>4, <1>5

\* Two chains without a common bio, the one starting where the other ends, make one chain.
LEMMA JoinChain ==
  ASSUME NEW x \in RqRec, NEW y \in RqRec, NEW z, Chain(x), Chain(y),
         ids(x.bios) \cap ids(y.bios) = {}, Joined(x, y, z)
  PROVE  Chain(z) /\ ids(z.bios) = ids(x.bios) \cup ids(y.bios)
<1>1. PICK a, b, c, m, n :
        a = x.bios /\ b = y.bios /\ c = z.bios /\ m = Len(x.bios) /\ n = Len(y.bios)
  OBVIOUS
<1>2. /\ a \in Seq(BioRec) /\ b \in Seq(BioRec) /\ c = a \o b /\ m = Len(a) /\ n = Len(b)
      /\ x.sector \in Nat /\ y.sector \in Nat
  BY <1>1 DEF RqRec, Joined
<1>3. /\ m \in Nat /\ n \in Nat /\ DOMAIN a = 1 .. m /\ DOMAIN b = 1 .. n
      /\ Len(c) = m + n /\ DOMAIN c = 1 .. m + n
      /\ \A i \in 1 .. m : i \in 1 .. m + n /\ c[i] = a[i]
      /\ \A i \in 1 .. n : i + m \in 1 .. m + n /\ c[i + m] = b[i]
      /\ \A i \in 1 .. m + n : i \in 1 .. m \/ (i - m \in 1 .. n /\ c[i] = b[i - m])
  BY <1>2, ConcatParts
<1>4. z.nr_sectors = m + n /\ z.sector = x.sector /\ y.sector = x.sector + m
  BY <1>1 DEF Joined, Chain
<1>5. /\ \A i, j \in 1 .. m : a[i].id = a[j].id => i = j
      /\ \A i, j \in 1 .. n : b[i].id = b[j].id => i = j
      /\ \A i \in 1 .. m : a[i].bi_sector = x.sector + i - 1
      /\ \A i \in 1 .. n : b[i].bi_sector = y.sector + i - 1
  BY <1>1, <1>3 DEF Chain
<1>6. /\ ids(a) = {a[i].id : i \in 1 .. m} /\ ids(b) = {b[i].id : i \in 1 .. n}
      /\ ids(c) = {c[i].id : i \in 1 .. m + n}
  BY <1>3 DEF ids
<1>7. \A i \in 1 .. m, j \in 1 .. n : a[i].id # b[j].id
  <2>1. ids(a) \cap ids(b) = {}
    BY <1>1
  <2>2. \A i \in 1 .. m : a[i].id \in ids(a)
    BY <1>6, Zenon
  <2>3. \A j \in 1 .. n : b[j].id \in ids(b)
    BY <1>6, Zenon
  <2> QED
    BY <2>1, <2>2, <2>3, Zenon
<1>8. ids(c) = ids(a) \cup ids(b)
  <2>1. ids(c) \subseteq ids(a) \cup ids(b)
    BY <1>3, <1>6
  <2>2. ids(a) \cup ids(b) \subseteq ids(c)
    BY <1>3, <1>6
  <2> QED
    BY <2>1, <2>2
<1>9. \A i \in 1 .. m + n : c[i].bi_sector = z.sector + i - 1
  <2> SUFFICES ASSUME NEW i \in 1 .. m + n PROVE c[i].bi_sector = z.sector + i - 1
    OBVIOUS
  <2>1. CASE i \in 1 .. m
    BY <1>3, <1>4, <1>5, <2>1
  <2>2. CASE i - m \in 1 .. n /\ c[i] = b[i - m]
    <3>1. c[i].bi_sector = y.sector + (i - m) - 1
      BY <1>5, <2>2
    <3>2. i \in Int /\ m \in Int
      BY <1>3
    <3>3. PICK k \in Nat : k = x.sector
      BY <1>2
    <3>4. y.sector = k + m /\ z.sector = k
      BY <1>4, <3>3
    <3> QED
      BY <3>1, <3>2, <3>4
  <2> QED
    BY <1>3, <2>1, <2>2
<1>10. \A i, j \in 1 .. m + n : c[i].id = c[j].id => i = j
  <2> SUFFICES ASSUME NEW i \in 1 .. m + n, NEW j \in 1 .. m + n, c[i].id = c[j].id
               PROVE  i = j
    OBVIOUS
  <2>1. CASE i \in 1 .. m /\ j \in 1 .. m
    BY <1>3, <1>5, <2>1
  <2>2. CASE i \in 1 .. m /\ j - m \in 1 .. n /\ c[j] = b[j - m]
    <3>1. c[i] = a[i] /\ a[i].id # b[j - m].id
      BY <1>3, <1>7, <2>2
    <3> QED
      BY <2>2, <3>1
  <2>3. CASE j \in 1 .. m /\ i - m \in 1 .. n /\ c[i] = b[i - m]
    <3>1. c[j] = a[j] /\ a[j].id # b[i - m].id
      BY <1>3, <1>7, <2>3
    <3> QED
      BY <2>3, <3>1
  <2>4. CASE /\ i - m \in 1 .. n /\ c[i] = b[i - m]
             /\ j - m \in 1 .. n /\ c[j] = b[j - m]
    <3>1. i - m = j - m
      BY <1>5, <2>4
    <3> QED
      BY <1>3, <3>1
  <2> QED
    BY <1>3, <2>1, <2>2, <2>3, <2>4
<1>11. Chain(z)
  BY <1>1, <1>3, <1>4, <1>9, <1>10 DEF Chain
<1> QED
  BY <1>1, <1>8, <1>11

\* What is left of a chain when its first n bios have ended.
LEMMA SuffixChain ==
  ASSUME NEW x \in RqRec, Chain(x), NEW n \in Nat, n < x.nr_sectors, NEW z,
         z.sector = x.sector + n, z.nr_sectors = x.nr_sectors - n,
         z.bios = SubSeq(x.bios, n + 1, Len(x.bios))
  PROVE  /\ Chain(z)
         /\ ids(SubSeq(x.bios, 1, n)) \subseteq ids(x.bios)
         /\ ids(z.bios) = ids(x.bios) \ ids(SubSeq(x.bios, 1, n))
<1>1. PICK a, b, c, m, k :
        /\ a = x.bios /\ b = SubSeq(x.bios, 1, n) /\ c = z.bios
        /\ m = x.nr_sectors /\ k = x.sector
  OBVIOUS
<1>2. /\ a \in Seq(BioRec) /\ Len(a) = m /\ m \in Nat /\ k \in Nat /\ n < m
      /\ b = SubSeq(a, 1, n) /\ c = SubSeq(a, n + 1, m)
      /\ z.sector = k + n /\ z.nr_sectors = m - n
  BY <1>1 DEF RqRec, Chain
<1>3. /\ DOMAIN a = 1 .. m
      /\ \A i \in 1 .. m : a[i] \in BioRec
  BY <1>2, LenProperties, ElementOfSeq
<1>4. /\ \A i, j \in 1 .. m : a[i].id = a[j].id => i = j
      /\ \A i \in 1 .. m : a[i].bi_sector = k + i - 1
  BY <1>1, <1>3 DEF Chain
<1>5. DOMAIN b = 1 .. n /\ \A i \in 1 .. n : i \in 1 .. m /\ b[i] = a[i]
  <2>1. \A i \in 1 .. n : i \in 1 .. m
    BY <1>2
  <2>2. \A i \in 1 .. n : a[i] \in BioRec
    BY <1>3, <2>1
  <2>3. /\ b \in Seq(BioRec) /\ Len(b) = (IF 1 <= n THEN n - 1 + 1 ELSE 0)
        /\ \A i \in 1 .. n - 1 + 1 : b[i] = a[1 + i - 1]
    BY <1>2, <2>2, SubSeqProperties
  <2>4. Len(b) = n
    BY <2>3
  <2>5. \A i \in 1 .. n : i \in 1 .. n - 1 + 1 /\ 1 + i - 1 = i
    OBVIOUS
  <2>6. DOMAIN b = 1 .. n
    BY <2>3, <2>4, LenProperties
  <2> QED
    BY <2>1, <2>3, <2>5, <2>6
<1>6. /\ Len(c) = m - n /\ DOMAIN c = 1 .. m - n
      /\ \A i \in 1 .. m - n : i + n \in 1 .. m /\ c[i] = a[i + n]
  <2>1. \A i \in n + 1 .. m : i \in 1 .. m
    BY <1>2
  <2>2. \A i \in n + 1 .. m : a[i] \in BioRec
    BY <1>3, <2>1
  <2>3. /\ c \in Seq(BioRec) /\ Len(c) = (IF n + 1 <= m THEN m - (n + 1) + 1 ELSE 0)
        /\ \A i \in 1 .. m - (n + 1) + 1 : c[i] = a[n + 1 + i - 1]
    BY <1>2, <2>2, SubSeqProperties
  <2>4. Len(c) = m - n
    BY <1>2, <2>3
  <2>5. \A i \in 1 .. m - n : /\ i \in 1 .. m - (n + 1) + 1 /\ n + 1 + i - 1 = i + n
                              /\ i + n \in 1 .. m
    BY <1>2
  <2>6. DOMAIN c = 1 .. m - n
    BY <2>3, <2>4, LenProperties
  <2> QED
    BY <2>3, <2>4, <2>5, <2>6
<1>7. /\ ids(a) = {a[i].id : i \in 1 .. m} /\ ids(b) = {b[i].id : i \in 1 .. n}
      /\ ids(c) = {c[i].id : i \in 1 .. m - n}
  BY <1>3, <1>5, <1>6 DEF ids
<1>8. ids(b) \subseteq ids(a)
  BY <1>5, <1>7
<1>9. ids(c) = ids(a) \ ids(b)
  <2>1. ASSUME NEW i \in 1 .. m - n PROVE c[i].id \in ids(a) /\ c[i].id \notin ids(b)
    <3>1. c[i] = a[i + n] /\ i + n \in 1 .. m
      BY <1>6
    <3>2. \A j \in 1 .. n : a[j].id # a[i + n].id
      <4> SUFFICES ASSUME NEW j \in 1 .. n, a[j].id = a[i + n].id PROVE FALSE
        OBVIOUS
      <4>1. j = i + n
        BY <1>4, <1>5, <3>1
      <4> QED
        BY <1>2, <4>1
    <3> QED
      BY <1>5, <1>7, <3>1, <3>2
  <2>2. ASSUME NEW i \in 1 .. m, a[i].id \notin ids(b) PROVE a[i].id \in ids(c)
    <3>1. i \notin 1 .. n
      BY <1>5, <1>7, <2>2
    <3>2. i - n \in 1 .. m - n /\ (i - n) + n = i
      <4>1. i \in Int /\ m \in Int /\ n \in Int /\ i > n /\ i <= m
        BY <1>2, <3>1
      <4> QED
        BY <4>1
    <3>3. c[i - n] = a[i]
      BY <1>6, <3>2
    <3> QED
      BY <1>7, <3>2, <3>3
  <2>3. ids(c) \subseteq ids(a) \ ids(b)
    <3>1. \A y \in ids(c) : \E i \in 1 .. m - n : y = c[i].id
      BY <1>7
    <3> QED
      BY <2>1, <3>1
  <2>4. ids(a) \ ids(b) \subseteq ids(c)
    <3>1. \A y \in ids(a) : \E i \in 1 .. m : y = a[i].id
      BY <1>7
    <3> QED
      BY <2>2, <3>1
  <2> QED
    BY <2>3, <2>4
<1>10. \A i \in 1 .. m - n : c[i].bi_sector = z.sector + i - 1
  <2> SUFFICES ASSUME NEW i \in 1 .. m - n PROVE c[i].bi_sector = z.sector + i - 1
    OBVIOUS
  <2>1. c[i].bi_sector = k + (i + n) - 1
    BY <1>4, <1>6
  <2>2. i \in Int /\ k \in Int /\ z.sector = k + n
    BY <1>2
  <2> QED
    BY <2>1, <2>2
<1>11. \A i, j \in 1 .. m - n : c[i].id = c[j].id => i = j
  <2> SUFFICES ASSUME NEW i \in 1 .. m - n, NEW j \in 1 .. m - n, c[i].id = c[j].id
               PROVE  i = j
    OBVIOUS
  <2>1. i + n = j + n
    BY <1>4, <1>6
  <2> QED
    BY <2>1
<1>12. Chain(z)
  BY <1>1, <1>2, <1>6, <1>10, <1>11 DEF Chain
<1> QED
  BY <1>1, <1>8, <1>9, <1>12

\* The bios B, which no chain holds, join the chain of r.
LEMMA ChainsAdd ==
  ASSUME NEW rr, NEW ss, NEW P, NEW B, Chains(rr, P), NEW r \in Rq, B \cap P = {},
         Chain(ss[r]), ids(ss[r].bios) = ids(rr[r].bios) \cup B,
         \A s \in Rq \ {r} : SameChain(rr[s], ss[s])
  PROVE  Chains(ss, P \cup B)
<1>1. \A s \in Rq \ {r} : Chain(ss[s]) /\ ids(ss[s].bios) = ids(rr[s].bios)
  BY SameChainChain DEF Chains
<1>2. /\ \A s \in Rq : ids(rr[s].bios) \subseteq P
      /\ \A b \in P : \E s \in Rq : b \in ids(rr[s].bios)
  BY DEF Chains
<1>3. P \cup B = UNION {ids(ss[s].bios) : s \in Rq}
  <2>1. \A s \in Rq : ids(ss[s].bios) \subseteq P \cup B
    BY <1>1, <1>2
  <2>2. \A b \in P \cup B : \E s \in Rq : b \in ids(ss[s].bios)
    BY <1>1, <1>2
  <2> QED
    BY <2>1, <2>2
<1>4. ASSUME NEW s \in Rq, NEW t \in Rq, s # t
      PROVE  ids(ss[s].bios) \cap ids(ss[t].bios) = {}
  <2>1. ids(rr[s].bios) \cap ids(rr[t].bios) = {}
    BY <1>4 DEF Chains
  <2> QED
    BY <1>1, <1>2, <1>4, <2>1
<1>5. \A s \in Rq : Chain(ss[s])
  BY <1>1
<1> QED
  BY <1>3, <1>4, <1>5 DEF Chains

\* Some bios of r end.
LEMMA ChainsDrop ==
  ASSUME NEW rr, NEW ss, NEW P, NEW D, Chains(rr, P), NEW r \in Rq, D \subseteq ids(rr[r].bios),
         Chain(ss[r]), ids(ss[r].bios) = ids(rr[r].bios) \ D,
         \A s \in Rq \ {r} : SameChain(rr[s], ss[s])
  PROVE  Chains(ss, P \ D)
<1>1. \A s \in Rq \ {r} : Chain(ss[s]) /\ ids(ss[s].bios) = ids(rr[s].bios)
  BY SameChainChain DEF Chains
<1>2. /\ \A s \in Rq : ids(rr[s].bios) \subseteq P
      /\ \A b \in P : \E s \in Rq : b \in ids(rr[s].bios)
      /\ \A v, w \in Rq : v # w => ids(rr[v].bios) \cap ids(rr[w].bios) = {}
  BY DEF Chains
<1>3. P \ D = UNION {ids(ss[s].bios) : s \in Rq}
  <2>1. \A s \in Rq : ids(ss[s].bios) \subseteq P \ D
    BY <1>1, <1>2
  <2>2. \A b \in P \ D : \E s \in Rq : b \in ids(ss[s].bios)
    BY <1>1, <1>2
  <2> QED
    BY <2>1, <2>2
<1>4. ASSUME NEW s \in Rq, NEW t \in Rq, s # t
      PROVE  ids(ss[s].bios) \cap ids(ss[t].bios) = {}
  BY <1>1, <1>2, <1>4
<1>5. \A s \in Rq : Chain(ss[s])
  BY <1>1
<1> QED
  BY <1>3, <1>4, <1>5 DEF Chains

\* A request on a free list has no bios.
FreeEmpty == \A r \in free : rq[r].bios = <<>>

LEMMA ChainsKept ==
  ASSUME BioChains, FreeEmpty, \A s \in Rq : SameChain(rq[s], rq'[s]),
         free \subseteq Rq, free' \subseteq free, pending' = pending
  PROVE  BioChains' /\ FreeEmpty'
<1>1. \A s \in Rq : Chain(rq'[s]) /\ ids(rq'[s].bios) = ids(rq[s].bios)
  BY SameChainChain, ChainsRegrouped DEF Chains
<1>2. UNION {ids(rq'[s].bios) : s \in Rq} = UNION {ids(rq[s].bios) : s \in Rq}
  BY <1>1
<1>3. Chains(rq', pending')
  <2>1. Chains(rq, pending)
    BY ChainsRegrouped
  <2> QED
    BY <1>1, <1>2, <2>1 DEF Chains
<1>4. FreeEmpty'
  BY DEF FreeEmpty, SameChain
<1> QED
  BY <1>3, <1>4, ChainsRegroupedPrime

\* A request is emptied and goes back to its free list, ending its bios.
LEMMA ChainsFreed ==
  ASSUME Inv, BioChains, FreeEmpty, NEW r \in Rq, rq' = [rq EXCEPT ![r] = idle],
         free' = free \cup {r}, pending' = pending \ ids(rq[r].bios)
  PROVE  BioChains' /\ FreeEmpty'
<1>1. rq \in [Rq -> RqRec] /\ Chains(rq, pending)
  BY InvRegrouped, ChainsRegrouped DEF RqInv
<1>2. rq'[r] = idle /\ \A s \in Rq \ {r} : rq'[s] = rq[s]
  BY <1>1
<1>3. idle.bios = <<>> /\ idle.nr_sectors = 0
  BY DEF idle
<1>4. Chain(rq'[r]) /\ ids(rq'[r].bios) = {}
  BY <1>2, <1>3, EmptyChain
<1>5. \A s \in Rq \ {r} : SameChain(rq[s], rq'[s])
  BY <1>2 DEF SameChain
<1>6. Chains(rq', pending')
  BY <1>1, <1>4, <1>5, ChainsDrop
<1>7. FreeEmpty'
  <2>1. free \subseteq Rq
    BY InvRegrouped DEF Owned
  <2> QED
    BY <1>2, <1>3, <2>1 DEF FreeEmpty
<1> QED
  BY <1>6, <1>7, ChainsRegroupedPrime

LEMMA TookChain ==
  ASSUME NEW x \in RqRec, Chain(x), NEW bio \in BioRec, bio.id \notin ids(x.bios),
         NEW y, Took(x, bio, y)
  PROVE  Chain(y) /\ ids(y.bios) = ids(x.bios) \cup {bio.id}
<1>1. PICK z : z = single(bio)
  OBVIOUS
<1>2. z \in RqRec /\ Chain(z) /\ ids(z.bios) = {bio.id}
  BY <1>1, SingleChain
<1>3. Joined(x, z, y) \/ Joined(z, x, y)
  BY <1>1 DEF Took
<1>4. CASE Joined(x, z, y)
  BY <1>2, <1>4, JoinChain
<1>5. CASE Joined(z, x, y)
  <2>1. ids(z.bios) \cap ids(x.bios) = {}
    BY <1>2
  <2>2. Chain(y) /\ ids(y.bios) = ids(z.bios) \cup ids(x.bios)
    BY <1>2, <1>5, <2>1, JoinChain
  <2> QED
    BY <1>2, <2>2
<1> QED
  BY <1>3, <1>4, <1>5

\* Queueing a bio that is not pending adds it to exactly one chain.
LEMMA SubmitChains ==
  ASSUME Inv, BioChains, FreeEmpty, NEW bio \in BioRec, bio.id \notin pending, BioQueued(bio)
  PROVE  BioChains' /\ FreeEmpty'
<1>0. /\ rq \in [Rq -> RqRec] /\ Chains(rq, pending) /\ free \subseteq Rq
      /\ \A r \in Sorted(q) : r \in Rq /\ r \notin free
  <2>1. rq \in [Rq -> RqRec] /\ Chains(rq, pending)
    BY InvRegrouped, ChainsRegrouped DEF RqInv
  <2>2. Owned(q, free, driver, barrier_rq, active)
    BY InvRegrouped
  <2> QED
    BY <2>1, <2>2 DEF Owned, Queued
<1>1. /\ \A r \in Rq : Chain(rq[r]) /\ rq[r] \in RqRec /\ bio.id \notin ids(rq[r].bios)
      /\ {bio.id} \cap pending = {}
  BY <1>0 DEF Chains
<1>2. CASE /\ \A s \in Rq : SameChain(rq[s], rq'[s])
           /\ free' = free /\ pending' = pending
  BY <1>0, <1>2, ChainsKept
<1>3. ASSUME NEW r \in free, Started(bio, r), pending' = pending \cup {bio.id}
      PROVE  BioChains' /\ FreeEmpty'
  <2>1. /\ r \in Rq /\ rq[r].bios = <<>>
        /\ SameChain(single(bio), rq'[r])
        /\ \A s \in Rq \ {r} : SameChain(rq[s], rq'[s])
        /\ free' = free \ {r}
    BY <1>0, <1>3 DEF Started, FreeEmpty
  <2>2. Chain(rq'[r]) /\ ids(rq'[r].bios) = {bio.id}
    BY <2>1, SingleChain, SameChainChain
  <2>3. ids(rq[r].bios) = {}
    BY <2>1, EmptySeq DEF ids
  <2>4. ids(rq'[r].bios) = ids(rq[r].bios) \cup {bio.id}
    BY <2>2, <2>3
  <2>5. Chains(rq', pending \cup {bio.id})
    BY <1>0, <1>1, <2>1, <2>2, <2>4, ChainsAdd
  <2>6. FreeEmpty'
    BY <1>0, <2>1 DEF FreeEmpty, SameChain
  <2> QED
    BY <1>3, <2>5, <2>6, ChainsRegroupedPrime
<1>4. ASSUME NEW r \in Sorted(q), Grown(bio, r), pending' = pending \cup {bio.id}
      PROVE  BioChains' /\ FreeEmpty'
  <2>1. /\ r \in Rq /\ r \notin free
        /\ Took(rq[r], bio, rq'[r])
        /\ \A s \in Rq \ {r} : SameChain(rq[s], rq'[s])
        /\ free' = free
    BY <1>0, <1>4 DEF Grown
  <2>2. Chain(rq'[r]) /\ ids(rq'[r].bios) = ids(rq[r].bios) \cup {bio.id}
    BY <1>1, <2>1, TookChain
  <2>3. Chains(rq', pending \cup {bio.id})
    BY <1>0, <1>1, <2>1, <2>2, ChainsAdd
  <2>4. FreeEmpty'
    BY <1>0, <2>1 DEF FreeEmpty, SameChain
  <2> QED
    BY <1>4, <2>3, <2>4, ChainsRegroupedPrime
<1>5. ASSUME NEW r \in Sorted(q), NEW t \in Sorted(q), Bridged(bio, r, t),
             pending' = pending \cup {bio.id}
      PROVE  BioChains' /\ FreeEmpty'
  <2>1. /\ r \in Rq /\ t \in Rq /\ r \notin free /\ t \notin free /\ r # t
        /\ rq'[t] = idle /\ free' = free \cup {t}
        /\ \A s \in Rq \ {r, t} : SameChain(rq[s], rq'[s])
    BY <1>0, <1>5 DEF Bridged
  <2>2. PICK x \in RqRec : \/ Took(rq[r], bio, x) /\ Joined(x, rq[t], rq'[r])
                           \/ Took(rq[t], bio, x) /\ Joined(rq[r], x, rq'[r])
    BY <1>5 DEF Bridged
  <2>3. ids(rq[r].bios) \cap ids(rq[t].bios) = {}
    BY <1>0, <2>1 DEF Chains
  <2>4. /\ Chain(rq'[r])
        /\ ids(rq'[r].bios) = ids(rq[r].bios) \cup ids(rq[t].bios) \cup {bio.id}
    <3>1. CASE Took(rq[r], bio, x) /\ Joined(x, rq[t], rq'[r])
      <4>1. Chain(x) /\ ids(x.bios) = ids(rq[r].bios) \cup {bio.id}
        BY <1>1, <2>1, <3>1, TookChain
      <4>2. ids(x.bios) \cap ids(rq[t].bios) = {}
        BY <1>1, <2>1, <2>3, <4>1
      <4>3. Chain(rq'[r]) /\ ids(rq'[r].bios) = ids(x.bios) \cup ids(rq[t].bios)
        BY <1>1, <2>1, <3>1, <4>1, <4>2, JoinChain
      <4> QED
        BY <4>1, <4>3
    <3>2. CASE Took(rq[t], bio, x) /\ Joined(rq[r], x, rq'[r])
      <4>1. Chain(x) /\ ids(x.bios) = ids(rq[t].bios) \cup {bio.id}
        BY <1>1, <2>1, <3>2, TookChain
      <4>2. ids(rq[r].bios) \cap ids(x.bios) = {}
        BY <1>1, <2>1, <2>3, <4>1
      <4>3. Chain(rq'[r]) /\ ids(rq'[r].bios) = ids(rq[r].bios) \cup ids(x.bios)
        BY <1>1, <2>1, <3>2, <4>1, <4>2, JoinChain
      <4> QED
        BY <4>1, <4>3
    <3> QED
      BY <2>2, <3>1, <3>2
  <2>5. idle.bios = <<>> /\ idle.nr_sectors = 0
    BY DEF idle
  <2>6. Chain(idle) /\ ids(idle.bios) = {}
    BY <2>5, EmptyChain
  <2>8. PICK mid : mid = [rq EXCEPT ![t] = idle]
    OBVIOUS
  <2>9. mid[t] = idle /\ \A s \in Rq \ {t} : mid[s] = rq[s]
    BY <1>0, <2>1, <2>8
  <2>10. Chains(mid, pending \ ids(rq[t].bios))
    <3>1. \A s \in Rq \ {t} : SameChain(rq[s], mid[s])
      BY <2>9 DEF SameChain
    <3>2. Chain(mid[t]) /\ ids(mid[t].bios) = ids(rq[t].bios) \ ids(rq[t].bios)
      BY <2>6, <2>9
    <3> QED
      BY <1>0, <2>1, <3>1, <3>2, ChainsDrop
  <2>11. Chains(rq', (pending \ ids(rq[t].bios)) \cup (ids(rq[t].bios) \cup {bio.id}))
    <3>1. \A s \in Rq \ {r} : SameChain(mid[s], rq'[s])
      BY <2>1, <2>9 DEF SameChain
    <3>2. ids(rq'[r].bios) = ids(mid[r].bios) \cup (ids(rq[t].bios) \cup {bio.id})
      BY <2>1, <2>4, <2>9
    <3>3. (ids(rq[t].bios) \cup {bio.id}) \cap (pending \ ids(rq[t].bios)) = {}
      BY <1>1
    <3> QED
      BY <2>1, <2>4, <2>10, <3>1, <3>2, <3>3, ChainsAdd
  <2>12. (pending \ ids(rq[t].bios)) \cup (ids(rq[t].bios) \cup {bio.id}) = pending \cup {bio.id}
    <3>1. ids(rq[t].bios) \subseteq pending
      BY <1>0, <2>1 DEF Chains
    <3> QED
      BY <3>1
  <2>13. FreeEmpty'
    BY <1>0, <2>1, <2>5 DEF FreeEmpty, SameChain
  <2> QED
    BY <1>5, <2>11, <2>12, <2>13, ChainsRegroupedPrime
<1> QED
  BY <1>2, <1>3, <1>4, <1>5 DEF BioQueued

\* Every step keeps the chains: bios join one when they are queued and leave it when they end.
LEMMA ChainsStep ==
  ASSUME Inv, BioChains, FreeEmpty, [Next]_vars
  PROVE  BioChains' /\ FreeEmpty'
<1>0. /\ RqInv(rq) /\ rq \in [Rq -> RqRec] /\ Chains(rq, pending)
      /\ Owned(q, free, driver, barrier_rq, active) /\ free \subseteq Rq
  BY InvRegrouped, ChainsRegrouped DEF RqInv, Owned
<1>1. CASE Submit
  <2>1. PICK b \in Bio, dir \in Dirs, sector \in Sectors, barrier \in Barriers, qos \in bi_qos :
          make_request(b, dir, sector, barrier, qos)
    BY <1>1 DEF Submit
  <2>2. PICK bio : bio = [id |-> b, bi_sector |-> sector, bi_qos |-> qos, epoch |-> epoch]
    OBVIOUS
  <2>3. bio \in BioRec /\ bio.id = b
    BY <2>2, InvRegrouped DEF BioRec, RestType, bi_qos
  <2>4. barrier \in BOOLEAN
    BY BlockQueueAssumption
  <2>5. BioQueued(bio)
    BY <2>1, <2>2, <2>4, MakeRequestStep
  <2>6. b \notin pending
    BY <2>1 DEF make_request
  <2> QED
    BY <2>3, <2>5, <2>6, SubmitChains
<1>2. CASE \/ insert_barrier_drain
           \/ \E r \in Rq : blkdev_dequeue_request(r)
           \/ SetQos
           \/ jiffy
           \/ UNCHANGED vars
  <2>1. UNCHANGED <<rq, free, pending>>
    BY <1>2 DEF insert_barrier_drain, blkdev_dequeue_request, SetQos, UCSB_IO_SOFT_RT,
                UCSB_IO_PRIORITY, jiffy, vars
  <2>2. \A s \in Rq : SameChain(rq[s], rq'[s])
    BY <2>1 DEF SameChain
  <2> QED
    BY <1>0, <2>1, <2>2, ChainsKept
<1>3. CASE elv_next_request
  <2>1. PICK r : rq' = [rq EXCEPT ![r].flags = @ \cup {"REQ_STARTED"}]
    BY <1>3 DEF elv_next_request
  <2>2. \A s \in Rq : SameChain(rq[s], rq'[s])
    BY <1>0, <2>1 DEF SameChain, RqRec
  <2> QED
    BY <1>0, <1>3, <2>2, ChainsKept DEF elv_next_request
<1>4. CASE elv_next_request_kill
  <2>1. PICK next, r :
          /\ next = deadline_next_request(q, rq, prio(rq)) /\ r = Head(next.queue_head)
          /\ next.queue_head # <<>> /\ lock
          /\ rq' = [rq EXCEPT ![r] = idle]
          /\ free' = free \cup {r}
          /\ pending' = pending \ ids(rq[r].bios)
    BY <1>4 DEF elv_next_request_kill
  <2>2. r \in Rq
    BY <2>1, NextRequestFacts
  <2> QED
    BY <2>1, <2>2, ChainsFreed
<1>5. ASSUME NEW r \in Rq, NEW n \in 1 .. max_sectors, end_that_request_first(r, n)
      PROVE  BioChains' /\ FreeEmpty'
  <2> DEFINE y == blk_recalc_rq_sectors(rq[r], n)
             c == SubSeq(rq[r].bios, n + 1, Len(rq[r].bios))
  <2>1. /\ rq' = [rq EXCEPT ![r] = [y EXCEPT !.bios = c]]
        /\ pending' = pending \ ids(SubSeq(rq[r].bios, 1, n))
        /\ free' = free /\ n < Len(rq[r].bios) /\ r \in active \cup driver
    BY <1>5 DEF end_that_request_first
  <2>2. /\ rq[r] \in RqRec /\ Len(rq[r].bios) = rq[r].nr_sectors /\ n \in Nat
    BY <1>0, BlockQueueAssumption DEF RqInv
  <2>3. y = [rq[r] EXCEPT !.sector = @ + n, !.nr_sectors = @ - n]
    BY DEF blk_recalc_rq_sectors
  <2> HIDE DEF y, c
  <2>4. /\ rq'[r] = [y EXCEPT !.bios = c]
        /\ \A s \in Rq \ {r} : rq'[s] = rq[s]
    BY <1>0, <2>1
  <2>5. /\ rq'[r].sector = rq[r].sector + n
        /\ rq'[r].nr_sectors = rq[r].nr_sectors - n
        /\ rq'[r].bios = c
    BY <2>2, <2>3, <2>4 DEF RqRec
  <2>6. Chain(rq[r])
    BY <1>0 DEF Chains
  <2>7. PICK x, z : x = rq[r] /\ z = rq'[r]
    OBVIOUS
  <2>8. /\ Chain(z) /\ ids(SubSeq(x.bios, 1, n)) \subseteq ids(x.bios)
        /\ ids(z.bios) = ids(x.bios) \ ids(SubSeq(x.bios, 1, n))
    <3>1. /\ x \in RqRec /\ Chain(x) /\ n < x.nr_sectors
          /\ z.sector = x.sector + n /\ z.nr_sectors = x.nr_sectors - n
          /\ z.bios = SubSeq(x.bios, n + 1, Len(x.bios))
      BY <2>1, <2>2, <2>5, <2>6, <2>7 DEF c
    <3> QED
      BY <2>2, <3>1, SuffixChain
  <2>9. \A s \in Rq \ {r} : SameChain(rq[s], rq'[s])
    BY <2>4 DEF SameChain
  <2>10. Chains(rq', pending')
    BY <1>0, <2>1, <2>7, <2>8, <2>9, ChainsDrop
  <2>11. FreeEmpty'
    <3>1. r \notin free
      <4>1. active \subseteq Queued(q)
        BY <1>0 DEF Owned, Queued
      <4> QED
        BY <1>0, <2>1, <4>1 DEF Owned
    <3> QED
      BY <1>0, <2>1, <2>4, <3>1 DEF FreeEmpty
  <2> QED
    BY <2>10, <2>11, ChainsRegroupedPrime
<1>6. ASSUME NEW r \in Rq, end_that_request_last(r)
      PROVE  BioChains' /\ FreeEmpty'
  BY <1>6, ChainsFreed DEF end_that_request_last
<1>7. ASSUME NEW r \in Rq, NEW at_head \in BOOLEAN, blk_insert_request(r, at_head)
      PROVE  BioChains' /\ FreeEmpty'
  <2>1. \A s \in Rq : SameChain(rq[s], rq'[s])
    BY <1>0, <1>7 DEF blk_insert_request, SameChain, RqRec
  <2> QED
    BY <1>0, <1>7, <2>1, ChainsKept DEF blk_insert_request
<1>8. ASSUME NEW r \in Rq, NEW at_head \in BOOLEAN, blk_insert_special(r, at_head)
      PROVE  BioChains' /\ FreeEmpty'
  <2>1. /\ r \in free /\ free' = free \ {r} /\ pending' = pending /\ rq[r].bios = <<>>
        /\ rq' = [rq EXCEPT ![r] = [idle EXCEPT !.flags = {"REQ_SPECIAL", "REQ_SOFTBARRIER"}]]
    BY <1>8 DEF blk_insert_special, FreeEmpty
  <2>2. rq'[r].bios = <<>> /\ rq'[r].nr_sectors = 0 /\ \A s \in Rq \ {r} : rq'[s] = rq[s]
    BY <1>0, <2>1 DEF idle
  <2>3. Chain(rq'[r]) /\ ids(rq'[r].bios) = {}
    BY <2>2, EmptyChain
  <2>4. ids(rq[r].bios) = {}
    BY <2>1, EmptySeq DEF ids
  <2>5. \A s \in Rq \ {r} : SameChain(rq[s], rq'[s])
    BY <2>2 DEF SameChain
  <2>6. PICK D : D = ids(rq[r].bios)
    OBVIOUS
  <2>7. Chains(rq', pending \ D)
    <3>1. D \subseteq ids(rq[r].bios) /\ ids(rq'[r].bios) = ids(rq[r].bios) \ D
      BY <2>3, <2>4, <2>6
    <3> QED
      BY <1>0, <2>3, <2>5, <3>1, ChainsDrop
  <2>8. Chains(rq', pending')
    BY <2>1, <2>4, <2>6, <2>7
  <2>9. FreeEmpty'
    BY <1>0, <2>1, <2>2 DEF FreeEmpty
  <2> QED
    BY <2>8, <2>9, ChainsRegroupedPrime
<1> QED
  BY <1>1, <1>2, <1>3, <1>4, <1>5, <1>6, <1>7, <1>8 DEF Next, Drive, Insert

\* r has lost its first bios, or nothing.
Shrunk(r) ==
  /\ IsSuffix(rq'[r].bios, rq[r].bios)
  /\ rq'[r].sector + rq'[r].nr_sectors = rq[r].sector + rq[r].nr_sectors

LEMMA SameShrunk ==
  ASSUME Inv, NEW r \in Rq, SameChain(rq[r], rq'[r])
  PROVE  Shrunk(r)
<1>1. rq[r].bios \in Seq(BioRec) /\ rq'[r].bios = rq[r].bios
  BY InvRegrouped DEF RqInv, RqRec, SameChain
<1>2. PICK a, n : a = rq[r].bios /\ n = 0
  OBVIOUS
<1>3. /\ a \in Seq(BioRec) /\ Len(a) \in Nat /\ n \in Nat /\ n <= Len(a) /\ Len(a) = Len(a) - n
      /\ \A i \in 1 .. Len(a) - n : a[i] = a[i + n]
  BY <1>1, <1>2, LenProperties
<1>4. IsSuffix(a, a)
  BY <1>3, SuffixOf
<1> QED
  BY <1>1, <1>2, <1>4 DEF Shrunk, SameChain

\* What end_that_request_first leaves of the request.
LEMMA EndFirstBios ==
  ASSUME Inv, NEW r \in Rq, NEW n \in 1 .. max_sectors, end_that_request_first(r, n)
  PROVE  /\ rq'[r].flags = rq[r].flags
         /\ rq'[r].sector = rq[r].sector + n /\ rq'[r].nr_sectors = rq[r].nr_sectors - n
         /\ rq'[r].bios \in Seq(BioRec)
         /\ n \in Nat /\ n < Len(rq[r].bios) /\ Len(rq'[r].bios) = Len(rq[r].bios) - n
         /\ \A i \in 1 .. Len(rq[r].bios) - n : rq'[r].bios[i] = rq[r].bios[i + n]
<1> DEFINE y == blk_recalc_rq_sectors(rq[r], n)
           c == SubSeq(rq[r].bios, n + 1, Len(rq[r].bios))
<1>1. rq' = [rq EXCEPT ![r] = [y EXCEPT !.bios = c]] /\ n < Len(rq[r].bios)
  BY DEF end_that_request_first
<1>2. /\ rq \in [Rq -> RqRec] /\ rq[r] \in RqRec /\ Len(rq[r].bios) = rq[r].nr_sectors
      /\ rq[r].nr_sectors \in Nat /\ rq[r].bios \in Seq(BioRec)
  BY InvRegrouped DEF RqInv, RqRec
<1>3. y = [rq[r] EXCEPT !.sector = @ + n, !.nr_sectors = @ - n]
  BY DEF blk_recalc_rq_sectors
<1> HIDE DEF y, c
<1>4. rq'[r] = [y EXCEPT !.bios = c]
  BY <1>1, <1>2
<1>5. /\ rq'[r].flags = rq[r].flags
      /\ rq'[r].sector = rq[r].sector + n
      /\ rq'[r].nr_sectors = rq[r].nr_sectors - n
      /\ rq'[r].bios = c
  BY <1>2, <1>3, <1>4 DEF RqRec
<1>6. n \in Nat /\ max_sectors \in Nat
  BY BlockQueueAssumption
<1>7. PICK a, m : a = rq[r].bios /\ m = rq[r].nr_sectors
  OBVIOUS
<1>8. a \in Seq(BioRec) /\ m \in Nat /\ Len(a) = m /\ n < m /\ c = SubSeq(a, n + 1, m)
  BY <1>1, <1>2, <1>7 DEF c
<1>9. \A i \in n + 1 .. m : i \in 1 .. m /\ a[i] \in BioRec
  <2>1. \A i \in n + 1 .. m : i \in 1 .. m
    BY <1>6, <1>8
  <2> QED
    BY <1>8, <2>1, ElementOfSeq
<1>10. /\ c \in Seq(BioRec) /\ Len(c) = (IF n + 1 <= m THEN m - (n + 1) + 1 ELSE 0)
       /\ \A i \in 1 .. m - (n + 1) + 1 : c[i] = a[n + 1 + i - 1]
  BY <1>6, <1>8, <1>9, SubSeqProperties
<1>11. n <= m /\ m - (n + 1) + 1 = m - n /\ n + 1 <= m
  BY <1>6, <1>8
<1>12. \A i \in 1 .. m - n : n + 1 + i - 1 = i + n
  BY <1>6, <1>8
<1>13. Len(c) = m - n /\ \A i \in 1 .. m - n : c[i] = a[i + n]
  BY <1>10, <1>11, <1>12
<1>14. Len(rq[r].bios) = m
  BY <1>7, <1>8
<1> QED
  BY <1>1, <1>5, <1>6, <1>7, <1>10, <1>13, <1>14

LEMMA EndFirstShrinks ==
  ASSUME Inv, NEW r \in Rq, NEW n \in 1 .. max_sectors, end_that_request_first(r, n)
  PROVE  Shrunk(r)
<1>1. PICK a, c : a = rq[r].bios /\ c = rq'[r].bios
  OBVIOUS
<1>2. /\ a \in Seq(BioRec) /\ Len(a) \in Nat
      /\ rq[r].sector \in Nat /\ rq[r].nr_sectors \in Nat
  BY <1>1, InvRegrouped DEF RqInv, RqRec
<1>3. /\ rq'[r].sector = rq[r].sector + n /\ rq'[r].nr_sectors = rq[r].nr_sectors - n
      /\ c \in Seq(BioRec) /\ n \in Nat /\ n < Len(a) /\ Len(c) = Len(a) - n
      /\ \A i \in 1 .. Len(a) - n : c[i] = a[i + n]
  BY <1>1, EndFirstBios
<1>4. n <= Len(a)
  BY <1>2, <1>3
<1>5. IsSuffix(c, a)
  BY <1>2, <1>3, <1>4, SuffixOf
<1>6. rq'[r].sector + rq'[r].nr_sectors = rq[r].sector + rq[r].nr_sectors
  BY <1>2, <1>3
<1> QED
  BY <1>1, <1>5, <1>6 DEF Shrunk

\* No step but the end of its first bios touches a request the driver was given and keeps.
LEMMA ShrinkStep ==
  ASSUME Inv, [Next]_vars, NEW r \in (active \cup driver) \cap (active' \cup driver')
  PROVE  Shrunk(r)
<1>0. /\ RqInv(rq) /\ rq \in [Rq -> RqRec] /\ Owned(q, free, driver, barrier_rq, active)
      /\ r \in Rq
  BY InvRegrouped DEF RqInv, Owned
<1>1. r \notin free /\ r \notin Sorted(q)
  <2>1. CASE r \in active
    <3>1. r \in ToSet(q.queue_head) /\ WellFormed(q, {}, {})
      BY <1>0, <2>1, InvRegrouped DEF Owned, QInv
    <3>2. r \notin Sorted(q) /\ r \in Queued(q)
      BY <3>1, HeadElsewhere
    <3> QED
      BY <1>0, <3>2 DEF Owned
  <2>2. CASE r \in driver
    BY <1>0, <2>2 DEF Owned, Queued
  <2> QED
    BY <2>1, <2>2
<1>2. CASE Submit
  <2>1. PICK b \in Bio, dir \in Dirs, sector \in Sectors, barrier \in Barriers, qos \in bi_qos :
          make_request(b, dir, sector, barrier, qos)
    BY <1>2 DEF Submit
  <2>2. PICK bio : bio = [id |-> b, bi_sector |-> sector, bi_qos |-> qos, epoch |-> epoch]
    OBVIOUS
  <2>3. barrier \in BOOLEAN
    BY BlockQueueAssumption
  <2>4. BioQueued(bio)
    BY <2>1, <2>2, <2>3, MakeRequestStep
  <2>5. rq'[r] = rq[r]
    BY <1>0, <1>1, <2>4 DEF BioQueued
  <2> QED
    BY <1>0, <2>5, SameShrunk DEF SameChain
<1>3. CASE \/ insert_barrier_drain
           \/ \E s \in Rq : blkdev_dequeue_request(s)
           \/ SetQos
           \/ jiffy
           \/ UNCHANGED vars
  <2>1. UNCHANGED rq
    BY <1>3 DEF insert_barrier_drain, blkdev_dequeue_request, SetQos, UCSB_IO_SOFT_RT,
                UCSB_IO_PRIORITY, jiffy, vars
  <2> QED
    BY <1>0, <2>1, SameShrunk DEF SameChain
<1>4. CASE elv_next_request
  <2>1. PICK s : rq' = [rq EXCEPT ![s].flags = @ \cup {"REQ_STARTED"}]
    BY <1>4 DEF elv_next_request
  <2>2. SameChain(rq[r], rq'[r])
    BY <1>0, <2>1 DEF SameChain, RqRec
  <2> QED
    BY <1>0, <2>2, SameShrunk
<1>5. CASE elv_next_request_kill
  <2>1. PICK next, s :
          /\ next = deadline_next_request(q, rq, prio(rq)) /\ s = Head(next.queue_head)
          /\ next.queue_head # <<>> /\ lock
          /\ rq' = [rq EXCEPT ![s] = idle]
          /\ active' = active \ {s} /\ driver' = driver
    BY <1>5 DEF elv_next_request_kill
  <2>2. Owned(next, free, driver, NULL, active) /\ s \in Queued(next)
    BY <2>1, NextRequestFacts
  <2>3. s # r
    BY <2>1, <2>2 DEF Owned
  <2> QED
    BY <1>0, <2>1, <2>3, SameShrunk DEF SameChain
<1>6. ASSUME NEW s \in Rq, NEW n \in 1 .. max_sectors, end_that_request_first(s, n)
      PROVE  Shrunk(r)
  <2>1. CASE s = r
    BY <1>6, <2>1, EndFirstShrinks
  <2>2. CASE s # r
    <3>1. rq'[r] = rq[r]
      BY <1>0, <1>6, <2>2 DEF end_that_request_first
    <3> QED
      BY <1>0, <3>1, SameShrunk DEF SameChain
  <2> QED
    BY <2>1, <2>2
<1>7. ASSUME NEW s \in Rq, end_that_request_last(s)
      PROVE  Shrunk(r)
  <2>1. s # r
    <3>1. s \in driver /\ driver' = driver \ {s} /\ active' = active
      BY <1>7 DEF end_that_request_last
    <3>2. s \notin active
      BY <1>0, <3>1 DEF Owned, Queued
    <3> QED
      BY <3>1, <3>2
  <2>2. rq'[r] = rq[r]
    BY <1>0, <1>7, <2>1 DEF end_that_request_last
  <2> QED
    BY <1>0, <2>2, SameShrunk DEF SameChain
<1>8. ASSUME NEW s \in Rq, NEW at_head \in BOOLEAN, blk_insert_request(s, at_head)
      PROVE  Shrunk(r)
  <2>1. SameChain(rq[r], rq'[r])
    BY <1>0, <1>8 DEF blk_insert_request, SameChain, RqRec
  <2> QED
    BY <1>0, <2>1, SameShrunk
<1>9. ASSUME NEW s \in Rq, NEW at_head \in BOOLEAN, blk_insert_special(s, at_head)
      PROVE  Shrunk(r)
  <2>1. s # r
    BY <1>1, <1>9 DEF blk_insert_special
  <2>2. rq'[r] = rq[r]
    BY <1>0, <1>9, <2>1 DEF blk_insert_special
  <2> QED
    BY <1>0, <2>2, SameShrunk DEF SameChain
<1> QED
  BY <1>2, <1>3, <1>4, <1>5, <1>6, <1>7, <1>8, <1>9 DEF Next, Drive, Insert

(***************************************************************************)
(* The steps keep the dispatch list in order                               *)
(***************************************************************************)
InLine == LineInv(q, rq, barrier_rq, epoch)

LEMMA LineFacts ==
  ASSUME Inv, InLine, NEW c, c = current(rq, barrier_rq, epoch)
  PROVE  /\ c \in Nat /\ epoch \in Nat /\ c <= epoch /\ \A r \in Rq : Pure(rq[r])
         /\ SortedNow(q, rq, c) /\ LineOrder(q.queue_head, rq, c)
         /\ new_barrier(rq, barrier_rq) => epoch = c + 1 /\ EpochOf(rq[barrier_rq]) = c
         /\ ~new_barrier(rq, barrier_rq) => c = epoch
         /\ lock => c = epoch
         /\ \A r \in Rq : BestEffort(rq[r]) => EpochOf(rq[r]) \in Nat
<1>0. /\ RqInv(rq) /\ epoch \in Nat /\ barrier_rq \in Rq \cup {NULL} /\ \A r \in Rq : Pure(rq[r])
      /\ SortedNow(q, rq, c) /\ LineOrder(q.queue_head, rq, c)
  BY InvRegrouped DEF RestType, Owned, InLine, LineInv
<1>1. \A r \in Rq : BestEffort(rq[r]) => EpochOf(rq[r]) \in Nat
  BY <1>0, EpochsTyped
<1>2. CASE new_barrier(rq, barrier_rq)
  <2>1. /\ barrier_rq \in Rq /\ barrier_rq # NULL /\ "REQ_CMD" \in rq[barrier_rq].flags
        /\ c = EpochOf(rq[barrier_rq]) /\ epoch = EpochOf(rq[barrier_rq]) + 1
    BY <1>0, <1>2 DEF new_barrier, current, InLine, LineInv
  <2>2. EpochOf(rq[barrier_rq]) \in Nat
    BY <1>0, <2>1, EpochTyped
  <2>3. c \in Nat /\ epoch = c + 1
    BY <2>1, <2>2
  <2>4. c <= epoch
    BY <2>3
  <2> QED
    BY <1>0, <1>1, <1>2, <2>1, <2>3, <2>4 DEF lock
<1>3. CASE ~new_barrier(rq, barrier_rq)
  <2>1. c = epoch
    BY <1>3 DEF current
  <2>2. c <= epoch
    BY <1>0, <2>1
  <2> QED
    BY <1>0, <1>1, <1>3, <2>1, <2>2
<1> QED
  BY <1>2, <1>3

\* A request that is not sorted changed, and the order sees no more of it than before.
LEMMA LineOther ==
  ASSUME NEW qq, NEW rr, NEW b, QInv(qq, rr, b), NEW c,
         SortedNow(qq, rr, c), LineOrder(qq.queue_head, rr, c),
         NEW ss, NEW r, \A s \in Rq \ {r} : ss[s] = rr[s],
         r \notin Sorted(qq), NoWorse(rr[r], ss[r])
  PROVE  SortedNow(qq, ss, c) /\ LineOrder(qq.queue_head, ss, c)
<1>1. qq.queue_head \in List(Rq) /\ Sorted(qq) \subseteq Rq
  BY ListTypes DEF QInv, WellFormed, QueueType, Sorted, Dirs
<1>2. SortedNow(qq, ss, c)
  BY <1>1 DEF SortedNow
<1>3. \A s \in ToSet(qq.queue_head) : NoWorse(rr[s], ss[s])
  BY <1>1, ListElements DEF NoWorse
<1> QED
  BY <1>1, <1>2, <1>3, LineKept

LEMMA DrainLine ==
  ASSUME Inv, InLine, insert_barrier_drain
  PROVE  InLine'
<1> DEFINE c == current(rq, barrier_rq, epoch)
<1>0. /\ RqInv(rq) /\ QInv(q, rq, barrier_rq) /\ Owned(q, free, driver, barrier_rq, active)
      /\ WellFormed(q, {}, {}) /\ q.starved <= writes_starved /\ q.queue_head \in List(Rq)
      /\ barrier_rq # NULL /\ UNCHANGED <<rq, epoch>>
  BY InvRegrouped, ListTypes DEF insert_barrier_drain, lock, QInv, WellFormed
<1>1. /\ c \in Nat /\ epoch \in Nat /\ c <= epoch /\ \A r \in Rq : Pure(rq[r])
      /\ SortedNow(q, rq, c) /\ LineOrder(q.queue_head, rq, c)
      /\ new_barrier(rq, barrier_rq) => epoch = c + 1 /\ EpochOf(rq[barrier_rq]) = c
      /\ ~new_barrier(rq, barrier_rq) => c = epoch
      /\ \A r \in Rq : BestEffort(rq[r]) => EpochOf(rq[r]) \in Nat
  BY LineFacts
<1>2. CASE deadline_has_request(q)
  <2>1. q' = deadline_dispatch_requests(q, rq) /\ barrier_rq' = barrier_rq
    BY <1>2 DEF insert_barrier_drain
  <2>2. \A s \in Rq : rq_end(rq, s) \in Nat
    BY <1>0, EndsTyped
  <2>3. MovesOn(q, q')
    BY <1>0, <1>2, <2>1, <2>2, DispatchRequestsWellFormed
  <2>4. Sorted(q') \subseteq Sorted(q) /\ HeadGrows(q, q', Sorted(q))
    BY <2>3 DEF MovesOn
  <2>5. SortedNow(q', rq, c) /\ LineOrder(q'.queue_head, rq, c)
    <3> HIDE DEF c
    <3> QED
      BY <1>0, <1>1, <2>4, SortedLine
  <2> QED
    BY <1>0, <2>1, <2>5 DEF InLine, LineInv
<1>3. CASE ~deadline_has_request(q)
  <2>1. q' = [q EXCEPT !.queue_head = Append(@, barrier_rq)] /\ barrier_rq' = NULL
    BY <1>3 DEF insert_barrier_drain
  <2>2. /\ barrier_rq \in Rq /\ barrier_rq \notin ToSet(q.queue_head)
        /\ q'.queue_head = Append(q.queue_head, barrier_rq) /\ Sorted(q') = Sorted(q)
    BY <1>0, <2>1 DEF Owned, Queued, WellFormed, QueueType, Sorted
  <2>3. Sorted(q) = {}
    BY <1>0, <1>3, DrainedEmpty
  <2>4. BestEffort(rq[barrier_rq]) => EpochOf(rq[barrier_rq]) = c /\ c < epoch
    <3>1. BestEffort(rq[barrier_rq]) => new_barrier(rq, barrier_rq)
      BY <1>0 DEF BestEffort, new_barrier
    <3> HIDE DEF c
    <3> QED
      BY <1>1, <3>1
  <2>5. LineOrder(q'.queue_head, rq, epoch)
    <3> HIDE DEF c
    <3> QED
      BY <1>0, <1>1, <2>2, <2>4, LineAppend
  <2>6. SortedNow(q', rq, epoch)
    BY <2>2, <2>3 DEF SortedNow
  <2> QED
    BY <1>0, <1>1, <2>1, <2>5, <2>6 DEF InLine, LineInv, current, new_barrier
<1> QED
  BY <1>2, <1>3

\* What elv_next_request moves to the dispatch list is of the current epoch, or not best effort.
LEMMA NextLine ==
  ASSUME Inv, InLine, lock, NEW next, next = deadline_next_request(q, rq, prio(rq))
  PROVE  SortedNow(next, rq, epoch) /\ LineOrder(next.queue_head, rq, epoch)
<1>0. /\ RqInv(rq) /\ QInv(q, rq, NULL) /\ WellFormed(q, {}, {}) /\ q.starved <= writes_starved
      /\ q \in QueueType /\ ListsDisjoint(q)
  BY InvRegrouped DEF lock, QInv, WellFormed
<1>1. PICK c : c = current(rq, barrier_rq, epoch)
  OBVIOUS
<1>2. /\ c = epoch /\ c \in Nat /\ SortedNow(q, rq, c) /\ LineOrder(q.queue_head, rq, c)
      /\ \A r \in Rq : BestEffort(rq[r]) => EpochOf(rq[r]) \in Nat
  BY <1>1, LineFacts
<1>3. \A s \in Rq : rq_end(rq, s) \in Nat
  BY <1>0, EndsTyped
<1>4. Advances(q, next)
  BY <1>0, <1>3, NextRequestWellFormed
<1>5. PICK A : A = Sorted(q) \cup ToSet(q.ucsb_queue)
  OBVIOUS
<1>6. /\ q.queue_head \in List(Rq) /\ A \in SUBSET Rq /\ A \cap ToSet(q.queue_head) = {}
      /\ Sorted(next) \subseteq Sorted(q) /\ HeadGrows(q, next, A)
  <2>1. q.queue_head \in List(Rq) /\ q.ucsb_queue \in List(Rq) /\ Sorted(q) \subseteq Rq
    BY <1>0, ListTypes DEF QueueType, Sorted, Dirs
  <2> QED
    BY <1>0, <1>4, <1>5, <2>1, ListElements DEF Advances, ListsDisjoint
<1>7. \A r \in A : BestEffort(rq[r]) => EpochOf(rq[r]) = c /\ ~Hard(rq[r])
  <2>1. \A r \in Sorted(q) : BestEffort(rq[r]) => EpochOf(rq[r]) = c /\ ~Hard(rq[r])
    BY <1>2 DEF SortedNow
  <2>2. \A r \in ToSet(q.ucsb_queue) : ~BestEffort(rq[r])
    BY <1>0 DEF QInv, rq_qos, BestEffort
  <2> QED
    BY <1>5, <2>1, <2>2
<1>8. LineOrder(next.queue_head, rq, c)
  BY <1>2, <1>6, <1>7, LineGrows
<1> QED
  BY <1>2, <1>6, <1>8 DEF SortedNow

LEMMA NextRequestLine ==
  ASSUME Inv, InLine, elv_next_request
  PROVE  InLine'
<1>0. PICK next, r :
        /\ next = deadline_next_request(q, rq, prio(rq)) /\ r = Head(next.queue_head)
        /\ lock /\ next.queue_head # <<>> /\ q' = ForgetMerge(next, r)
        /\ rq' = [rq EXCEPT ![r].flags = @ \cup {"REQ_STARTED"}]
        /\ UNCHANGED <<barrier_rq, epoch>>
  BY DEF elv_next_request
<1>1. QInv(next, rq, NULL) /\ r \in Rq /\ r \notin Sorted(next) /\ barrier_rq = NULL
  BY <1>0, NextRequestFacts DEF lock
<1>2. SortedNow(next, rq, epoch) /\ LineOrder(next.queue_head, rq, epoch)
  BY <1>0, NextLine
<1>3. /\ \A s \in Rq \ {r} : rq'[s] = rq[s]
      /\ rq'[r].bios = rq[r].bios /\ rq'[r].flags = rq[r].flags \cup {"REQ_STARTED"}
  BY <1>0, <1>1, InvRegrouped DEF RqInv, RqRec
<1>4. NoWorse(rq[r], rq'[r]) /\ (Pure(rq[r]) => Pure(rq'[r]))
  BY <1>3 DEF NoWorse, Pure, BestEffort, Hard, EpochOf
<1>5. SortedNow(next, rq', epoch) /\ LineOrder(next.queue_head, rq', epoch)
  BY <1>1, <1>2, <1>3, <1>4, LineOther
<1>6. q'.queue_head = next.queue_head /\ Sorted(q') = Sorted(next)
  BY <1>0, <1>1, ForgetMergeWellFormed DEF QInv, SamePlaces
<1>7. \A s \in Rq : Pure(rq'[s])
  BY <1>3, <1>4 DEF InLine, LineInv
<1> QED
  BY <1>0, <1>1, <1>5, <1>6, <1>7 DEF InLine, LineInv, SortedNow, current, new_barrier

\* A request that becomes idle is of no interest to the order.
LEMMA IdleLine ==
  ASSUME NEW x
  PROVE  NoWorse(x, idle) /\ Pure(idle)
BY DEF NoWorse, Pure, BestEffort, idle

LEMMA KillLine ==
  ASSUME Inv, InLine, elv_next_request_kill
  PROVE  InLine'
<1>0. PICK next, r :
        /\ next = deadline_next_request(q, rq, prio(rq)) /\ r = Head(next.queue_head)
        /\ lock /\ next.queue_head # <<>> /\ q' = elv_remove_request(next, r)
        /\ rq' = [rq EXCEPT ![r] = idle]
        /\ UNCHANGED <<barrier_rq, epoch>>
  BY DEF elv_next_request_kill
<1>1. /\ QInv(next, rq, NULL) /\ r \in Rq /\ r \notin Sorted(next) /\ barrier_rq = NULL
      /\ r \in ToSet(next.queue_head) /\ next.queue_head \in List(Rq)
  BY <1>0, NextRequestFacts, ListTypes DEF lock, QInv, WellFormed
<1>2. SortedNow(next, rq, epoch) /\ LineOrder(next.queue_head, rq, epoch)
  BY <1>0, NextLine
<1>3. rq'[r] = idle /\ \A s \in Rq \ {r} : rq'[s] = rq[s]
  BY <1>0, <1>1, InvRegrouped DEF RqInv
<1>4. NoWorse(rq[r], rq'[r]) /\ Pure(rq'[r])
  BY <1>3, IdleLine
<1>5. SortedNow(next, rq', epoch) /\ LineOrder(next.queue_head, rq', epoch)
  BY <1>1, <1>2, <1>3, <1>4, LineOther
<1>6. q'.queue_head = RemoveFirst(next.queue_head, r) /\ Sorted(q') = Sorted(next)
  BY <1>0, <1>1, RemoveFacts
<1>7. LineOrder(q'.queue_head, rq', epoch)
  BY <1>1, <1>5, <1>6, LineRemove
<1>8. \A s \in Rq : Pure(rq'[s])
  BY <1>3, <1>4 DEF InLine, LineInv
<1> QED
  BY <1>0, <1>1, <1>5, <1>6, <1>7, <1>8 DEF InLine, LineInv, SortedNow, current, new_barrier

LEMMA DequeueLine ==
  ASSUME Inv, InLine, NEW r \in Rq, blkdev_dequeue_request(r)
  PROVE  InLine'
<1>0. /\ QInv(q, rq, NULL) /\ r \in ToSet(q.queue_head) /\ q.queue_head \in List(Rq)
      /\ q' = elv_remove_request(q, r) /\ UNCHANGED <<rq, barrier_rq, epoch>>
  BY InvRegrouped, ListTypes DEF blkdev_dequeue_request, lock, Owned, QInv, WellFormed
<1>1. q'.queue_head = RemoveFirst(q.queue_head, r) /\ Sorted(q') = Sorted(q)
  BY <1>0, RemoveFacts
<1>2. PICK c : c = current(rq, barrier_rq, epoch)
  OBVIOUS
<1>3. LineOrder(q.queue_head, rq, c) /\ SortedNow(q', rq, c)
  BY <1>1, <1>2 DEF InLine, LineInv, SortedNow
<1>4. LineOrder(q'.queue_head, rq, c)
  BY <1>0, <1>1, <1>3, LineRemove
<1> QED
  BY <1>0, <1>2, <1>3, <1>4 DEF InLine, LineInv

LEMMA EndFirstLine ==
  ASSUME Inv, InLine, NEW r \in Rq, NEW n \in 1 .. max_sectors, end_that_request_first(r, n)
  PROVE  InLine'
<1>0. /\ RqInv(rq) /\ QInv(q, rq, barrier_rq) /\ Owned(q, free, driver, barrier_rq, active)
      /\ UNCHANGED <<q, barrier_rq, epoch>> /\ r \in active \cup driver
  BY InvRegrouped DEF end_that_request_first
<1>1. r \notin Sorted(q) /\ r # barrier_rq
  <2>1. CASE r \in active
    <3>1. r \in ToSet(q.queue_head) /\ WellFormed(q, {}, {})
      BY <1>0, <2>1 DEF Owned, QInv
    <3>2. r \notin Sorted(q) /\ r \in Queued(q)
      BY <3>1, HeadElsewhere
    <3> QED
      BY <1>0, <3>2, IoschedAssumption DEF Owned
  <2>2. CASE r \in driver
    BY <1>0, <2>2, IoschedAssumption DEF Owned, Queued
  <2> QED
    BY <1>0, <2>1, <2>2
<1>2. \A s \in Rq \ {r} : rq'[s] = rq[s]
  BY <1>0 DEF RqInv, end_that_request_first
<1>3. PICK x, y, a, z : x = rq[r] /\ y = rq'[r] /\ a = rq[r].bios /\ z = rq'[r].bios
  OBVIOUS
<1>4. /\ y.flags = x.flags /\ x.bios = a /\ y.bios = z
      /\ a \in Seq(BioRec) /\ z \in Seq(BioRec) /\ n \in Nat /\ Len(a) \in Nat
      /\ n < Len(a) /\ Len(z) = Len(a) - n
      /\ \A i \in 1 .. Len(a) - n : z[i] = a[i + n]
  BY <1>0, <1>3, EndFirstBios DEF RqInv, RqRec
<1>5. /\ DOMAIN a = 1 .. Len(a) /\ DOMAIN z = 1 .. Len(a) - n /\ a # <<>> /\ z # <<>>
      /\ 1 \in DOMAIN a /\ 1 \in DOMAIN z /\ Head(a) = a[1] /\ Head(z) = z[1]
  <2>1. DOMAIN a = 1 .. Len(a) /\ DOMAIN z = 1 .. Len(z) /\ Len(z) \in Nat
    BY <1>4, LenProperties
  <2>2. Len(a) # 0 /\ Len(z) # 0
    BY <1>4
  <2>3. a # <<>> /\ z # <<>>
    BY <2>2, EmptySeq
  <2>4. 1 \in 1 .. Len(a) /\ 1 \in 1 .. Len(z)
    BY <1>4, <2>1, <2>2
  <2>5. Head(a) = a[1] /\ Head(z) = z[1]
    BY <1>4, <2>3
  <2> QED
    BY <1>4, <2>1, <2>3, <2>4, <2>5
<1>6. \A i \in DOMAIN z : i + n \in DOMAIN a /\ z[i] = a[i + n]
  <2>1. \A i \in 1 .. Len(a) - n : i + n \in 1 .. Len(a)
    BY <1>4
  <2> QED
    BY <1>4, <1>5, <2>1
<1>7. Pure(x)
  BY <1>3 DEF InLine, LineInv
<1>8. Pure(y)
  BY <1>4, <1>5, <1>6, <1>7 DEF Pure
<1>9. Head(z).epoch = Head(a).epoch /\ Head(z).bi_qos = Head(a).bi_qos
  BY <1>4, <1>5, <1>6, <1>7 DEF Pure
<1>10. NoWorse(x, y)
  BY <1>4, <1>5, <1>9 DEF NoWorse, BestEffort, EpochOf, Hard
<1>11. PICK c : c = current(rq, barrier_rq, epoch)
  OBVIOUS
<1>12. /\ current(rq', barrier_rq', epoch') = c
       /\ new_barrier(rq', barrier_rq') => "REQ_CMD" \in rq'[barrier_rq'].flags
                                          /\ epoch' = EpochOf(rq'[barrier_rq']) + 1
  <2>1. barrier_rq # NULL => rq'[barrier_rq] = rq[barrier_rq]
    BY <1>0, <1>1, <1>2 DEF Owned
  <2>2. new_barrier(rq', barrier_rq') <=> new_barrier(rq, barrier_rq)
    BY <1>0, <2>1 DEF new_barrier
  <2>3. new_barrier(rq, barrier_rq) => rq'[barrier_rq'] = rq[barrier_rq]
    BY <1>0, <2>1 DEF new_barrier
  <2> QED
    BY <1>0, <1>11, <2>2, <2>3 DEF current, InLine, LineInv
<1>13. SortedNow(q, rq, c) /\ LineOrder(q.queue_head, rq, c)
  BY <1>11 DEF InLine, LineInv
<1>14. SortedNow(q, rq', c) /\ LineOrder(q.queue_head, rq', c)
  BY <1>0, <1>1, <1>2, <1>3, <1>10, <1>13, LineOther
<1>15. \A s \in Rq : Pure(rq'[s])
  BY <1>2, <1>3, <1>8 DEF InLine, LineInv
<1> QED
  BY <1>0, <1>12, <1>14, <1>15 DEF InLine, LineInv

LEMMA EndLastLine ==
  ASSUME Inv, InLine, NEW r \in Rq, end_that_request_last(r)
  PROVE  InLine'
<1>0. /\ RqInv(rq) /\ QInv(q, rq, NULL) /\ r \notin Sorted(q) /\ barrier_rq = NULL
      /\ rq' = [rq EXCEPT ![r] = idle] /\ UNCHANGED <<q, barrier_rq, epoch>>
  BY InvRegrouped DEF end_that_request_last, lock, Owned, Queued
<1>1. rq'[r] = idle /\ \A s \in Rq \ {r} : rq'[s] = rq[s]
  BY <1>0 DEF RqInv
<1>2. NoWorse(rq[r], rq'[r]) /\ Pure(rq'[r])
  BY <1>1, IdleLine
<1>3. /\ SortedNow(q, rq, epoch) /\ LineOrder(q.queue_head, rq, epoch)
      /\ \A s \in Rq : Pure(rq[s])
  BY <1>0 DEF InLine, LineInv, current, new_barrier
<1>4. SortedNow(q, rq', epoch) /\ LineOrder(q.queue_head, rq', epoch)
  BY <1>0, <1>1, <1>2, <1>3, LineOther
<1>5. \A s \in Rq : Pure(rq'[s])
  BY <1>1, <1>2, <1>3
<1> QED
  BY <1>0, <1>4, <1>5 DEF InLine, LineInv, current, new_barrier

\* A request put on the queue by the driver is special, and passes for best effort no more.
LEMMA PutBackLine ==
  ASSUME Inv, InLine, lock, NEW r \in free \cup driver, NEW at_head \in BOOLEAN,
         RqInv(rq'), \A s \in Rq \ {r} : rq'[s] = rq[s],
         "REQ_SPECIAL" \in rq'[r].flags, Pure(rq'[r]),
         deadline_insert_request(q, rq', r, at_head), UNCHANGED epoch
  PROVE  InLine'
<1>0. /\ QInv(q, rq, NULL) /\ Owned(q, free, driver, NULL, active) /\ epoch \in Nat
  BY InvRegrouped DEF lock, RestType
<1>1. r \in Rq /\ r \notin Queued(q) /\ r \notin Sorted(q) /\ r \notin ToSet(q.ucsb_queue)
  BY <1>0 DEF Owned, Queued
<1>2. QInv(q, rq', NULL)
  BY <1>0, <1>1, QInvOther
<1>3. ~BestEffort(rq'[r]) /\ NoWorse(rq[r], rq'[r])
  BY DEF BestEffort, NoWorse
<1>4. /\ SortedNow(q, rq, epoch) /\ LineOrder(q.queue_head, rq, epoch)
      /\ \A s \in Rq : Pure(rq[s])
  BY DEF InLine, LineInv, current, new_barrier, lock
<1>5. SortedNow(q, rq', epoch) /\ LineOrder(q.queue_head, rq', epoch)
  BY <1>0, <1>1, <1>3, <1>4, LineOther
<1>6. \A s \in Rq : Pure(rq'[s])
  BY <1>4
<1>7. /\ SortedNow(q', rq', epoch) /\ LineOrder(q'.queue_head, rq', epoch)
      /\ barrier_rq' = IF Hard(rq'[r]) THEN r ELSE NULL
  BY <1>0, <1>1, <1>2, <1>3, <1>5, <1>6, InsertLine
<1>8. ~new_barrier(rq', barrier_rq')
  BY <1>7 DEF new_barrier
<1> QED
  BY <1>6, <1>7, <1>8 DEF InLine, LineInv, current

LEMMA InsertedLine ==
  ASSUME Inv, InLine, NEW r \in Rq, NEW at_head \in BOOLEAN,
         blk_insert_request(r, at_head) \/ blk_insert_special(r, at_head)
  PROVE  InLine'
<1>0. RqInv(rq) /\ RqInv(rq') /\ Pure(rq[r])
  <2>1. Inv'
    BY InsertStep
  <2> QED
    BY <2>1, InvRegrouped, InvRegroupedPrime DEF InLine, LineInv
<1>1. CASE blk_insert_request(r, at_head)
  <2>1. /\ \A s \in Rq \ {r} : rq'[s] = rq[s]
        /\ rq'[r].bios = rq[r].bios
        /\ rq'[r].flags = rq[r].flags \cup {"REQ_SPECIAL", "REQ_SOFTBARRIER"}
    BY <1>0, <1>1 DEF blk_insert_request, RqInv, RqRec
  <2>2. Pure(rq'[r]) /\ "REQ_SPECIAL" \in rq'[r].flags
    BY <1>0, <2>1 DEF Pure
  <2> QED
    BY <1>0, <1>1, <2>1, <2>2, PutBackLine DEF blk_insert_request
<1>2. CASE blk_insert_special(r, at_head)
  <2>1. \A s \in Rq \ {r} : rq'[s] = rq[s]
    BY <1>0, <1>2 DEF blk_insert_special, RqInv
  <2>2. rq'[r].bios = <<>> /\ rq'[r].flags = {"REQ_SPECIAL", "REQ_SOFTBARRIER"}
    BY <1>0, <1>2 DEF blk_insert_special, RqInv, idle
  <2>3. Pure(rq'[r]) /\ "REQ_SPECIAL" \in rq'[r].flags
    BY <2>2 DEF Pure
  <2> QED
    BY <1>0, <1>2, <2>1, <2>3, PutBackLine DEF blk_insert_special
<1> QED
  BY <1>1, <1>2

LEMMA SubmitLine ==
  ASSUME Inv, InLine, Submit
  PROVE  InLine'
<1>1. PICK b \in Bio, dir \in Dirs, sector \in Sectors, barrier \in Barriers, qos \in bi_qos :
        make_request(b, dir, sector, barrier, qos)
  BY DEF Submit
<1>2. PICK bio : bio = [id |-> b, bi_sector |-> sector, bi_qos |-> qos, epoch |-> epoch]
  OBVIOUS
<1>3. barrier \in BOOLEAN
  BY BlockQueueAssumption
<1>4. BioInLine(q, rq, bio)
  BY <1>1, <1>2, <1>3, MakeRequestStep
<1>5. bio.epoch = epoch /\ barrier_rq = NULL
  BY <1>1, <1>2 DEF make_request, lock
<1> QED
  BY <1>4, <1>5 DEF BioInLine, InLine

LEMMA LineStep == Inv /\ InLine /\ [Next]_vars => InLine'
<1> SUFFICES ASSUME Inv, InLine, [Next]_vars PROVE InLine'
  OBVIOUS
<1>1. CASE Submit
  BY <1>1, SubmitLine
<1>2. CASE insert_barrier_drain
  BY <1>2, DrainLine
<1>3. CASE Drive
  <2>1. CASE elv_next_request
    BY <2>1, NextRequestLine
  <2>2. CASE elv_next_request_kill
    BY <2>2, KillLine
  <2>3. ASSUME NEW r \in Rq, blkdev_dequeue_request(r) PROVE InLine'
    BY <2>3, DequeueLine
  <2>4. ASSUME NEW r \in Rq, NEW n \in 1 .. max_sectors, end_that_request_first(r, n) PROVE InLine'
    BY <2>4, EndFirstLine
  <2>5. ASSUME NEW r \in Rq, end_that_request_last(r) PROVE InLine'
    BY <2>5, EndLastLine
  <2> QED
    BY <1>3, <2>1, <2>2, <2>3, <2>4, <2>5 DEF Drive
<1>4. CASE Insert
  BY <1>4, InsertedLine DEF Insert
<1>5. CASE jiffy
  <2>1. /\ q'.queue_head = q.queue_head /\ Sorted(q') = Sorted(q)
        /\ UNCHANGED <<rq, barrier_rq, epoch>>
    BY <1>5, InvRegrouped DEF jiffy, QInv, WellFormed, QueueType, Sorted
  <2> QED
    BY <2>1 DEF InLine, LineInv, SortedNow
<1>6. CASE SetQos \/ UNCHANGED vars
  <2>1. UNCHANGED <<q, rq, barrier_rq, epoch>>
    BY <1>6 DEF SetQos, UCSB_IO_SOFT_RT, UCSB_IO_PRIORITY, vars
  <2> QED
    BY <2>1 DEF InLine
<1> QED
  BY <1>1, <1>2, <1>3, <1>4, <1>5, <1>6 DEF Next

LEMMA LineInit == Init => InLine
<1> SUFFICES ASSUME Init PROVE InLine
  OBVIOUS
<1>1. \A r \in Rq : Pure(rq[r])
  BY IdleLine DEF Init
<1>2. q.queue_head = <<>> /\ Sorted(q) = {} /\ barrier_rq = NULL
  BY DEF Init, deadline_init, Sorted, Dirs
<1>3. LineOrder(q.queue_head, rq, epoch)
  BY <1>2, EmptyInOrder, EmptySeq DEF LineOrder, ToSet
<1> QED
  BY <1>1, <1>2, <1>3 DEF InLine, LineInv, SortedNow, current, new_barrier

LEMMA LineOrders == Inv /\ InLine => BarrierOrder
<1> SUFFICES ASSUME Inv, InLine PROVE BarrierOrder
  OBVIOUS
<1>0. q.queue_head \in List(Rq)
  BY InvRegrouped, ListTypes DEF QInv, WellFormed
<1>1. PICK c : c = current(rq, barrier_rq, epoch)
  OBVIOUS
<1>2. /\ \A r \in Rq : Pure(rq[r])
      /\ SortedNow(q, rq, c) /\ LineOrder(q.queue_head, rq, c) /\ (lock => c = epoch)
  BY <1>1, LineFacts
<1>3. \A r : /\ best_effort(r) <=> BestEffort(rq[r])
             /\ rq_epoch(r) = EpochOf(rq[r]) /\ (is_barrier(r) <=> Hard(rq[r]))
  BY DEF best_effort, BestEffort, blk_fs_request, rq_qos, rq_epoch, EpochOf, is_barrier, Hard
<1>4. \A r \in Rq : \A i, j \in DOMAIN rq[r].bios : rq[r].bios[i].epoch = rq[r].bios[j].epoch
  BY <1>2 DEF Pure
<1>5. lock => \A r \in Sorted(q) : best_effort(r) => rq_epoch(r) = epoch
  BY <1>2, <1>3 DEF SortedNow
<1>6. ASSUME NEW i \in DOMAIN q.queue_head, NEW j \in DOMAIN q.queue_head, i < j,
             NEW r, NEW s, r = q.queue_head[i], s = q.queue_head[j],
             best_effort(r), best_effort(s)
      PROVE  rq_epoch(r) <= rq_epoch(s) /\ (is_barrier(r) => rq_epoch(r) < rq_epoch(s))
  <2>1. <<r, s>> \in line(rq)
    BY <1>2, <1>6 DEF LineOrder, InOrder
  <2>2. BestEffort(rq[s]) => Ahead(rq[r], EpochOf(rq[s]))
    BY <2>1 DEF line
  <2> QED
    BY <1>3, <1>6, <2>2 DEF Ahead
<1> QED
  BY <1>4, <1>5, <1>6 DEF BarrierOrder

(***************************************************************************)
(* The theorems                                                            *)
(***************************************************************************)
\* The inductive invariant holds in every reachable state.
THEOREM Invariance == Spec => []Inv
<1> QED
  BY InvInit, InvStep, PTL DEF Spec

\* Every variable of the queue keeps its type, whatever is submitted, merged, requeued,
\* killed or ended.
THEOREM TypeCorrect == Spec => []TypeOK
<1>1. Inv => TypeOK
  BY DEF Inv
<1> QED
  BY <1>1, Invariance, PTL

\* Merging, dispatching, draining for a barrier, requeueing and ending never leave a
\* request structure on two lists, on one twice, or on none.
THEOREM EveryRequestOwnedOnce == Spec => []OneOwner
<1>1. Inv => OneOwner
  BY DEF Inv
<1> QED
  BY <1>1, Invariance, PTL

\* The sort list and the fifo of each direction hold the same requests, filed under the
\* sectors they start at.
THEOREM SortListsMatchFifos == Spec => []ListsAgree
<1>1. Inv => ListsAgree
  BY DEF Inv
<1> QED
  BY <1>1, Invariance, PTL

\* next_drq, last_merge and the back-merge hash never lead to a request that has left the
\* sort lists, and no stale generation of the hash survives an insertion.
THEOREM HintsNeverDangle == Spec => []NoDangling
<1>1. Inv => NoDangling
  BY DEF Inv
<1> QED
  BY <1>1, Invariance, PTL

\* ucsb_flag always tells deadline_remove_request the lists a request is on, every queued
\* QoS request has a QoS structure to read its priority from, and ucsb_cnt is right.
THEOREM QosQueueConsistent == Spec => []QosQueueSound
<1>1. Inv => QosQueueSound
  BY DEF Inv
<1> QED
  BY <1>1, Invariance, PTL

\* For every writes_starved and every width of the counter, writes are passed over at most
\* writes_starved times.
THEOREM WritesStarveBoundedly == Spec => []StarvedBound
<1>1. Inv => StarvedBound
  BY DEF Inv
<1> QED
  BY <1>1, Invariance, PTL

\* No sequence of front, back and request merges makes a request longer than max_sectors.
THEOREM RequestsFitDevice == Spec => []SizeBound
<1>1. Inv => SizeBound
  BY DEF Inv
<1> QED
  BY <1>1, Invariance, PTL

\* Whatever is merged, split, requeued, killed or ended, every pending bio is in the chain of
\* exactly one request, once, at the place of its sector; an ended bio is in none.
THEOREM BiosServedOnce == Spec => []BioChains
<1>1. Init => BioChains /\ FreeEmpty
  <2> SUFFICES ASSUME Init PROVE BioChains /\ FreeEmpty
    OBVIOUS
  <2>1. \A r \in Rq : rq[r].bios = <<>> /\ rq[r].nr_sectors = 0
    BY DEF Init, idle
  <2>2. \A r \in Rq : Chain(rq[r]) /\ ids(rq[r].bios) = {}
    BY <2>1, EmptyChain
  <2>3. pending = {} /\ free = Rq
    BY DEF Init
  <2>4. Chains(rq, pending)
    BY <2>2, <2>3 DEF Chains
  <2> QED
    BY <2>1, <2>3, <2>4, ChainsRegrouped DEF FreeEmpty
<1>2. Inv /\ (BioChains /\ FreeEmpty) /\ [Next]_vars => (BioChains /\ FreeEmpty)'
  BY ChainsStep
<1>3. Spec => [](BioChains /\ FreeEmpty)
  BY <1>1, <1>2, Invariance, PTL DEF Spec
<1> QED
  BY <1>3, PTL

\* Between the moment the driver is given a request and the moment it ends it or puts it back,
\* nothing is merged into it, and bios leave it only from the front.
THEOREM StartedRequestsShrink == Spec => StartedOnlyShrinks
<1>1. Inv /\ [Next]_vars
        => [\A r \in (active \cup driver) \cap (active' \cup driver') :
              /\ IsSuffix(rq'[r].bios, rq[r].bios)
              /\ rq'[r].sector + rq'[r].nr_sectors = rq[r].sector + rq[r].nr_sectors]_vars
  BY ShrinkStep DEF Shrunk
<1> QED
  BY <1>1, Invariance, PTL DEF Spec, StartedOnlyShrinks

\* Barriers order the best-effort requests around them: no request holds bios from both sides
\* of one, and the dispatch list, which the driver serves from its head, keeps them apart, for
\* any number of barriers, requeues, QoS requests and special requests in between.
THEOREM BarriersOrderRequests == Spec => []BarrierOrder
<1>1. Spec => []InLine
  BY LineInit, LineStep, Invariance, PTL DEF Spec
<1> QED
  BY <1>1, LineOrders, Invariance, PTL
=============================================================================
