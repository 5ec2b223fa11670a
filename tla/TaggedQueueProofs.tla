------------------------- MODULE TaggedQueueProofs -------------------------
(***************************************************************************)
(* The five records of an outstanding request agree in every behaviour of  *)
(* TaggedQueue, for any depths, any size of the words of tag_map and any   *)
(* requests.                                                               *)
(*                                                                         *)
(* TagsAgree is inductive with three things beside it: the invariant Inv   *)
(* of the queue below, since a request is not tagged twice only because    *)
(* what elv_next_request hands out is not with the driver; the types of    *)
(* the table; and that tags are invalidated only while there is a table.   *)
(* Book is the table t against the set T of the requests that are tagged   *)
(* and their tags tg; each operation on the table keeps it (NewBook,       *)
(* StartBook, DropBook), and TagInv is Book of the variables.              *)
(*                                                                         *)
(* ResetRestarts needs ResetInv beside TagInv: the busy list is what was   *)
(* given to the device, backwards (Given), so the loop of an invalidation  *)
(* puts the last one given back first, and each of the others in front of  *)
(* it (Redoing).  AtFront says where a command that is back is on the      *)
(* dispatch list: it stays there when the list grows at its end, as it     *)
(* does when a barrier that is put back drains the sort lists.             *)
(***************************************************************************)
EXTENDS TaggedQueue, BlockQueueProofs

\* The table t says of the requests T, tagged with tg, what they say of themselves.
Book(t, tg, T) ==
  /\ t.max_depth \in 0 .. 2 * queue_nr_requests /\ t \in blk_queue_tag(t.max_depth)
  /\ t.tag_map = upper_bits(t.max_depth) \cup {tg[r] : r \in T}
  /\ t.busy_list \in List(Rq) /\ ToSet(t.busy_list) = T
  /\ t.busy = Len(t.busy_list)
  /\ \A n \in 0 .. t.max_depth - 1 : {r \in T : tg[r] = n} = {t.tag_index[n]} \ {NULL}
  /\ \A r \in T : tg[r] \in 0 .. t.max_depth - 1

\* The tags are in order, whether the queue is tagged or not.
Booked ==
  /\ ~bug
  /\ tag \in [Rq -> Int]
  /\ tagged \subseteq driver
  /\ tags = NULL => tagged = {} /\ redo = <<>>
  /\ tags # NULL => Book(tags, tag, tagged)

TagInv == Inv /\ Booked

(***************************************************************************)
(* The tags of a table                                                     *)
(***************************************************************************)
\* The words of tag_map hold the depth, and a word of them is within the bits.
LEMMA Words ==
  ASSUME NEW d \in Nat, NEW w, w = d \div BLK_TAGS_PER_LONG,
         NEW top, top = (w + 1) * BLK_TAGS_PER_LONG
  PROVE  /\ w \in 0 .. d /\ top \in Nat /\ d < top
         /\ bits(d) * BLK_TAGS_PER_LONG = top
         /\ \A v \in 0 .. w : /\ v * BLK_TAGS_PER_LONG \in Nat
                              /\ (v + 1) * BLK_TAGS_PER_LONG <= top
                              /\ (v + 1) * BLK_TAGS_PER_LONG \in Nat
<1>1. PICK b : b = BLK_TAGS_PER_LONG /\ b \in Nat \ {0}
  BY TaggedQueueAssumption
<1>2. w \in Nat /\ w * b <= d /\ d < w * b + b
  BY <1>1
<1>3. top = w * b + b
  BY <1>1, <1>2
<1>4. w <= d
  BY <1>1, <1>2
<1>5. ASSUME NEW v \in 0 .. w
      PROVE  v * b \in Nat /\ (v + 1) * b \in Nat /\ (v + 1) * b <= top
  <2>1. PICK k \in Nat : w = v + k
    BY <1>2
  <2>2. v * b \in Nat /\ k * b \in Nat /\ w * b = v * b + k * b /\ (v + 1) * b = v * b + b
    BY <1>1, <2>1
  <2> QED
    BY <1>1, <1>3, <2>2
<1>6. w * b \in Nat
  BY <1>1, <1>2
<1>7. bits(d) * b = top
  BY <1>1 DEF bits
<1> QED
  BY <1>1, <1>2, <1>3, <1>4, <1>5, <1>6, <1>7

\* When the scan does not give up, the first free bit is below the depth.
LEMMA FirstFree ==
  ASSUME tags # NULL, NEW tg, NEW T, Book(tags, tg, T), ~no_tag_left,
         NEW n, n = Min(0 .. bits(tags.max_depth) * BLK_TAGS_PER_LONG \ tags.tag_map)
  PROVE  n \in 0 .. tags.max_depth - 1 /\ n \notin tags.tag_map
<1> DEFINE d == tags.max_depth
<1>0. /\ d \in Nat /\ tags.tag_map = upper_bits(d) \cup {tg[r] : r \in T}
      /\ \A r \in T : tg[r] \in 0 .. d - 1
  BY DEF Book
<1>1. PICK b, w, top : b = BLK_TAGS_PER_LONG /\ w = d \div b /\ top = (w + 1) * b
  OBVIOUS
<1>2. /\ w \in 0 .. d /\ top \in Nat /\ d < top /\ bits(d) * b = top
      /\ \A v \in 0 .. w : v * b \in Nat /\ (v + 1) * b \in Nat /\ (v + 1) * b <= top
  BY <1>0, <1>1, Words
<1>3. tags.tag_map = (d .. top - 1) \cup {tg[r] : r \in T}
  BY <1>0, <1>1, <1>2 DEF upper_bits
<1> DEFINE I == 0 .. top \ tags.tag_map
<1>4. n = Min(I)
  BY <1>1, <1>2
<1>5. I \in SUBSET Nat /\ top \in I
  <2>1. I \in SUBSET Nat /\ top \in 0 .. top
    BY <1>2
  <2>2. top \notin d .. top - 1 /\ top \notin 0 .. d - 1
    BY <1>0, <1>2
  <2> QED
    BY <1>0, <1>3, <2>1, <2>2
<1>6. n \in I /\ \A j \in I : n <= j
  <2> HIDE DEF I
  <2>1. I # {}
    BY <1>5
  <2>2. Min(I) \in I /\ \A j \in I : Min(I) <= j
    BY <1>5, <2>1, MinIsLeast
  <2> QED
    BY <1>4, <2>2
<1>7. n \notin tags.tag_map /\ n \in Nat /\ n <= top
  BY <1>2, <1>6
<1>8. CASE n < d
  BY <1>0, <1>7, <1>8
<1>9. CASE ~(n < d)
  <2>1. 0 .. top - 1 \subseteq tags.tag_map
    <3>1. SUFFICES ASSUME NEW i \in 0 .. top - 1, i \notin tags.tag_map PROVE FALSE
      OBVIOUS
    <3>2. i \in 0 .. top
      BY <1>2
    <3>3. n <= i
      BY <1>6, <3>1, <3>2
    <3>4. i \in d .. top - 1
      BY <1>0, <1>2, <1>7, <1>9, <3>3
    <3> QED
      BY <1>3, <3>1, <3>4
  <2>2. \A v \in 0 .. w : full_word(v)
    <3>1. SUFFICES ASSUME NEW v \in 0 .. w PROVE v * b .. (v + 1) * b - 1 \subseteq 0 .. top - 1
      BY <1>1, <2>1 DEF full_word
    <3>2. PICK x, y : x = v * b /\ y = (v + 1) * b
      OBVIOUS
    <3>3. x \in Nat /\ y \in Nat /\ y <= top
      BY <1>2, <3>2
    <3>4. x .. y - 1 \subseteq 0 .. top - 1
      BY <1>2, <3>3
    <3> QED
      BY <3>2, <3>4
  <2>3. (w + 1) * b >= d
    BY <1>0, <1>1, <1>2
  <2>4. no_tag_left
    BY <1>1, <1>2, <2>2, <2>3 DEF no_tag_left
  <2> QED
    BY <2>4
<1> QED
  BY <1>8, <1>9

\* A table without tags.
LEMMA NewBook ==
  ASSUME NEW d \in 0 .. 2 * queue_nr_requests, NEW tg,
         NEW t, t = [tag_map |-> upper_bits(d), tag_index |-> [n \in 0 .. d - 1 |-> NULL],
                     busy_list |-> <<>>, busy |-> 0, max_depth |-> d]
  PROVE  Book(t, tg, {})
<1>1. d \in Nat /\ upper_bits(d) \in SUBSET Nat
  <2>0. d \in Nat
    BY TaggedQueueAssumption
  <2>1. PICK top : top = bits(d) * BLK_TAGS_PER_LONG
    OBVIOUS
  <2>2. top \in Nat
    BY <2>0, <2>1, Words
  <2> QED
    BY <2>0, <2>1, <2>2 DEF upper_bits
<1>2. <<>> \in List(Rq) /\ ToSet(<<>>) = {} /\ Len(<<>>) = 0
  BY EmptySeq DEF List, IsInjective, ToSet
<1>3. t \in blk_queue_tag(d)
  BY <1>1, <1>2 DEF blk_queue_tag, List
<1> QED
  BY <1>2, <1>3 DEF Book

\* One more request gets a tag that was free.
LEMMA StartBook ==
  ASSUME NEW t, NEW tg \in [Rq -> Int], NEW T \in SUBSET Rq, Book(t, tg, T),
         NEW r \in Rq \ T, NEW n \in 0 .. t.max_depth - 1, n \notin t.tag_map
  PROVE  Book([t EXCEPT !.tag_map = @ \cup {n}, !.tag_index[n] = r,
                        !.busy_list = busy_list_add(@, r), !.busy = @ + 1],
              [tg EXCEPT ![r] = n], T \cup {r})
<1> DEFINE d  == t.max_depth
           L  == <<r>> \o t.busy_list
           x  == [t.tag_index EXCEPT ![n] = r]
           M  == t.tag_map \cup {n}
           c  == t.busy + 1
           t2 == [t EXCEPT !.tag_map = M, !.tag_index = x, !.busy_list = L, !.busy = c]
           g2 == [tg EXCEPT ![r] = n]
           T2 == T \cup {r}
<1>0. /\ d \in Nat /\ d \in 0 .. 2 * queue_nr_requests /\ t \in blk_queue_tag(d) /\ NULL \notin Rq
      /\ t.tag_map = upper_bits(d) \cup {tg[s] : s \in T}
      /\ t.busy_list \in List(Rq) /\ ToSet(t.busy_list) = T /\ t.busy = Len(t.busy_list)
      /\ \A m \in 0 .. d - 1 : {s \in T : tg[s] = m} = {t.tag_index[m]} \ {NULL}
      /\ \A s \in T : tg[s] \in 0 .. d - 1
  BY IoschedAssumption DEF Book
<1>1. /\ t.tag_map \in SUBSET Nat /\ t.tag_index \in [0 .. d - 1 -> Rq \cup {NULL}]
      /\ t.busy \in Nat
  BY <1>0 DEF blk_queue_tag
<1>2. [t EXCEPT !.tag_map = @ \cup {n}, !.tag_index[n] = r,
                !.busy_list = busy_list_add(@, r), !.busy = @ + 1] = t2
  BY Zenon DEF busy_list_add
<1>3. L \in List(Rq) /\ ToSet(L) = T2 /\ Len(L) = c
  BY <1>0, <1>1, PrependList, PrependLen
<1>4. /\ t2.max_depth = d /\ t2.tag_map = M /\ t2.tag_index = x /\ t2.busy_list = L /\ t2.busy = c
      /\ t2 \in blk_queue_tag(d)
  <2>1. M \in SUBSET Nat /\ x \in [0 .. d - 1 -> Rq \cup {NULL}] /\ c \in Nat
    BY <1>0, <1>1
  <2> HIDE DEF M, x, L, c, d
  <2> QED
    BY <1>0, <1>3, <2>1 DEF blk_queue_tag, List
<1> HIDE DEF t2
<1>5. g2[r] = n /\ \A s \in T : g2[s] = tg[s]
  OBVIOUS
<1>6. M = upper_bits(d) \cup {g2[s] : s \in T2}
  <2>1. {g2[s] : s \in T2} = {tg[s] : s \in T} \cup {n}
    BY <1>5
  <2> QED
    BY <1>0, <2>1
<1>7. ASSUME NEW m \in 0 .. d - 1 PROVE {s \in T2 : g2[s] = m} = {x[m]} \ {NULL}
  <2>1. \A s \in T : tg[s] # n
    BY <1>0
  <2>2. {s \in T : tg[s] = m} = {t.tag_index[m]} \ {NULL}
    BY <1>0
  <2>3. CASE m = n
    BY <1>0, <1>1, <1>5, <2>1, <2>3
  <2>4. CASE m # n
    BY <1>0, <1>1, <1>5, <2>2, <2>4
  <2> QED
    BY <2>3, <2>4
<1>8. \A s \in T2 : g2[s] \in 0 .. d - 1
  BY <1>0, <1>5
<1> HIDE DEF M, x, L, c, d, g2, T2
<1>9. Book(t2, g2, T2)
  BY <1>0, <1>3, <1>4, <1>6, <1>7, <1>8 DEF Book
<1> QED
  BY <1>2, <1>9 DEF g2, T2

\* A request gives its tag back.
LEMMA DropBook ==
  ASSUME NEW t, NEW tg \in [Rq -> Int], NEW T \in SUBSET Rq, Book(t, tg, T), NEW r \in T,
         NEW n, n = tg[r]
  PROVE  /\ n \in 0 .. t.max_depth - 1 /\ n \in t.tag_map
         /\ Book(drop_tag(t, n, r), [tg EXCEPT ![r] = -1], T \ {r})
<1> DEFINE d  == t.max_depth
           L  == RemoveFirst(t.busy_list, r)
           x  == [t.tag_index EXCEPT ![n] = NULL]
           M  == t.tag_map \ {n}
           c  == t.busy - 1
           t2 == [t EXCEPT !.tag_map = M, !.tag_index = x, !.busy_list = L, !.busy = c]
           g2 == [tg EXCEPT ![r] = -1]
           T2 == T \ {r}
<1>0. /\ d \in Nat /\ d \in 0 .. 2 * queue_nr_requests /\ t \in blk_queue_tag(d) /\ NULL \notin Rq
      /\ t.tag_map = upper_bits(d) \cup {tg[s] : s \in T}
      /\ t.busy_list \in List(Rq) /\ ToSet(t.busy_list) = T /\ t.busy = Len(t.busy_list)
      /\ \A m \in 0 .. d - 1 : {s \in T : tg[s] = m} = {t.tag_index[m]} \ {NULL}
      /\ \A s \in T : tg[s] \in 0 .. d - 1
  BY IoschedAssumption DEF Book
<1>1. /\ t.tag_map \in SUBSET Nat /\ t.tag_index \in [0 .. d - 1 -> Rq \cup {NULL}]
      /\ t.busy \in Nat /\ n \in 0 .. d - 1 /\ n \in t.tag_map
  BY <1>0 DEF blk_queue_tag
<1>2. drop_tag(t, n, r) = t2
  BY Zenon DEF drop_tag
<1>3. L \in List(Rq) /\ ToSet(L) = T2 /\ Len(L) = c
  BY <1>0, RemoveFirstList, RemoveFirstLen
<1>4. /\ t2.max_depth = d /\ t2.tag_map = M /\ t2.tag_index = x /\ t2.busy_list = L /\ t2.busy = c
      /\ t2 \in blk_queue_tag(d)
  <2>1. M \in SUBSET Nat /\ x \in [0 .. d - 1 -> Rq \cup {NULL}]
    BY <1>1
  <2>2. L \in Seq(Rq) /\ c \in Nat
    BY <1>3, LenProperties DEF List
  <2> HIDE DEF M, x, L, c, d
  <2> QED
    BY <1>0, <2>1, <2>2 DEF blk_queue_tag
<1> HIDE DEF t2
<1>5. \A s \in T2 : g2[s] = tg[s] /\ g2[s] # n
  <2>1. {s \in T : tg[s] = n} = {t.tag_index[n]} \ {NULL}
    BY <1>0, <1>1
  <2> QED
    BY <2>1
<1>6. M = upper_bits(d) \cup {g2[s] : s \in T2}
  <2>1. {g2[s] : s \in T2} = {tg[s] : s \in T} \ {n}
    BY <1>5
  <2>2. n \notin upper_bits(d)
    <3>1. PICK top : top = bits(d) * BLK_TAGS_PER_LONG
      OBVIOUS
    <3>2. n \notin d .. top - 1
      BY <1>0, <1>1
    <3> QED
      BY <3>1, <3>2 DEF upper_bits
  <2> QED
    BY <1>0, <2>1, <2>2
<1>7. ASSUME NEW m \in 0 .. d - 1 PROVE {s \in T2 : g2[s] = m} = {x[m]} \ {NULL}
  <2>1. {s \in T : tg[s] = m} = {t.tag_index[m]} \ {NULL}
    BY <1>0
  <2>2. CASE m = n
    BY <1>1, <1>5, <2>2
  <2>3. CASE m # n
    BY <1>1, <1>5, <2>1, <2>3
  <2> QED
    BY <2>2, <2>3
<1>8. \A s \in T2 : g2[s] \in 0 .. d - 1
  BY <1>0, <1>5
<1> HIDE DEF M, x, L, c, d, g2, T2
<1>9. Book(t2, g2, T2)
  BY <1>0, <1>3, <1>4, <1>6, <1>7, <1>8 DEF Book
<1> QED
  BY <1>1, <1>2, <1>9 DEF g2, T2, d

\* A table is not NULL.
LEMMA BookIsTable ==
  ASSUME NEW t, NEW tg, NEW T, Book(t, tg, T)
  PROVE  t # NULL
BY TaggedQueueAssumption DEF Book

(***************************************************************************)
(* The operations                                                          *)
(***************************************************************************)
\* A step that leaves the tags alone and tags no request.
LEMMA BookedKept ==
  ASSUME Booked, UNCHANGED tag_vars, tagged' = tagged, tagged \subseteq driver'
  PROVE  Booked'
BY DEF Booked, tag_vars

LEMMA SameTagged ==
  ASSUME \A s \in Rq : "REQ_QUEUED" \in rq'[s].flags <=> "REQ_QUEUED" \in rq[s].flags
  PROVE  tagged' = tagged
BY DEF tagged, blk_rq_tagged

\* The operations of the queue that do not look at tags.
LEMMA UntaggedTags ==
  ASSUME TagInv, Untagged
  PROVE  Inv' /\ tagged' = tagged /\ tagged \subseteq driver'
<1>0. /\ Inv /\ Booked /\ RqInv(rq) /\ Owned(q, free, driver, barrier_rq, active)
      /\ UNCHANGED tag_vars /\ tagged \subseteq driver
  BY InvRegrouped DEF TagInv, Untagged, Booked
<1>1. Inv'
  <2>1. Next
    BY DEF Untagged, Next, Drive, Insert
  <2> QED
    BY <1>0, <2>1, InvStep
<1>2. SUFFICES tagged' = tagged /\ tagged \subseteq driver'
  BY <1>1
<1>3. CASE Submit
  <2>1. PICK b \in Bio, dir \in Dirs, sector \in Sectors, barrier \in Barriers, qos \in bi_qos :
          make_request(b, dir, sector, barrier, qos)
    BY <1>3 DEF Submit
  <2>2. PICK bio : bio = [id |-> b, bi_sector |-> sector, bi_qos |-> qos, epoch |-> epoch]
    OBVIOUS
  <2>3. barrier \in BOOLEAN
    BY BlockQueueAssumption
  <2>4. BioQueued(bio)
    BY <1>0, <2>1, <2>2, <2>3, MakeRequestStep
  <2>5. \A s \in driver : s \notin free \cup Sorted(q)
    BY <1>0 DEF Owned, Queued
  <2>6. \A s \in Rq : "REQ_QUEUED" \in rq'[s].flags => "REQ_QUEUED" \in rq[s].flags
    BY <2>4 DEF BioQueued
  <2>7. \A s \in tagged : rq'[s] = rq[s]
    BY <1>0, <2>4, <2>5 DEF BioQueued, tagged
  <2>8. driver' = driver
    BY <2>1 DEF make_request
  <2> QED
    BY <1>0, <2>6, <2>7, <2>8 DEF tagged, blk_rq_tagged
<1>4. CASE elv_next_request
  <2>1. PICK r : rq' = [rq EXCEPT ![r].flags = @ \cup {"REQ_STARTED"}]
    BY <1>4 DEF elv_next_request
  <2>2. \A s \in Rq : rq'[s].flags \in {rq[s].flags, rq[s].flags \cup {"REQ_STARTED"}}
    BY <1>0, <2>1 DEF RqInv, RqRec
  <2>3. driver' = driver
    BY <1>4 DEF elv_next_request
  <2> QED
    BY <1>0, <2>2, <2>3, SameTagged
<1>5. ASSUME NEW r \in Rq, blkdev_dequeue_request(r) PROVE tagged' = tagged /\ tagged \subseteq driver'
  BY <1>0, <1>5, SameTagged DEF blkdev_dequeue_request
<1>6. ASSUME NEW r \in Rq, NEW n \in 1 .. max_sectors, end_that_request_first(r, n)
      PROVE  tagged' = tagged /\ tagged \subseteq driver'
  <2>1. PICK x, y : /\ x = blk_recalc_rq_sectors(rq[r], n)
                    /\ y = [x EXCEPT !.bios = SubSeq(rq[r].bios, n + 1, Len(rq[r].bios))]
    OBVIOUS
  <2>2. rq' = [rq EXCEPT ![r] = y] /\ driver' = driver
    BY <1>6, <2>1 DEF end_that_request_first
  <2>3. x.flags = rq[r].flags /\ x \in [flags : SUBSET Flags, sector : Int, nr_sectors : Int,
                                        bios : Seq(BioRec)]
    <3>1. rq[r] \in RqRec /\ n \in Int
      BY <1>0, BlockQueueAssumption DEF RqInv
    <3>2. PICK k, m : k = rq[r].sector + n /\ m = rq[r].nr_sectors - n
      OBVIOUS
    <3>3. k \in Int /\ m \in Int
      BY <3>1, <3>2 DEF RqRec
    <3>4. x = [rq[r] EXCEPT !.sector = k, !.nr_sectors = m]
      BY <2>1, <3>2 DEF blk_recalc_rq_sectors
    <3> QED
      BY <3>1, <3>3, <3>4 DEF RqRec
  <2>4. y.flags = rq[r].flags
    BY <2>1, <2>3
  <2>5. \A s \in Rq : rq'[s].flags = rq[s].flags
    BY <1>0, <2>2, <2>4 DEF RqInv
  <2> QED
    BY <1>0, <2>2, <2>5, SameTagged
<1>7. ASSUME NEW r \in Rq, NEW at_head \in BOOLEAN, blk_insert_special(r, at_head)
      PROVE  tagged' = tagged /\ tagged \subseteq driver'
  <2>1. PICK y : y = [idle EXCEPT !.flags = {"REQ_SPECIAL", "REQ_SOFTBARRIER"}]
    OBVIOUS
  <2>2. rq' = [rq EXCEPT ![r] = y] /\ driver' = driver /\ r \in free
    BY <1>7, <2>1 DEF blk_insert_special
  <2>3. "REQ_QUEUED" \notin y.flags
    BY <2>1 DEF idle
  <2>4. r \notin tagged
    BY <1>0, <2>2 DEF Owned
  <2>5. \A s \in Rq : "REQ_QUEUED" \in rq'[s].flags <=> "REQ_QUEUED" \in rq[s].flags
    BY <1>0, <2>2, <2>3, <2>4 DEF RqInv, tagged, blk_rq_tagged
  <2> QED
    BY <1>0, <2>2, <2>5, SameTagged
<1> QED
  BY <1>3, <1>4, <1>5, <1>6, <1>7 DEF Untagged

LEMMA UntaggedStep ==
  ASSUME TagInv, Untagged
  PROVE  TagInv'
<1>1. Booked /\ UNCHANGED tag_vars
  BY DEF TagInv, Untagged
<1> QED
  BY <1>1, UntaggedTags, BookedKept DEF TagInv

LEMMA DrainTaggedStep ==
  ASSUME TagInv, insert_barrier_drain, UNCHANGED tag_vars
  PROVE  TagInv'
<1>1. Inv'
  BY DrainStep DEF TagInv
<1>2. tagged' = tagged /\ driver' = driver
  BY SameTagged DEF insert_barrier_drain
<1> QED
  BY <1>1, <1>2, BookedKept DEF TagInv, Booked

LEMMA InitTagsStep ==
  ASSUME TagInv, NEW asked \in Depths, blk_queue_init_tags(asked)
  PROVE  TagInv'
<1>0. /\ Inv /\ Booked /\ UNCHANGED vars /\ UNCHANGED <<tag, redo, bug>>
      /\ tags = NULL /\ redo = <<>>
  BY DEF TagInv, blk_queue_init_tags, unlocked
<1>1. Inv'
  BY <1>0, InvStep
<1>2. PICK d : d = Min({asked, 2 * queue_nr_requests})
  OBVIOUS
<1>3. d \in 0 .. 2 * queue_nr_requests
  <2>1. PICK I : I = {asked, 2 * queue_nr_requests}
    OBVIOUS
  <2>2. I \in SUBSET Nat /\ I # {} /\ 2 * queue_nr_requests \in I
    BY <2>1, TaggedQueueAssumption
  <2>3. Min(I) \in I /\ \A j \in I : Min(I) <= j
    BY <2>2, MinIsLeast
  <2> QED
    BY <1>2, <2>1, <2>2, <2>3
<1>4. Book(tags', tag', {})
  BY <1>2, <1>3, NewBook DEF blk_queue_init_tags
<1>5. tagged' = tagged /\ driver' = driver
  BY <1>0 DEF tagged, blk_rq_tagged, vars
<1>6. tagged = {}
  BY <1>0 DEF Booked
<1>7. Booked'
  BY <1>0, <1>4, <1>5, <1>6, BookIsTable DEF Booked
<1> QED
  BY <1>1, <1>7 DEF TagInv

LEMMA FreeTagsStep ==
  ASSUME TagInv, blk_queue_free_tags
  PROVE  TagInv'
<1>0. /\ Inv /\ Booked /\ UNCHANGED vars /\ UNCHANGED <<tag, redo>>
      /\ tags # NULL /\ redo = <<>> /\ driver = {} /\ tags' = NULL
      /\ bug' = (bug \/ tags.busy # 0 \/ tags.busy_list # <<>>)
  BY DEF TagInv, blk_queue_free_tags, unlocked
<1>1. Inv'
  BY <1>0, InvStep
<1>2. tagged = {} /\ tagged' = {} /\ driver' = driver
  BY <1>0 DEF Booked, tagged, blk_rq_tagged, vars
<1>3. tags.busy_list \in List(Rq) /\ ToSet(tags.busy_list) = {} /\ tags.busy = Len(tags.busy_list)
  BY <1>0, <1>2 DEF Booked, Book
<1>4. tags.busy_list = <<>> /\ tags.busy = 0
  BY <1>3, ListElements, EmptySeq
<1>5. Booked'
  BY <1>0, <1>2, <1>4 DEF Booked
<1> QED
  BY <1>1, <1>5 DEF TagInv

\* A request that elv_next_request handed out is tagged.
LEMMA StartTagStep ==
  ASSUME TagInv, NEW r \in Rq, blk_queue_start_tag(r)
  PROVE  TagInv'
<1>0. /\ RqInv(rq) /\ QInv(q, rq, NULL) /\ Owned(q, free, driver, NULL, active) /\ RestType
      /\ Booked /\ barrier_rq = NULL /\ redo = <<>> /\ tags # NULL /\ r \in active
      /\ r \in ToSet(q.queue_head) /\ WellFormed(q, {}, {}) /\ tagged \subseteq driver
  BY InvRegrouped DEF TagInv, Booked, blk_queue_start_tag, unlocked, lock, Owned, QInv
<1>1. r \in Queued(q) /\ r \notin driver /\ r \notin tagged
  BY <1>0, HeadElsewhere DEF Owned
<1>2. PICK n : n = Min(0 .. bits(tags.max_depth) * BLK_TAGS_PER_LONG \ tags.tag_map)
  OBVIOUS
<1>3. /\ ~no_tag_left
      /\ tags' = [tags EXCEPT !.tag_map = @ \cup {n}, !.tag_index[n] = r,
                              !.busy_list = busy_list_add(@, r), !.busy = @ + 1]
      /\ tag' = [tag EXCEPT ![r] = n]
      /\ rq' = [rq EXCEPT ![r].flags = @ \cup {"REQ_QUEUED"}]
      /\ q' = elv_remove_request(q, r) /\ active' = active \ {r} /\ driver' = driver \cup {r}
      /\ UNCHANGED <<free, barrier_rq, f_qos, pending, epoch, bug, redo>>
  BY <1>1, <1>2 DEF blk_queue_start_tag, tagged
<1>4. Inv'
  <2>1. {"REQ_QUEUED"} \in SUBSET Flags
    BY DEF Flags
  <2>2. SameButFlags(rq, rq')
    BY <1>0, <1>3, <2>1, SetFlags
  <2>3. RqInv(rq') /\ QInv(q, rq', NULL)
    BY <1>0, <2>2, FlagsOnly
  <2>4. /\ QInv(q', rq', NULL) /\ Queued(q') = Queued(q) \ {r}
        /\ ToSet(q'.queue_head) = ToSet(q.queue_head) \ {r}
    BY <1>0, <1>3, <2>3, RemoveFacts
  <2>5. Owned(q', free', driver', NULL, active')
    BY <1>0, <1>1, <1>3, <2>4 DEF Owned
  <2>6. RestType'
    BY <1>0, <1>3 DEF RestType
  <2> QED
    BY <1>0, <1>3, <2>3, <2>4, <2>5, <2>6, InvRegroupedPrime
<1>5. tagged' = tagged \cup {r}
  <2>1. "REQ_QUEUED" \in rq'[r].flags /\ \A s \in Rq \ {r} : rq'[s] = rq[s]
    BY <1>0, <1>3 DEF RqInv, RqRec
  <2> QED
    BY <2>1 DEF tagged, blk_rq_tagged
<1>6. Book(tags', tag', tagged') /\ tag' \in [Rq -> Int]
  <2>1. Book(tags, tag, tagged) /\ tag \in [Rq -> Int] /\ tagged \in SUBSET Rq /\ r \in Rq \ tagged
    BY <1>0, <1>1 DEF Booked, tagged
  <2>2. n \in 0 .. tags.max_depth - 1 /\ n \notin tags.tag_map /\ n \in Int
    <3>1. n \in 0 .. tags.max_depth - 1 /\ n \notin tags.tag_map
      BY <1>0, <1>2, <1>3, <2>1, FirstFree
    <3>2. tags.max_depth \in Int
      BY <2>1, TaggedQueueAssumption DEF Book
    <3> QED
      BY <3>1, <3>2
  <2>3. Book([tags EXCEPT !.tag_map = @ \cup {n}, !.tag_index[n] = r,
                          !.busy_list = busy_list_add(@, r), !.busy = @ + 1],
             [tag EXCEPT ![r] = n], tagged \cup {r})
    BY <2>1, <2>2, StartBook, Zenon
  <2>4. tag' \in [Rq -> Int]
    BY <1>3, <2>1, <2>2
  <2> QED
    BY <1>3, <1>5, <2>3, <2>4
<1>7. Booked'
  BY <1>0, <1>3, <1>5, <1>6, BookIsTable DEF Booked
<1> QED
  BY <1>4, <1>7 DEF TagInv

\* blk_queue_end_tag of a tagged request meets no BUG and leaves the table in order, once
\* the request is no longer marked as tagged.
LEMMA EndTag ==
  ASSUME Booked, NEW r \in tagged, blk_queue_end_tag(r), tagged' = tagged \ {r},
         tagged' \subseteq driver'
  PROVE  Booked'
<1>1. /\ tags # NULL /\ Book(tags, tag, tagged) /\ tag \in [Rq -> Int] /\ tagged \in SUBSET Rq /\ ~bug
      /\ tagged # {} /\ tags.max_depth \in Nat
  BY TaggedQueueAssumption DEF Booked, tagged, Book
<1>2. PICK n : n = tag[r]
  OBVIOUS
<1>3. /\ n \in 0 .. tags.max_depth - 1 /\ n \in tags.tag_map
      /\ Book(drop_tag(tags, n, r), [tag EXCEPT ![r] = -1], tagged \ {r})
  BY <1>1, <1>2, DropBook
<1>4. n # -1 /\ ~(n >= tags.max_depth)
  BY <1>1, <1>3
<1>5. ~not_busy(n)
  BY <1>3, <1>4 DEF not_busy
<1>6. /\ bug' = (bug \/ n = -1)
      /\ tags' = drop_tag(tags, n, r) /\ tag' = [tag EXCEPT ![r] = -1]
  BY <1>2, <1>5 DEF blk_queue_end_tag
<1>7. tag' \in [Rq -> Int] /\ ~bug'
  <2>1. ~bug'
    BY <1>1, <1>4, <1>6, Zenon
  <2>2. -1 \in Int
    OBVIOUS
  <2>3. tag' \in [Rq -> Int]
    BY <1>1, <1>6, <2>2
  <2> QED
    BY <2>1, <2>3
<1>8. Book(tags', tag', tagged')
  BY <1>3, <1>6
<1> QED
  BY <1>7, <1>8, BookIsTable DEF Booked

\* A request that is not tagged leaves the driver.
LEMMA NoTag ==
  ASSUME Booked, UNCHANGED <<tags, tag, bug, redo>>, tagged' = tagged, tagged' \subseteq driver'
  PROVE  Booked'
BY DEF Booked

LEMMA EndTaggedStep ==
  ASSUME TagInv, NEW r \in Rq, end_tagged(r)
  PROVE  TagInv'
<1>0. RqInv(rq) /\ Booked /\ tagged \subseteq driver /\ redo' = redo /\ end_that_request_last(r)
  BY InvRegrouped DEF TagInv, Booked, end_tagged
<1>1. Inv'
  BY <1>0, EndLastStep DEF TagInv
<1>2. rq' = [rq EXCEPT ![r] = idle] /\ driver' = driver \ {r}
  BY <1>0 DEF end_that_request_last
<1>3. tagged' = tagged \ {r} /\ tagged' \subseteq driver'
  <2>1. "REQ_QUEUED" \notin rq'[r].flags /\ \A s \in Rq \ {r} : rq'[s] = rq[s]
    BY <1>0, <1>2 DEF RqInv, idle
  <2> QED
    BY <1>0, <1>2, <2>1 DEF tagged, blk_rq_tagged
<1>4. CASE blk_rq_tagged(r)
  <2>1. r \in tagged /\ blk_queue_end_tag(r)
    BY <1>4 DEF tagged, end_tagged
  <2> QED
    BY <1>0, <1>1, <1>3, <2>1, EndTag DEF TagInv
<1>5. CASE ~blk_rq_tagged(r)
  <2>1. UNCHANGED <<tags, tag, bug, redo>> /\ tagged' = tagged
    BY <1>0, <1>3, <1>5 DEF tagged, end_tagged
  <2> QED
    BY <1>0, <1>1, <1>3, <2>1, NoTag DEF TagInv
<1> QED
  BY <1>4, <1>5

\* Flags of r were changed, and its tag was taken off: r is off the queue, then back on it.
LEMMA PutBackTagged ==
  ASSUME TagInv, lock, NEW r \in driver, NEW f \in SUBSET (Flags \ {"REQ_QUEUED"}),
         rq' = [rq EXCEPT ![r].flags = f], NEW at_head \in BOOLEAN,
         deadline_insert_request(q, rq', r, at_head), driver' = driver \ {r},
         UNCHANGED <<free, active, f_qos, pending, epoch>>
  PROVE  Inv' /\ tagged' = tagged \ {r} /\ tagged' \subseteq driver'
<1>0. Inv /\ RqInv(rq) /\ Owned(q, free, driver, barrier_rq, active) /\ tagged \subseteq driver
  BY InvRegrouped DEF TagInv, Booked
<1>1. r \in Rq /\ r \notin free /\ free' = free \ {r}
  BY <1>0 DEF Owned
<1>2. /\ rq'[r].flags = f /\ \A s \in Rq \ {r} : rq'[s] = rq[s]
      /\ SameButFlags(rq, rq')
  BY <1>0, <1>1 DEF RqInv, RqRec, SameButFlags
<1>3. RqInv(rq')
  BY <1>0, <1>2, FlagsOnly
<1>4. Inv'
  BY <1>0, <1>1, <1>2, <1>3, PutBackStep
<1>5. tagged' = tagged \ {r}
  BY <1>2 DEF tagged, blk_rq_tagged
<1> QED
  BY <1>0, <1>4, <1>5

LEMMA RequeueTaggedStep ==
  ASSUME TagInv, NEW r \in Rq, NEW at_head \in BOOLEAN, requeue_tagged(r, at_head)
  PROVE  TagInv'
<1>0. /\ RqInv(rq) /\ Booked /\ lock /\ r \in driver /\ driver' = driver \ {r}
      /\ UNCHANGED <<free, active, f_qos, pending, epoch, redo>>
      /\ deadline_insert_request(q, rq', r, at_head)
  BY InvRegrouped DEF TagInv, requeue_tagged, unlocked
<1>1. PICK f : f = (rq[r].flags \ {"REQ_QUEUED"}) \cup {"REQ_SPECIAL", "REQ_SOFTBARRIER"}
  OBVIOUS
<1>2. rq' = [rq EXCEPT ![r].flags = f]
  BY <1>1 DEF requeue_tagged
<1>3. f \in SUBSET (Flags \ {"REQ_QUEUED"})
  <2>1. rq[r].flags \subseteq Flags
    BY <1>0 DEF RqInv, RqRec
  <2> QED
    BY <1>1, <2>1 DEF Flags
<1>4. Inv' /\ tagged' = tagged \ {r} /\ tagged' \subseteq driver'
  BY <1>0, <1>2, <1>3, PutBackTagged
<1>5. CASE blk_rq_tagged(r)
  <2>1. r \in tagged /\ blk_queue_end_tag(r)
    BY <1>5 DEF tagged, requeue_tagged
  <2> QED
    BY <1>0, <1>4, <2>1, EndTag DEF TagInv
<1>6. CASE ~blk_rq_tagged(r)
  <2>1. UNCHANGED <<tags, tag, bug, redo>> /\ tagged' = tagged
    BY <1>0, <1>4, <1>6 DEF tagged, requeue_tagged
  <2> QED
    BY <1>0, <1>4, <2>1, NoTag DEF TagInv
<1> QED
  BY <1>5, <1>6

\* The first request of the busy list has a tag: the loop always goes through
\* blk_queue_end_tag.
LEMMA InvalidateFacts ==
  ASSUME TagInv, invalidate_next, NEW r, r = Head(tags.busy_list)
  PROVE  /\ r \in tagged /\ r \in Rq /\ r \in driver /\ lock /\ redo # <<>> /\ tags # NULL
         /\ tags.busy_list \in List(Rq) /\ ToSet(tags.busy_list) = tagged /\ tags.busy_list # <<>>
         /\ blk_queue_end_tag(r)
         /\ rq' = [rq EXCEPT ![r].flags = @ \ {"REQ_QUEUED", "REQ_STARTED"}]
         /\ deadline_insert_request(q, rq', r, TRUE)
         /\ driver' = driver \ {r} /\ UNCHANGED <<free, active, f_qos, pending, epoch, redo>>
         /\ Inv' /\ tagged' = tagged \ {r} /\ tagged' \subseteq driver'
<1>2. /\ RqInv(rq) /\ Booked /\ lock /\ redo # <<>> /\ tags.busy_list # <<>>
      /\ IF tag[r] = -1
         THEN tags' = [tags EXCEPT !.busy_list = Tail(@)] /\ UNCHANGED <<tag, given, bug>>
         ELSE blk_queue_end_tag(r)
      /\ rq' = [rq EXCEPT ![r] = untagged(@)]
      /\ deadline_insert_request(q, rq', r, TRUE)
      /\ driver' = driver \ {r}
      /\ UNCHANGED <<free, active, f_qos, pending, epoch, redo>>
  BY InvRegrouped DEF TagInv, invalidate_next
<1>3. tags # NULL /\ Book(tags, tag, tagged) /\ tagged \subseteq driver
  BY <1>2 DEF Booked
<1>4. /\ r \in tagged /\ r \in Rq /\ r \in driver
      /\ tags.busy_list \in List(Rq) /\ ToSet(tags.busy_list) = tagged
  <2>1. tags.busy_list \in List(Rq) /\ ToSet(tags.busy_list) = tagged
    BY <1>3 DEF Book
  <2>2. r \in ToSet(tags.busy_list)
    BY <1>2, <2>1, TailList
  <2> QED
    BY <1>3, <2>1, <2>2 DEF tagged
<1>5. blk_queue_end_tag(r)
  <2>1. tag[r] \in 0 .. tags.max_depth - 1 /\ tags.max_depth \in Int
    BY <1>3, <1>4, TaggedQueueAssumption DEF Book
  <2>2. tag[r] # -1
    BY <2>1
  <2> QED
    BY <1>2, <2>2
<1>6. PICK f : f = rq[r].flags \ {"REQ_QUEUED", "REQ_STARTED"}
  OBVIOUS
<1>7. /\ rq' = [rq EXCEPT ![r].flags = f] /\ f \in SUBSET (Flags \ {"REQ_QUEUED"})
      /\ rq' = [rq EXCEPT ![r].flags = @ \ {"REQ_QUEUED", "REQ_STARTED"}]
  <2>1. rq[r].flags \subseteq Flags
    BY <1>2, <1>4 DEF RqInv, RqRec
  <2>2. rq' = [rq EXCEPT ![r].flags = @ \ {"REQ_QUEUED", "REQ_STARTED"}]
    BY <1>2, Zenon DEF untagged
  <2>3. rq' = [rq EXCEPT ![r].flags = f]
    BY <1>6, <2>2, Zenon
  <2> QED
    BY <1>6, <2>1, <2>2, <2>3
<1>8. PICK at_head \in BOOLEAN : at_head = TRUE
  OBVIOUS
<1>9. Inv' /\ tagged' = tagged \ {r} /\ tagged' \subseteq driver'
  BY <1>2, <1>4, <1>7, <1>8, PutBackTagged
<1> QED
  BY <1>2, <1>3, <1>4, <1>5, <1>7, <1>9

LEMMA InvalidateStep ==
  ASSUME TagInv, invalidate_next
  PROVE  TagInv'
<1>1. PICK r : r = Head(tags.busy_list)
  OBVIOUS
<1>2. r \in tagged /\ blk_queue_end_tag(r) /\ Inv' /\ tagged' = tagged \ {r} /\ tagged' \subseteq driver'
  BY <1>1, InvalidateFacts
<1> QED
  BY <1>2, EndTag DEF TagInv

\* The loop begins and ends with nothing but redo changed, and begins only with a table.
LEMMA InvalidateEnds ==
  ASSUME TagInv, invalidate_begin \/ invalidate_end
  PROVE  TagInv'
<1>1. UNCHANGED vars /\ UNCHANGED <<tags, tag, bug>>
  BY DEF invalidate_begin, invalidate_end
<1>2. Inv'
  BY <1>1, InvStep DEF TagInv
<1>3. tagged' = tagged /\ driver' = driver
  BY <1>1 DEF tagged, blk_rq_tagged, vars
<1>4. tags = NULL => redo' = <<>>
  BY DEF invalidate_begin, invalidate_end
<1> QED
  BY <1>1, <1>2, <1>3, <1>4 DEF TagInv, Booked

(***************************************************************************)
(* The theorems                                                            *)
(***************************************************************************)
LEMMA TagInvInit == TInit => TagInv
<1> SUFFICES ASSUME TInit PROVE TagInv
  OBVIOUS
<1>1. Inv
  BY InvInit DEF TInit
<1>2. tagged = {}
  BY DEF TInit, Init, idle, tagged, blk_rq_tagged
<1>3. Booked
  BY <1>2 DEF TInit, Booked
<1> QED
  BY <1>1, <1>3 DEF TagInv

LEMMA TagInvStep == TagInv /\ [TNext]_all_vars => TagInv'
<1> SUFFICES ASSUME TagInv, [TNext]_all_vars PROVE TagInv'
  OBVIOUS
<1>1. CASE Untagged
  BY <1>1, UntaggedStep
<1>2. CASE insert_barrier_drain /\ UNCHANGED tag_vars
  BY <1>2, DrainTaggedStep
<1>3. ASSUME NEW depth \in Depths, blk_queue_init_tags(depth) PROVE TagInv'
  BY <1>3, InitTagsStep
<1>4. CASE blk_queue_free_tags
  BY <1>4, FreeTagsStep
<1>5. CASE Tagged
  <2>1. ASSUME NEW r \in Rq, blk_queue_start_tag(r) PROVE TagInv'
    BY <2>1, StartTagStep
  <2>2. ASSUME NEW r \in Rq, end_tagged(r) PROVE TagInv'
    BY <2>2, EndTaggedStep
  <2>3. ASSUME NEW r \in Rq, NEW at_head \in BOOLEAN, requeue_tagged(r, at_head) PROVE TagInv'
    BY <2>3, RequeueTaggedStep
  <2> QED
    BY <1>5, <2>1, <2>2, <2>3 DEF Tagged
<1>6. CASE invalidate_begin \/ invalidate_end
  BY <1>6, InvalidateEnds
<1>7. CASE invalidate_next
  BY <1>7, InvalidateStep
<1>8. CASE UNCHANGED all_vars
  <2>1. UNCHANGED vars /\ UNCHANGED tag_vars
    BY <1>8 DEF all_vars
  <2>2. Inv'
    BY <2>1, InvStep DEF TagInv
  <2>3. tagged' = tagged /\ driver' = driver
    BY <2>1 DEF tagged, blk_rq_tagged, vars
  <2> QED
    BY <2>1, <2>2, <2>3, BookedKept DEF TagInv, Booked
<1> QED
  BY <1>1, <1>2, <1>3, <1>4, <1>5, <1>6, <1>7, <1>8 DEF TNext

\* The queue under tagging keeps its own invariant, and the tags theirs.
THEOREM TagInvariant == TSpec => []TagInv
BY TagInvInit, TagInvStep, PTL DEF TSpec

\* Whatever order requests are started, ended, put back or invalidated in, tag_map,
\* tag_index, rq->tag, busy_list and busy tell the same story of every outstanding request,
\* and none of the BUG_ONs of the tagging code is hit.
THEOREM TagRecordsAgree == TSpec => []TagsAgree
<1>1. TagInv => TagsAgree
  BY DEF TagInv, Booked, Book, TagsAgree, List
<1> QED
  BY <1>1, TagInvariant, PTL

\* blk_queue_find_tag of a tag the device may return finds the request that carries it.
THEOREM TagFindsRequest == TSpec => []AnswersMatched
<1>1. TagInv => AnswersMatched
  <2> SUFFICES ASSUME TagInv, NEW r \in tagged PROVE blk_queue_find_tag(tag[r]) = r
    BY DEF AnswersMatched
  <2>1. /\ tags # NULL /\ Book(tags, tag, tagged) /\ r \in Rq
    BY DEF TagInv, Booked, tagged
  <2>2. PICK n : n = tag[r]
    OBVIOUS
  <2>3. /\ n \in 0 .. tags.max_depth - 1 /\ tags.max_depth \in Int
        /\ {s \in tagged : tag[s] = n} = {tags.tag_index[n]} \ {NULL}
    BY <2>1, <2>2, TaggedQueueAssumption DEF Book
  <2>4. tags.tag_index[n] = r
    BY <2>2, <2>3
  <2>5. ~(tags.max_depth < n)
    BY <2>3
  <2> QED
    BY <2>1, <2>2, <2>4, <2>5 DEF blk_queue_find_tag
<1> QED
  BY <1>1, TagInvariant, PTL

(***************************************************************************)
(* A reset: what was outstanding goes back in order                        *)
(***************************************************************************)
\* The pairs <<x, y>> of s with x after y.
later(s) == {p \in Rq \X Rq : before(s, p[2], p[1])}

\* r is in h, and ahead of it only requests of D that L says it comes after.
AtFront(h, D, L, r) ==
  \E k \in DOMAIN h : h[k] = r /\ \A i \in 1 .. k - 1 : h[i] \in D /\ <<r, h[i]>> \in L

\* Only file system requests are barriers: a command is never held up to drain the queue.
HardCmds(rr) ==
  \A r \in Rq : "REQ_HARDBARRIER" \in rr[r].flags => "REQ_CMD" \in rr[r].flags

\* The busy list is what was given to the device, the last one first.
Given ==
  /\ given \in List(Rq) /\ ToSet(given) = tagged
  /\ tags # NULL => InOrder(tags.busy_list, later(given))

\* The requests an invalidation has put back.
back == ToSet(redo) \ tagged
back_commands == {r \in back : ~blk_fs_request(rq, r)}

\* In the middle of an invalidation: the last ones given are back, the busy list is what is
\* left, and the commands that are back lead the dispatch list.
Redoing ==
  redo # <<>> =>
    /\ tags # NULL /\ redo \in List(Rq) /\ tagged \subseteq ToSet(redo)
    /\ InOrder(tags.busy_list, later(redo))
    /\ \A r \in back : /\ r \notin free \cup driver /\ "REQ_STARTED" \notin rq[r].flags
                       /\ \A s \in tagged : <<r, s>> \in later(redo)
    /\ \A r \in back_commands : AtFront(q.queue_head, back_commands, later(redo), r)

ResetInv == Given /\ HardCmds(rq) /\ Redoing

LEMMA LaterAppend ==
  ASSUME NEW s \in List(Rq), NEW e \in Rq, NEW t, t = Append(s, e)
  PROVE  /\ later(s) \subseteq later(t)
         /\ \A x \in ToSet(s) : <<e, x>> \in later(t)
<1>0. s \in Seq(Rq) /\ Len(s) \in Nat /\ DOMAIN s = 1 .. Len(s)
  BY LenProperties DEF List
<1>1. /\ DOMAIN t = 1 .. Len(s) + 1
      /\ \A j \in 1 .. Len(s) : t[j] = s[j]
      /\ t[Len(s) + 1] = e
  BY <1>0, AppendProperties, LenProperties
<1>2. ASSUME NEW x, NEW y, before(s, x, y) PROVE before(t, x, y)
  <2>1. PICK i, j \in DOMAIN s : i < j /\ s[i] = x /\ s[j] = y
    BY <1>2 DEF before
  <2>2. i \in DOMAIN t /\ j \in DOMAIN t
    BY <1>0, <1>1
  <2> QED
    BY <1>0, <1>1, <2>1, <2>2 DEF before
<1>3. ASSUME NEW x \in ToSet(s) PROVE x \in Rq /\ before(t, x, e)
  <2>1. PICK i \in DOMAIN s : s[i] = x
    BY DEF ToSet
  <2>2. i \in DOMAIN t /\ Len(s) + 1 \in DOMAIN t /\ i < Len(s) + 1 /\ t[i] = x
    BY <1>0, <1>1, <2>1
  <2> QED
    BY <1>0, <1>1, <2>1, <2>2 DEF before
<1> QED
  BY <1>2, <1>3 DEF later

LEMMA LaterRemove ==
  ASSUME NEW s \in List(Rq), NEW e, NEW x, NEW y, x # e, y # e, <<x, y>> \in later(s)
  PROVE  <<x, y>> \in later(RemoveFirst(s, e))
<1>1. CASE e \notin ToSet(s)
  BY <1>1, RemoveFirstList
<1>2. CASE e \in ToSet(s)
  <2>1. PICK n \in 1 .. Len(s) : s[n] = e /\ RemoveFirst(s, e) = RemoveAt(s, n)
    BY <1>2, RemoveFirstAt
  <2>2. PICK t : t = RemoveAt(s, n)
    OBVIOUS
  <2>3. /\ t \in List(Rq) /\ Len(t) = Len(s) - 1
        /\ \A j \in 1 .. Len(s) - 1 : t[j] = IF j < n THEN s[j] ELSE s[j + 1]
    BY <2>2, RemoveAtList
  <2>4. Len(s) \in Nat /\ n \in Int /\ DOMAIN s = 1 .. Len(s) /\ DOMAIN t = 1 .. Len(s) - 1
    BY <2>3, LenProperties DEF List
  <2>5. x \in Rq /\ y \in Rq /\ \E i, j \in DOMAIN s : i < j /\ s[i] = y /\ s[j] = x
    BY DEF later, before
  <2>6. PICK i, j \in DOMAIN s : i < j /\ s[i] = y /\ s[j] = x
    BY <2>5
  <2> DEFINE at(k) == IF k < n THEN k ELSE k - 1
  <2>7. i # n /\ j # n
    BY <2>1, <2>6
  <2>8. /\ at(i) \in 1 .. Len(s) - 1 /\ at(j) \in 1 .. Len(s) - 1 /\ at(i) < at(j)
        /\ (IF at(i) < n THEN at(i) ELSE at(i) + 1) = i
        /\ (IF at(j) < n THEN at(j) ELSE at(j) + 1) = j
    BY <2>4, <2>6, <2>7
  <2>9. t[at(i)] = y /\ t[at(j)] = x
    <3> HIDE DEF at
    <3> QED
      BY <2>3, <2>6, <2>8
  <2>10. before(t, y, x)
    <3> HIDE DEF at
    <3> QED
      BY <2>4, <2>8, <2>9 DEF before
  <2> QED
    BY <2>1, <2>2, <2>5, <2>10 DEF later
<1> QED
  BY <1>1, <1>2

\* The dispatch list grows at its end...
LEMMA FrontAppend ==
  ASSUME NEW h \in List(Rq), NEW D, NEW L, NEW r, AtFront(h, D, L, r), NEW e \in Rq
  PROVE  AtFront(Append(h, e), D, L, r)
<1>0. h \in Seq(Rq) /\ Len(h) \in Nat /\ DOMAIN h = 1 .. Len(h)
  BY LenProperties DEF List
<1>1. PICK t : t = Append(h, e)
  OBVIOUS
<1>2. DOMAIN t = 1 .. Len(h) + 1 /\ \A j \in 1 .. Len(h) : t[j] = h[j]
  BY <1>0, <1>1, AppendProperties, LenProperties
<1>3. PICK k \in DOMAIN h : h[k] = r /\ \A i \in 1 .. k - 1 : h[i] \in D /\ <<r, h[i]>> \in L
  BY DEF AtFront
<1>4. k \in DOMAIN t /\ t[k] = r
  BY <1>0, <1>2, <1>3
<1>5. ASSUME NEW i \in 1 .. k - 1 PROVE t[i] \in D /\ <<r, t[i]>> \in L
  <2>1. i \in 1 .. Len(h)
    BY <1>0
  <2> QED
    BY <1>2, <1>3, <2>1
<1> QED
  BY <1>1, <1>4, <1>5 DEF AtFront

\* ... or takes one at its front that may come before what it comes before.
LEMMA FrontPrepend ==
  ASSUME NEW h \in List(Rq), NEW D, NEW L, NEW r, AtFront(h, D, L, r), NEW e \in Rq,
         NEW E, D \subseteq E, e \in E, <<r, e>> \in L
  PROVE  AtFront(<<e>> \o h, E, L, r)
<1>0. h \in Seq(Rq) /\ <<e>> \in Seq(Rq) /\ Len(<<e>>) = 1
  BY DEF List
<1>1. PICK t, n : t = <<e>> \o h /\ n = Len(h)
  OBVIOUS
<1>2. /\ n \in Nat /\ DOMAIN h = 1 .. n /\ DOMAIN t = 1 .. 1 + n
      /\ \A i \in 1 .. n : t[i + 1] = h[i]
      /\ t[1] = e
  BY <1>0, <1>1, ConcatParts
<1>3. PICK k \in DOMAIN h : h[k] = r /\ \A i \in 1 .. k - 1 : h[i] \in D /\ <<r, h[i]>> \in L
  BY DEF AtFront
<1>4. k + 1 \in DOMAIN t /\ t[k + 1] = r
  BY <1>2, <1>3
<1>5. ASSUME NEW i \in 1 .. k + 1 - 1 PROVE t[i] \in E /\ <<r, t[i]>> \in L
  <2>1. CASE i = 1
    BY <1>2, <2>1
  <2>2. CASE i # 1
    <3>1. PICK j \in 1 .. k - 1 : i = j + 1
      BY <1>2, <2>2
    <3>2. j \in 1 .. n
      BY <1>2
    <3> QED
      BY <1>2, <1>3, <3>1, <3>2
  <2> QED
    BY <2>1, <2>2
<1> QED
  BY <1>1, <1>4, <1>5 DEF AtFront

\* What was just put at the front is there.
LEMMA FrontFirst ==
  ASSUME NEW h \in List(Rq), NEW D, NEW L, NEW r \in Rq
  PROVE  AtFront(<<r>> \o h, D, L, r)
<1>0. h \in Seq(Rq) /\ <<r>> \in Seq(Rq) /\ Len(<<r>>) = 1
  BY DEF List
<1>1. PICK t, n : t = <<r>> \o h /\ n = Len(h)
  OBVIOUS
<1>2. n \in Nat /\ DOMAIN t = 1 .. 1 + n /\ t[1] = r
  BY <1>0, <1>1, ConcatParts
<1>3. 1 \in DOMAIN t /\ t[1] = r /\ 1 .. 1 - 1 = {}
  BY <1>2
<1> QED
  BY <1>1, <1>3 DEF AtFront

\* A step that leaves the tags alone and tags no request.
LEMMA GivenKept ==
  ASSUME Given, UNCHANGED <<tags, given>>, tagged' = tagged
  PROVE  Given'
BY DEF Given, later

\* Turning tagging on or off finds nothing outstanding.
LEMMA GivenNone ==
  ASSUME Given, given' = given, tagged = {}, tagged' = {},
         tags' # NULL => tags'.busy_list = <<>>
  PROVE  Given'
BY EmptyInOrder DEF Given

\* One more request is given to the device, and is first on the busy list.
LEMMA GivenMore ==
  ASSUME Given, tags # NULL, tags.busy_list \in List(Rq), ToSet(tags.busy_list) = tagged,
         NEW r \in Rq, r \notin tagged, tagged' = tagged \cup {r}, given' = Append(given, r),
         tags'.busy_list = <<r>> \o tags.busy_list
  PROVE  Given'
<1>1. PICK s, t : s = tags.busy_list /\ t = given'
  OBVIOUS
<1>2. /\ given \in List(Rq) /\ ToSet(given) = tagged /\ InOrder(s, later(given)) /\ s \in List(Rq)
      /\ t = Append(given, r) /\ ToSet(s) = tagged
  BY <1>1 DEF Given
<1>3. t \in List(Rq) /\ ToSet(t) = tagged'
  BY <1>2, AppendList
<1>4. later(given) \subseteq later(t) /\ \A x \in ToSet(given) : <<r, x>> \in later(t)
  BY <1>2, LaterAppend
<1>5. InOrder(s, later(t))
  BY <1>2, <1>4, OrderWithin
<1>6. InOrder(<<r>> \o s, later(t))
  BY <1>2, <1>4, <1>5, PrependInOrder
<1> QED
  BY <1>1, <1>3, <1>6 DEF Given, later

\* A request is done with: it leaves the busy list and what was given to the device.
LEMMA GivenLess ==
  ASSUME Booked, Given, NEW r \in tagged, blk_queue_end_tag(r), tagged' = tagged \ {r}
  PROVE  Given' /\ tags' # NULL /\ tags'.busy_list = RemoveFirst(tags.busy_list, r)
<1>1. /\ tags # NULL /\ Book(tags, tag, tagged) /\ tag \in [Rq -> Int] /\ tagged \in SUBSET Rq
      /\ tagged # {} /\ tags.max_depth \in Nat
  BY TaggedQueueAssumption DEF Booked, tagged, Book
<1>2. PICK n, s : n = tag[r] /\ s = tags.busy_list
  OBVIOUS
<1>3. /\ n \in 0 .. tags.max_depth - 1 /\ n \in tags.tag_map
      /\ Book(drop_tag(tags, n, r), [tag EXCEPT ![r] = -1], tagged \ {r})
  BY <1>1, <1>2, DropBook
<1>4. ~(n >= tags.max_depth)
  BY <1>1, <1>3
<1>5. ~not_busy(n)
  BY <1>3, <1>4 DEF not_busy
<1>6. tags' = drop_tag(tags, n, r) /\ given' = RemoveFirst(given, r)
  BY <1>2, <1>5 DEF blk_queue_end_tag
<1>7. tags' # NULL /\ tags'.busy_list = RemoveFirst(s, r)
  <2>1. tags' # NULL
    BY <1>3, <1>6, BookIsTable
  <2>2. tags \in blk_queue_tag(tags.max_depth)
    BY <1>1 DEF Book
  <2> QED
    BY <1>2, <1>6, <2>1, <2>2 DEF drop_tag, blk_queue_tag
<1>8. /\ given \in List(Rq) /\ ToSet(given) = tagged /\ InOrder(s, later(given))
      /\ s \in List(Rq)
  BY <1>1, <1>2 DEF Given, Book
<1>9. PICK t : t = RemoveFirst(given, r)
  OBVIOUS
<1>10. t \in List(Rq) /\ ToSet(t) = tagged'
  BY <1>8, <1>9, RemoveFirstList
<1>11. InOrder(RemoveFirst(s, r), later(t))
  <2>1. PICK u : u = RemoveFirst(s, r)
    OBVIOUS
  <2>2. u \in List(Rq) /\ ToSet(u) = ToSet(s) \ {r} /\ InOrder(u, later(given))
    BY <1>8, <2>1, RemoveFirstList, RemoveInOrder
  <2>3. ASSUME NEW x \in ToSet(u), NEW y \in ToSet(u), <<x, y>> \in later(given)
        PROVE  <<x, y>> \in later(t)
    BY <1>8, <1>9, <2>2, <2>3, LaterRemove
  <2> QED
    BY <2>1, <2>2, <2>3, OrderWithin
<1> QED
  BY <1>2, <1>6, <1>7, <1>9, <1>10, <1>11 DEF Given, later

\* Which requests are barriers does not depend on what else is in a request.
Shaped(x) == x = [flags |-> x.flags, sector |-> x.sector, nr_sectors |-> x.nr_sectors, bios |-> x.bios]
SameFlags(rr, ss) ==
  DOMAIN ss = Rq /\ \A r \in Rq : Shaped(ss[r]) /\ ss[r].flags = rr[r].flags

LEMMA SameFlagsHard ==
  ASSUME NEW rr, NEW ss, HardCmds(rr), SameFlags(rr, ss)
  PROVE  HardCmds(ss)
BY DEF HardCmds, SameFlags

LEMMA GetRqHard ==
  ASSUME NEW qq, NEW rr, HardCmds(rr), DOMAIN rr = Rq, NEW bio, NEW dir, NEW barrier,
         get_rq(qq, rr, bio, dir, barrier)
  PROVE  HardCmds(rq')
<1>1. CASE rq' = rr
  BY <1>1 DEF HardCmds
<1>2. ASSUME NEW r, NEW f, NEW new, "REQ_CMD" \in f,
             new = [flags |-> f, sector |-> bio.bi_sector, nr_sectors |-> 1, bios |-> <<bio>>],
             rq' = [rr EXCEPT ![r] = new]
      PROVE  HardCmds(rq')
  <2>1. new.flags = f
    BY <1>2
  <2>2. \A s \in Rq : rq'[s] \in {rr[s], new}
    BY <1>2
  <2> QED
    BY <1>2, <2>1, <2>2 DEF HardCmds
<1>3. CASE \E r \in free : rq' = [rr EXCEPT ![r] =
             [flags |-> {"REQ_CMD"} \cup (IF barrier THEN {"REQ_HARDBARRIER", "REQ_NOMERGE"} ELSE {}),
              sector |-> bio.bi_sector, nr_sectors |-> 1, bios |-> <<bio>>]]
  <2>1. PICK r, f : /\ "REQ_CMD" \in f
                    /\ rq' = [rr EXCEPT ![r] = [flags |-> f, sector |-> bio.bi_sector,
                                                nr_sectors |-> 1, bios |-> <<bio>>]]
    BY <1>3
  <2> QED
    BY <1>2, <2>1
<1> QED
  BY <1>1, <1>3 DEF get_rq

LEMMA MergedHard ==
  ASSUME NEW qq, NEW rr, HardCmds(rr), DOMAIN rr = Rq, \A s \in Rq : Shaped(rr[s]),
         NEW r, NEW req, NEW next, merged(qq, rr, r, req, next)
  PROVE  HardCmds(rq')
<1>1. CASE rq' = rr
  BY <1>1 DEF HardCmds
<1>2. ASSUME NEW n, NEW b, NEW big, big = [rr EXCEPT ![req].nr_sectors = n, ![req].bios = b],
             rq' = [big EXCEPT ![next] = idle]
      PROVE  HardCmds(rq')
  <2>1. SameFlags(rr, big)
    <3>1. DOMAIN big = Rq /\ \A s \in Rq \ {req} : big[s] = rr[s]
      BY <1>2
    <3>2. ASSUME req \in Rq PROVE Shaped(big[req]) /\ big[req].flags = rr[req].flags
      <4>1. big[req] = [rr[req] EXCEPT !.nr_sectors = n, !.bios = b]
        BY <1>2, <3>2
      <4>2. rr[req] = [flags |-> rr[req].flags, sector |-> rr[req].sector,
                       nr_sectors |-> rr[req].nr_sectors, bios |-> rr[req].bios]
        BY <3>2 DEF Shaped
      <4>3. big[req] = [flags |-> rr[req].flags, sector |-> rr[req].sector, nr_sectors |-> n, bios |-> b]
        BY <4>1, <4>2
      <4> QED
        BY <4>3 DEF Shaped
    <3> QED
      BY <3>1, <3>2 DEF SameFlags
  <2>2. HardCmds(big)
    BY <2>1, SameFlagsHard
  <2>3. \A s \in Rq : rq'[s] \in {big[s], idle}
    BY <1>2, <2>1 DEF SameFlags
  <2>4. idle.flags = {}
    BY DEF idle
  <2> QED
    BY <2>2, <2>3, <2>4 DEF HardCmds
<1>3. CASE rq' = [[rr EXCEPT ![req].nr_sectors = @ + rr[next].nr_sectors,
                             ![req].bios = @ \o rr[next].bios] EXCEPT ![next] = idle]
  <2>1. PICK n, b : /\ n = rr[req].nr_sectors + rr[next].nr_sectors
                    /\ b = rr[req].bios \o rr[next].bios
    OBVIOUS
  <2>2. rq' = [[rr EXCEPT ![req].nr_sectors = n, ![req].bios = b] EXCEPT ![next] = idle]
    BY <1>3, <2>1
  <2> QED
    BY <1>2, <2>2
<1> QED
  BY <1>1, <1>3 DEF merged

LEMMA SubmitHard ==
  ASSUME RqInv(rq), HardCmds(rq), NEW b, NEW dir, NEW sector, NEW barrier, NEW qos,
         make_request(b, dir, sector, barrier, qos)
  PROVE  HardCmds(rq')
<1>1. PICK bio : bio = [id |-> b, bi_sector |-> sector, bi_qos |-> qos, epoch |-> epoch]
  OBVIOUS
<1>2. DOMAIN rq = Rq /\ \A s \in Rq : Shaped(rq[s])
  BY DEF RqInv, RqRec, Shaped
<1>3. CASE get_rq(q, rq, bio, dir, barrier)
  BY <1>2, <1>3, GetRqHard
<1>4. CASE elv_merge(bio, dir)
  <2>1. PICK m : \/ /\ m.ret # "NO_MERGE" /\ may_grow(m.req)
                    /\ IF m.ret = "BACK_MERGE" THEN back_merge(m.q, m.req, bio)
                                               ELSE front_merge(m.q, m.req, bio)
                 \/ /\ m.ret # "NO_MERGE" /\ ~may_grow(m.req)
                    /\ get_rq([m.q EXCEPT !.last_merge = NULL],
                              [rq EXCEPT ![m.req].flags = @ \cup {"REQ_NOMERGE"}], bio, dir, FALSE)
                 \/ m.ret = "NO_MERGE" /\ get_rq(m.q, rq, bio, dir, FALSE)
    BY <1>4 DEF elv_merge
  <2>2. PICK r : r = m.req
    OBVIOUS
  <2>3. ASSUME NEW k, NEW n, NEW l, NEW x, NEW req, NEW next,
               x = [rq EXCEPT ![r].sector = k, ![r].nr_sectors = n, ![r].bios = l],
               merged(m.q, x, r, req, next)
        PROVE  HardCmds(rq')
    <3>1. DOMAIN x = Rq /\ \A s \in Rq \ {r} : x[s] = rq[s]
      BY <1>2, <2>3
    <3>2. ASSUME r \in Rq PROVE Shaped(x[r]) /\ x[r].flags = rq[r].flags
      <4>1. x[r] = [rq[r] EXCEPT !.sector = k, !.nr_sectors = n, !.bios = l]
        BY <1>2, <2>3, <3>2
      <4>2. rq[r] = [flags |-> rq[r].flags, sector |-> rq[r].sector,
                     nr_sectors |-> rq[r].nr_sectors, bios |-> rq[r].bios]
        BY <1>2, <3>2 DEF Shaped
      <4>3. x[r] = [flags |-> rq[r].flags, sector |-> k, nr_sectors |-> n, bios |-> l]
        BY <4>1, <4>2
      <4> QED
        BY <4>3 DEF Shaped
    <3>3. SameFlags(rq, x)
      BY <1>2, <3>1, <3>2 DEF SameFlags
    <3>4. HardCmds(x) /\ DOMAIN x = Rq /\ \A s \in Rq : Shaped(x[s])
      BY <3>3, SameFlagsHard DEF SameFlags
    <3> QED
      BY <2>3, <3>4, MergedHard
  <2>4. CASE back_merge(m.q, r, bio)
    <3>1. PICK n, l, x : /\ n = rq[r].nr_sectors + 1 /\ l = Append(rq[r].bios, bio)
                         /\ x = [rq EXCEPT ![r].nr_sectors = n, ![r].bios = l]
      OBVIOUS
    <3>2. merged(m.q, x, r, r, rb_next(m.q, r))
      <4>1. x = [rq EXCEPT ![r].nr_sectors = @ + 1, ![r].bios = Append(@, bio)]
        BY <3>1
      <4> QED
        BY <2>4, <4>1 DEF back_merge
    <3>3. x = [rq EXCEPT ![r].sector = rq[r].sector, ![r].nr_sectors = n, ![r].bios = l]
      BY <1>2, <3>1 DEF Shaped
    <3> QED
      BY <2>3, <3>2, <3>3
  <2>5. CASE front_merge(m.q, r, bio)
    <3>1. PICK n, l, x : /\ n = rq[r].nr_sectors + 1 /\ l = <<bio>> \o rq[r].bios
                         /\ x = [rq EXCEPT ![r].sector = bio.bi_sector, ![r].nr_sectors = n, ![r].bios = l]
      OBVIOUS
    <3>2. merged(m.q, x, r, rb_prev(m.q, r), r)
      <4>1. x = [rq EXCEPT ![r].sector = bio.bi_sector, ![r].nr_sectors = @ + 1, ![r].bios = <<bio>> \o @]
        BY <3>1
      <4> QED
        BY <2>5, <4>1 DEF front_merge
    <3> QED
      BY <2>3, <3>1, <3>2
  <2>6. CASE get_rq([m.q EXCEPT !.last_merge = NULL],
                    [rq EXCEPT ![r].flags = @ \cup {"REQ_NOMERGE"}], bio, dir, FALSE)
    <3>1. PICK x : x = [rq EXCEPT ![r].flags = @ \cup {"REQ_NOMERGE"}]
      OBVIOUS
    <3>2. DOMAIN x = Rq /\ HardCmds(x)
      BY <3>1 DEF RqInv, RqRec, HardCmds
    <3>3. get_rq([m.q EXCEPT !.last_merge = NULL], x, bio, dir, FALSE)
      BY <2>6, <3>1
    <3> QED
      BY <3>2, <3>3, GetRqHard
  <2>7. CASE get_rq(m.q, rq, bio, dir, FALSE)
    BY <1>2, <2>7, GetRqHard
  <2> QED
    BY <2>1, <2>2, <2>4, <2>5, <2>6, <2>7
<1> QED
  BY <1>1, <1>3, <1>4 DEF make_request

\* A step that marks requests, and makes none a barrier.
LEMMA HardKept ==
  ASSUME HardCmds(rq),
         \A s \in Rq : \/ "REQ_HARDBARRIER" \notin rq'[s].flags
                       \/ /\ "REQ_HARDBARRIER" \in rq[s].flags
                          /\ "REQ_CMD" \in rq[s].flags => "REQ_CMD" \in rq'[s].flags
  PROVE  HardCmds(rq')
BY DEF HardCmds

LEMMA UntaggedHard ==
  ASSUME Inv, HardCmds(rq), Untagged
  PROVE  HardCmds(rq')
<1>0. RqInv(rq)
  BY InvRegrouped
<1>1. CASE Submit
  BY <1>0, <1>1, SubmitHard DEF Submit
<1>2. CASE elv_next_request
  <2>1. PICK r : rq' = [rq EXCEPT ![r].flags = @ \cup {"REQ_STARTED"}]
    BY <1>2 DEF elv_next_request
  <2>2. \A s \in Rq : rq'[s].flags \in {rq[s].flags, rq[s].flags \cup {"REQ_STARTED"}}
    BY <1>0, <2>1 DEF RqInv, RqRec
  <2> QED
    BY <2>2 DEF HardCmds
<1>3. ASSUME NEW r \in Rq, blkdev_dequeue_request(r) PROVE HardCmds(rq')
  BY <1>3 DEF blkdev_dequeue_request
<1>4. ASSUME NEW r \in Rq, NEW n \in 1 .. max_sectors, end_that_request_first(r, n)
      PROVE  HardCmds(rq')
  <2>1. rq'[r].flags = rq[r].flags
    BY <1>4, EndFirstBios
  <2>2. PICK y : rq' = [rq EXCEPT ![r] = y]
    BY <1>4 DEF end_that_request_first
  <2>3. \A s \in Rq : rq'[s].flags = rq[s].flags
    BY <1>0, <2>1, <2>2 DEF RqInv
  <2> QED
    BY <2>3 DEF HardCmds
<1>5. ASSUME NEW r \in Rq, NEW at_head \in BOOLEAN, blk_insert_special(r, at_head)
      PROVE  HardCmds(rq')
  <2>1. PICK y : y = [idle EXCEPT !.flags = {"REQ_SPECIAL", "REQ_SOFTBARRIER"}]
    OBVIOUS
  <2>2. rq' = [rq EXCEPT ![r] = y]
    BY <1>5, <2>1 DEF blk_insert_special
  <2>3. "REQ_HARDBARRIER" \notin y.flags
    BY <2>1 DEF idle
  <2> QED
    BY <1>0, <2>2, <2>3 DEF HardCmds, RqInv
<1> QED
  BY <1>1, <1>2, <1>3, <1>4, <1>5 DEF Untagged

LEMMA UntaggedReset ==
  ASSUME TagInv, ResetInv, Untagged
  PROVE  ResetInv'
<1>1. UNCHANGED <<tags, given>> /\ redo' = <<>> /\ tagged' = tagged
  BY UntaggedTags DEF Untagged, tag_vars
<1>2. HardCmds(rq')
  BY UntaggedHard DEF TagInv, ResetInv
<1>3. Given'
  BY <1>1, GivenKept DEF ResetInv
<1> QED
  BY <1>1, <1>2, <1>3 DEF ResetInv, Redoing, HardCmds

LEMMA SwitchReset ==
  ASSUME TagInv, ResetInv,
         blk_queue_free_tags \/ \E depth \in Depths : blk_queue_init_tags(depth)
  PROVE  ResetInv'
<1>1. UNCHANGED vars /\ UNCHANGED <<given, redo>> /\ redo = <<>>
  BY DEF blk_queue_free_tags, blk_queue_init_tags, unlocked
<1>2. tagged = {}
  <2>1. blk_queue_free_tags => driver = {}
    BY DEF blk_queue_free_tags
  <2>2. tags = NULL \/ driver = {}
    BY <2>1 DEF blk_queue_init_tags
  <2> QED
    BY <2>2 DEF TagInv, Booked
<1>3. tagged' = {} /\ rq' = rq
  BY <1>1, <1>2 DEF tagged, blk_rq_tagged, vars
<1>4. tags' # NULL => tags'.busy_list = <<>>
  <2>1. CASE blk_queue_free_tags
    BY <2>1 DEF blk_queue_free_tags
  <2>2. ASSUME NEW depth, blk_queue_init_tags(depth) PROVE tags'.busy_list = <<>>
    <3>1. PICK m, x, d : tags' = [tag_map |-> m, tag_index |-> x, busy_list |-> <<>>,
                                  busy |-> 0, max_depth |-> d]
      BY <2>2 DEF blk_queue_init_tags
    <3> QED
      BY <3>1
  <2> QED
    BY <2>1, <2>2
<1>5. Given'
  BY <1>1, <1>2, <1>3, <1>4, GivenNone DEF ResetInv
<1> QED
  BY <1>1, <1>3, <1>5 DEF ResetInv, Redoing, HardCmds

LEMMA StartReset ==
  ASSUME TagInv, ResetInv, NEW r \in Rq, blk_queue_start_tag(r)
  PROVE  ResetInv'
<1>0. /\ RqInv(rq) /\ QInv(q, rq, NULL) /\ Owned(q, free, driver, NULL, active)
      /\ Booked /\ redo = <<>> /\ tags # NULL /\ r \in active
      /\ r \in ToSet(q.queue_head) /\ WellFormed(q, {}, {}) /\ tagged \subseteq driver
  BY InvRegrouped DEF TagInv, Booked, blk_queue_start_tag, unlocked, lock, Owned, QInv
<1>1. r \notin tagged
  BY <1>0, HeadElsewhere DEF Owned
<1>2. PICK n : n = Min(0 .. bits(tags.max_depth) * BLK_TAGS_PER_LONG \ tags.tag_map)
  OBVIOUS
<1>3. /\ tags' = [tags EXCEPT !.tag_map = @ \cup {n}, !.tag_index[n] = r,
                              !.busy_list = busy_list_add(@, r), !.busy = @ + 1]
      /\ given' = Append(given, r) /\ redo' = redo
      /\ rq' = [rq EXCEPT ![r].flags = @ \cup {"REQ_QUEUED"}]
  BY <1>1, <1>2 DEF blk_queue_start_tag, tagged
<1>4. /\ tags.busy_list \in List(Rq) /\ ToSet(tags.busy_list) = tagged
      /\ tags \in blk_queue_tag(tags.max_depth)
  BY <1>0 DEF Booked, Book
<1>5. tags'.busy_list = <<r>> \o tags.busy_list
  BY <1>3, <1>4 DEF busy_list_add, blk_queue_tag
<1>6. \A s \in Rq : rq'[s].flags = IF s = r THEN rq[s].flags \cup {"REQ_QUEUED"} ELSE rq[s].flags
  BY <1>0, <1>3 DEF RqInv, RqRec
<1>7. tagged' = tagged \cup {r} /\ HardCmds(rq')
  <2>1. tagged' = tagged \cup {r}
    BY <1>6 DEF tagged, blk_rq_tagged
  <2>2. HardCmds(rq)
    BY DEF ResetInv
  <2>3. \A s \in Rq : rq'[s].flags \in {rq[s].flags, rq[s].flags \cup {"REQ_QUEUED"}}
    BY <1>6
  <2>4. HardCmds(rq')
    BY <2>2, <2>3 DEF HardCmds
  <2> QED
    BY <2>1, <2>4
<1>8. Given'
  BY <1>0, <1>1, <1>3, <1>4, <1>5, <1>7, GivenMore DEF ResetInv
<1> QED
  BY <1>0, <1>3, <1>7, <1>8 DEF ResetInv, Redoing, HardCmds

\* A request leaves the driver, and its tag, if it has one, is given back.
LEMMA LeaveReset ==
  ASSUME TagInv, ResetInv, NEW r \in Rq, unlocked, redo' = redo, HardCmds(rq'),
         tagged' = tagged \ {r},
         IF blk_rq_tagged(r) THEN blk_queue_end_tag(r) ELSE UNCHANGED <<tags, tag, given, bug>>
  PROVE  ResetInv'
<1>1. redo' = <<>>
  BY DEF unlocked
<1>2. CASE blk_rq_tagged(r)
  <2>1. r \in tagged /\ blk_queue_end_tag(r) /\ Booked /\ Given
    BY <1>2 DEF tagged, TagInv, ResetInv
  <2>2. Given'
    BY <2>1, GivenLess
  <2> QED
    BY <1>1, <2>2 DEF ResetInv, Redoing, HardCmds
<1>3. CASE ~blk_rq_tagged(r)
  <2>1. UNCHANGED <<tags, given>> /\ tagged' = tagged /\ Given
    BY <1>3 DEF tagged, ResetInv
  <2>2. Given'
    BY <2>1, GivenKept
  <2> QED
    BY <1>1, <2>2 DEF ResetInv, Redoing, HardCmds
<1> QED
  BY <1>2, <1>3

LEMMA EndReset ==
  ASSUME TagInv, ResetInv, NEW r \in Rq, end_tagged(r)
  PROVE  ResetInv'
<1>0. RqInv(rq) /\ HardCmds(rq) /\ unlocked /\ redo' = redo /\ rq' = [rq EXCEPT ![r] = idle]
  BY InvRegrouped DEF TagInv, ResetInv, end_tagged, end_that_request_last
<1>1. rq'[r].flags = {} /\ \A s \in Rq \ {r} : rq'[s] = rq[s]
  BY <1>0 DEF RqInv, idle
<1>2. tagged' = tagged \ {r}
  BY <1>1 DEF tagged, blk_rq_tagged
<1>3. HardCmds(rq')
  BY <1>0, <1>1 DEF HardCmds
<1>4. IF blk_rq_tagged(r) THEN blk_queue_end_tag(r) ELSE UNCHANGED <<tags, tag, given, bug>>
  BY DEF end_tagged
<1> QED
  BY <1>0, <1>2, <1>3, <1>4, LeaveReset

LEMMA RequeueReset ==
  ASSUME TagInv, ResetInv, NEW r \in Rq, NEW at_head \in BOOLEAN, requeue_tagged(r, at_head)
  PROVE  ResetInv'
<1>0. RqInv(rq) /\ HardCmds(rq) /\ unlocked /\ redo' = redo
  BY InvRegrouped DEF TagInv, ResetInv, requeue_tagged
<1>1. PICK f : f = (rq[r].flags \ {"REQ_QUEUED"}) \cup {"REQ_SPECIAL", "REQ_SOFTBARRIER"}
  OBVIOUS
<1>2. rq' = [rq EXCEPT ![r].flags = f]
  BY <1>1 DEF requeue_tagged
<1>3. rq'[r].flags = f /\ \A s \in Rq \ {r} : rq'[s] = rq[s]
  BY <1>0, <1>2 DEF RqInv, RqRec
<1>4. tagged' = tagged \ {r}
  BY <1>1, <1>3 DEF tagged, blk_rq_tagged
<1>5. HardCmds(rq')
  BY <1>0, <1>1, <1>3 DEF HardCmds
<1>6. IF blk_rq_tagged(r) THEN blk_queue_end_tag(r) ELSE UNCHANGED <<tags, tag, given, bug>>
  BY DEF requeue_tagged
<1> QED
  BY <1>0, <1>4, <1>5, <1>6, LeaveReset

LEMMA FrontGrows ==
  ASSUME NEW qq, qq.queue_head \in List(Rq), NEW p, NEW A \in SUBSET Rq, HeadGrows(qq, p, A),
         NEW D, NEW L, NEW r, AtFront(qq.queue_head, D, L, r)
  PROVE  AtFront(p.queue_head, D, L, r)
<1>1. CASE p.queue_head = qq.queue_head
  BY <1>1
<1>2. ASSUME NEW s \in A, p.queue_head = Append(qq.queue_head, s)
      PROVE  AtFront(p.queue_head, D, L, r)
  <2>1. AtFront(Append(qq.queue_head, s), D, L, r)
    BY FrontAppend
  <2> QED
    BY <1>2, <2>1
<1> QED
  BY <1>1, <1>2 DEF HeadGrows

\* A request put back at the head: only a command goes to the front of the dispatch list.
LEMMA PutBackHead ==
  ASSUME NEW rr, RqInv(rr), HardCmds(rr), QInv(q, rr, NULL), NEW r \in Rq, r \notin Queued(q),
         deadline_insert_request(q, rr, r, TRUE)
  PROVE  IF blk_fs_request(rr, r) THEN HeadGrows(q, q', Rq)
         ELSE q'.queue_head = <<r>> \o q.queue_head
<1>0. WellFormed(q, {}, {}) /\ \A s \in Rq : rr[s].sector \in Nat /\ rq_end(rr, s) \in Nat
  BY EndsTyped DEF QInv
<1>1. CASE "REQ_HARDBARRIER" \in rr[r].flags
  <2>1. q' = insert_barrier(q) /\ blk_fs_request(rr, r)
    BY <1>1 DEF deadline_insert_request, HardCmds, blk_fs_request
  <2>2. q'.queue_head = q.queue_head
    BY <1>0, <2>1, InsertBarrierWellFormed DEF SamePlaces
  <2> QED
    BY <2>1, <2>2 DEF HeadGrows
<1>2. CASE "REQ_HARDBARRIER" \notin rr[r].flags /\ ~blk_fs_request(rr, r)
  <2>1. q' = insert_special(q, r, TRUE)
    BY <1>2 DEF deadline_insert_request
  <2>2. q'.queue_head = <<r>> \o q.queue_head
    BY <1>0, <2>1 DEF insert_special, WellFormed, QueueType
  <2> QED
    BY <1>2, <2>2
<1>3. CASE "REQ_HARDBARRIER" \notin rr[r].flags /\ blk_fs_request(rr, r) /\ rq_qos(rr, r) # NULL
  <2>1. q' = insert_ucsb(q, rr, prio(rr), r)
    BY <1>3 DEF deadline_insert_request
  <2>2. q'.queue_head = q.queue_head
    BY <1>0, <2>1, InsertUcsbWellFormed DEF QosAdded
  <2> QED
    BY <1>3, <2>2 DEF HeadGrows
<1>4. CASE "REQ_HARDBARRIER" \notin rr[r].flags /\ blk_fs_request(rr, r) /\ rq_qos(rr, r) = NULL
  <2>1. q' = insert_best_effort(q, rr, r)
    BY <1>4 DEF deadline_insert_request
  <2>2. HeadGrows(q, q', Sorted(q))
    BY <1>0, <2>1, InsertBestEffortWellFormed DEF SortedIn
  <2>3. Sorted(q) \subseteq Rq
    BY <1>0 DEF WellFormed, QueueType, Sorted, Dirs
  <2> QED
    BY <1>4, <2>2, <2>3 DEF HeadGrows
<1> QED
  BY <1>1, <1>2, <1>3, <1>4

\* The commands that are back stay at the front whatever goes behind them.
LEMMA DrainReset ==
  ASSUME TagInv, ResetInv, insert_barrier_drain, UNCHANGED tag_vars
  PROVE  ResetInv'
<1>0. /\ RqInv(rq) /\ QInv(q, rq, barrier_rq) /\ Owned(q, free, driver, barrier_rq, active)
      /\ WellFormed(q, {}, {}) /\ q.starved <= writes_starved /\ q.queue_head \in List(Rq)
      /\ barrier_rq \in Rq /\ UNCHANGED <<rq, free, driver>>
      /\ UNCHANGED <<tags, given, redo>> /\ Given /\ HardCmds(rq) /\ Redoing
  <2>1. RqInv(rq) /\ QInv(q, rq, barrier_rq) /\ Owned(q, free, driver, barrier_rq, active)
    BY InvRegrouped DEF TagInv
  <2>2. WellFormed(q, {}, {}) /\ q.starved <= writes_starved /\ q.queue_head \in List(Rq)
    BY <2>1, ListTypes DEF QInv, WellFormed
  <2>3. barrier_rq # NULL /\ UNCHANGED <<rq, free, driver>>
    BY DEF insert_barrier_drain, lock
  <2> QED
    BY <2>1, <2>2, <2>3 DEF ResetInv, Owned, tag_vars
<1>1. HeadGrows(q, q', Rq)
  <2>1. CASE deadline_has_request(q)
    <3>1. q' = deadline_dispatch_requests(q, rq)
      BY <2>1 DEF insert_barrier_drain
    <3>2. \A s \in Rq : rq_end(rq, s) \in Nat
      BY <1>0, EndsTyped
    <3>3. HeadGrows(q, q', Sorted(q))
      BY <1>0, <2>1, <3>1, <3>2, DispatchRequestsWellFormed DEF MovesOn
    <3>4. Sorted(q) \subseteq Rq
      BY <1>0 DEF WellFormed, QueueType, Sorted, Dirs
    <3> QED
      BY <3>3, <3>4 DEF HeadGrows
  <2>2. CASE ~deadline_has_request(q)
    <3>1. q'.queue_head = Append(q.queue_head, barrier_rq)
      BY <1>0, <2>2 DEF insert_barrier_drain, WellFormed, QueueType
    <3> QED
      BY <1>0, <3>1 DEF HeadGrows
  <2> QED
    BY <2>1, <2>2
<1>2. tagged' = tagged /\ HardCmds(rq')
  BY <1>0 DEF tagged, blk_rq_tagged
<1>3. Given'
  BY <1>0, <1>2, GivenKept
<1>4. back' = back /\ back_commands' = back_commands
  BY <1>0, <1>2 DEF back, back_commands, blk_fs_request
<1>5. PICK L, D : L = later(redo) /\ D = back_commands
  OBVIOUS
<1>6. later(redo)' = L
  BY <1>0, <1>5 DEF later, before
<1>7. ASSUME redo # <<>>, NEW r \in D PROVE AtFront(q'.queue_head, D, L, r)
  <2>1. AtFront(q.queue_head, D, L, r)
    BY <1>0, <1>5, <1>7 DEF Redoing
  <2> QED
    BY <1>0, <1>1, <2>1, FrontGrows
<1>8. Redoing'
  BY <1>0, <1>2, <1>4, <1>5, <1>6, <1>7 DEF Redoing, AtFront
<1> QED
  BY <1>2, <1>3, <1>8 DEF ResetInv, HardCmds

\* The loop begins with nothing back yet, and leaves no order to keep once it ends.
LEMMA BeginReset ==
  ASSUME TagInv, ResetInv, invalidate_begin
  PROVE  ResetInv'
<1>0. /\ UNCHANGED vars /\ UNCHANGED <<tags, given>> /\ tags # NULL /\ redo' = given
      /\ Given /\ HardCmds(rq)
  BY DEF invalidate_begin, ResetInv
<1>1. tagged' = tagged /\ rq' = rq
  BY <1>0 DEF tagged, blk_rq_tagged, vars
<1>2. Given'
  BY <1>0, <1>1, GivenKept
<1>3. given \in List(Rq) /\ ToSet(given) = tagged /\ InOrder(tags.busy_list, later(given))
  BY <1>0 DEF Given
<1>4. back' = {} /\ back_commands' = {}
  BY <1>0, <1>1, <1>3 DEF back, back_commands
<1>5. PICK L : L = later(given)
  OBVIOUS
<1>6. later(redo)' = L
  BY <1>0, <1>5 DEF later, before
<1>7. Redoing'
  BY <1>0, <1>1, <1>3, <1>4, <1>5, <1>6 DEF Redoing
<1> QED
  BY <1>0, <1>1, <1>2, <1>7 DEF ResetInv, HardCmds

LEMMA FinishReset ==
  ASSUME ResetInv, invalidate_end
  PROVE  ResetInv'
<1>1. UNCHANGED vars /\ UNCHANGED <<tags, given>> /\ redo' = <<>> /\ Given /\ HardCmds(rq)
  BY DEF invalidate_end, ResetInv
<1>2. tagged' = tagged /\ rq' = rq
  BY <1>1 DEF tagged, blk_rq_tagged, vars
<1>3. Given'
  BY <1>1, <1>2, GivenKept
<1> QED
  BY <1>1, <1>2, <1>3 DEF ResetInv, Redoing, HardCmds

LEMMA StutterReset ==
  ASSUME ResetInv, UNCHANGED all_vars
  PROVE  ResetInv'
<1>1. UNCHANGED vars /\ UNCHANGED <<tags, given, redo>> /\ Given /\ HardCmds(rq) /\ Redoing
  BY DEF all_vars, tag_vars, ResetInv
<1>2. tagged' = tagged /\ UNCHANGED <<q, rq, free, driver>>
  BY <1>1 DEF tagged, blk_rq_tagged, vars
<1>3. Given'
  BY <1>1, <1>2, GivenKept
<1>4. back' = back /\ back_commands' = back_commands /\ later(redo)' = later(redo)
  BY <1>1, <1>2 DEF back, back_commands, blk_fs_request, later, before
<1>5. Redoing'
  BY <1>1, <1>2, <1>4 DEF Redoing, AtFront
<1> QED
  BY <1>1, <1>2, <1>3, <1>5 DEF ResetInv, HardCmds

\* One pass of the loop: what it puts back was given before whatever is back already, and
\* after whatever is still out.
LEMMA InvalidateReset ==
  ASSUME TagInv, ResetInv, invalidate_next
  PROVE  ResetInv'
<1>1. PICK r, L, D : r = Head(tags.busy_list) /\ L = later(redo) /\ D = back_commands
  OBVIOUS
<1>2. /\ r \in tagged /\ r \in Rq /\ r \in driver /\ lock /\ redo # <<>>
      /\ tags.busy_list \in List(Rq) /\ ToSet(tags.busy_list) = tagged /\ tags.busy_list # <<>>
      /\ blk_queue_end_tag(r)
      /\ rq' = [rq EXCEPT ![r].flags = @ \ {"REQ_QUEUED", "REQ_STARTED"}]
      /\ deadline_insert_request(q, rq', r, TRUE)
      /\ driver' = driver \ {r} /\ UNCHANGED <<free, redo>>
      /\ tagged' = tagged \ {r}
  BY <1>1, InvalidateFacts
<1>3. /\ RqInv(rq) /\ QInv(q, rq, NULL) /\ Owned(q, free, driver, NULL, active) /\ Booked
      /\ Given /\ HardCmds(rq) /\ q.queue_head \in List(Rq)
  <2>1. RqInv(rq) /\ QInv(q, rq, NULL) /\ Owned(q, free, driver, NULL, active)
    BY <1>2, InvRegrouped DEF TagInv, lock
  <2>2. q.queue_head \in List(Rq)
    BY <2>1, ListTypes DEF QInv, WellFormed
  <2> QED
    BY <2>1, <2>2 DEF TagInv, ResetInv
<1>4. /\ redo \in List(Rq) /\ tagged \subseteq ToSet(redo) /\ InOrder(tags.busy_list, L)
      /\ \A s \in back : /\ s \notin free \cup driver /\ "REQ_STARTED" \notin rq[s].flags
                         /\ \A x \in tagged : <<s, x>> \in L
      /\ \A s \in D : AtFront(q.queue_head, D, L, s)
  BY <1>1, <1>2 DEF ResetInv, Redoing
<1>5. /\ rq'[r].flags = rq[r].flags \ {"REQ_QUEUED", "REQ_STARTED"}
      /\ \A s \in Rq \ {r} : rq'[s] = rq[s]
      /\ SameButFlags(rq, rq')
  BY <1>2, <1>3 DEF RqInv, RqRec, SameButFlags
<1>6. RqInv(rq') /\ QInv(q, rq', NULL)
  BY <1>3, <1>5, FlagsOnly
<1>7. HardCmds(rq')
  BY <1>3, <1>5 DEF HardCmds
<1>8. r \notin Queued(q) /\ r \notin free
  BY <1>2, <1>3 DEF Owned
<1>9. IF blk_fs_request(rq', r) THEN HeadGrows(q, q', Rq) ELSE q'.queue_head = <<r>> \o q.queue_head
  BY <1>2, <1>6, <1>7, <1>8, PutBackHead
<1>10. Given' /\ tags' # NULL /\ tags'.busy_list = RemoveFirst(tags.busy_list, r)
  BY <1>2, <1>3, GivenLess
<1>11. InOrder(tags'.busy_list, L)
  BY <1>2, <1>4, <1>10, RemoveInOrder
<1>12. back' = back \cup {r} /\ r \in ToSet(redo) /\ back \subseteq Rq
  <2>1. ToSet(redo) \subseteq Rq
    BY <1>4, ListElements
  <2> QED
    BY <1>2, <1>4, <2>1 DEF back
<1>13. \A x \in tagged' : <<r, x>> \in L
  BY <1>1, <1>2, <1>4, HeadInOrder
<1>14. ASSUME NEW s \in back'
       PROVE  /\ s \notin free' \cup driver' /\ "REQ_STARTED" \notin rq'[s].flags
              /\ \A x \in tagged' : <<s, x>> \in L
  <2>1. CASE s = r
    BY <1>2, <1>5, <1>8, <1>13, <2>1
  <2>2. CASE s # r
    BY <1>2, <1>4, <1>5, <1>12, <2>2
  <2> QED
    BY <2>1, <2>2
<1>15. /\ r \notin back
       /\ \A s \in back : blk_fs_request(rq', s) <=> blk_fs_request(rq, s)
  BY <1>2, <1>5, <1>12 DEF back, blk_fs_request
<1>16. ASSUME NEW s \in back_commands' PROVE AtFront(q'.queue_head, back_commands', L, s)
  <2>0. back_commands' = {x \in back' : ~blk_fs_request(rq', x)}
    BY DEF back_commands
  <2>1. CASE blk_fs_request(rq', r)
    <3>1. back_commands' = D
      BY <1>1, <1>12, <1>15, <2>0, <2>1 DEF back_commands
    <3>2. HeadGrows(q, q', Rq)
      BY <1>9, <2>1
    <3>3. AtFront(q.queue_head, D, L, s)
      BY <1>4, <1>16, <3>1
    <3>4. AtFront(q'.queue_head, D, L, s)
      BY <1>3, <3>2, <3>3, FrontGrows
    <3> QED
      BY <3>1, <3>4
  <2>2. CASE ~blk_fs_request(rq', r)
    <3>1. back_commands' = D \cup {r} /\ D \subseteq back
      BY <1>1, <1>12, <1>15, <2>0, <2>2 DEF back_commands
    <3>2. q'.queue_head = <<r>> \o q.queue_head
      BY <1>9, <2>2
    <3>3. CASE s = r
      <4>1. AtFront(<<r>> \o q.queue_head, D \cup {r}, L, r)
        BY <1>2, <1>3, FrontFirst
      <4> QED
        BY <3>1, <3>2, <3>3, <4>1
    <3>4. CASE s # r
      <4>1. s \in D /\ <<s, r>> \in L
        BY <1>2, <1>4, <1>16, <3>1, <3>4
      <4>2. AtFront(q.queue_head, D, L, s)
        BY <1>4, <4>1
      <4>3. AtFront(<<r>> \o q.queue_head, D \cup {r}, L, s)
        BY <1>2, <1>3, <4>1, <4>2, FrontPrepend
      <4> QED
        BY <3>1, <3>2, <4>3
    <3> QED
      BY <3>3, <3>4
  <2> QED
    BY <2>1, <2>2
<1>17. later(redo)' = L
  BY <1>1, <1>2 DEF later, before
<1>18. Redoing'
  <2>1. redo' \in List(Rq) /\ tagged' \subseteq ToSet(redo')
    BY <1>2, <1>4
  <2> QED
    BY <1>10, <1>11, <1>14, <1>16, <1>17, <2>1 DEF Redoing, AtFront
<1> QED
  BY <1>7, <1>10, <1>18 DEF ResetInv, HardCmds

LEMMA ResetInit == TInit => ResetInv
<1> SUFFICES ASSUME TInit PROVE ResetInv
  OBVIOUS
<1>1. tagged = {} /\ HardCmds(rq)
  BY DEF TInit, Init, idle, tagged, blk_rq_tagged, HardCmds
<1>2. given = <<>> /\ redo = <<>> /\ tags = NULL
  BY DEF TInit
<1>3. Given
  <2>1. <<>> \in List(Rq) /\ ToSet(<<>>) = {}
    BY EmptySeq DEF List, IsInjective, ToSet
  <2> QED
    BY <1>1, <1>2, <2>1 DEF Given
<1> QED
  BY <1>1, <1>2, <1>3 DEF ResetInv, Redoing

LEMMA ResetStep == TagInv /\ ResetInv /\ [TNext]_all_vars => ResetInv'
<1> SUFFICES ASSUME TagInv, ResetInv, [TNext]_all_vars PROVE ResetInv'
  OBVIOUS
<1>1. CASE Untagged
  BY <1>1, UntaggedReset
<1>2. CASE insert_barrier_drain /\ UNCHANGED tag_vars
  BY <1>2, DrainReset
<1>3. CASE blk_queue_free_tags \/ \E depth \in Depths : blk_queue_init_tags(depth)
  BY <1>3, SwitchReset
<1>4. CASE Tagged
  <2>1. ASSUME NEW r \in Rq, blk_queue_start_tag(r) PROVE ResetInv'
    BY <2>1, StartReset
  <2>2. ASSUME NEW r \in Rq, end_tagged(r) PROVE ResetInv'
    BY <2>2, EndReset
  <2>3. ASSUME NEW r \in Rq, NEW at_head \in BOOLEAN, requeue_tagged(r, at_head) PROVE ResetInv'
    BY <2>3, RequeueReset
  <2> QED
    BY <1>4, <2>1, <2>2, <2>3 DEF Tagged
<1>5. CASE invalidate_begin
  BY <1>5, BeginReset
<1>6. CASE invalidate_next
  BY <1>6, InvalidateReset
<1>7. CASE invalidate_end
  BY <1>7, FinishReset
<1>8. CASE UNCHANGED all_vars
  BY <1>8, StutterReset
<1> QED
  BY <1>1, <1>2, <1>3, <1>4, <1>5, <1>6, <1>7, <1>8 DEF TNext

\* When the loop is over, everything that was outstanding is back.
LEMMA Restarted ==
  ASSUME TagInv, ResetInv, invalidate_end
  PROVE  /\ tagged = {}
         /\ \A r \in ToSet(redo) : r \in Queued(q) /\ "REQ_STARTED" \notin rq[r].flags
         /\ \A r \in commands : \E k \in DOMAIN q.queue_head :
              /\ q.queue_head[k] = r
              /\ \A i \in 1 .. k - 1 : /\ q.queue_head[i] \in commands
                                       /\ before(redo, q.queue_head[i], r)
<1>0. /\ lock /\ redo # <<>> /\ tags.busy_list = <<>> /\ Redoing /\ Booked
      /\ Owned(q, free, driver, NULL, active)
  BY InvRegrouped DEF TagInv, ResetInv, invalidate_end, lock
<1>1. /\ tags # NULL /\ redo \in List(Rq)
      /\ \A r \in back : r \notin free \cup driver /\ "REQ_STARTED" \notin rq[r].flags
      /\ \A r \in back_commands : AtFront(q.queue_head, back_commands, later(redo), r)
  BY <1>0 DEF Redoing
<1>2. tagged = {}
  <2>1. <<>> \in List(Rq) /\ ToSet(<<>>) = tagged
    BY <1>0, <1>1 DEF Booked, Book
  <2> QED
    BY <2>1, ListElements
<1>3. back = ToSet(redo) /\ back_commands = commands /\ back \subseteq Rq
  <2>1. ToSet(redo) \subseteq Rq
    BY <1>1, ListElements
  <2>2. back = ToSet(redo)
    BY <1>2 DEF back
  <2> QED
    BY <2>1, <2>2 DEF back_commands, commands
<1>4. ASSUME NEW r \in ToSet(redo) PROVE r \in Queued(q) /\ "REQ_STARTED" \notin rq[r].flags
  BY <1>0, <1>1, <1>3 DEF Owned
<1>5. ASSUME NEW r \in commands
      PROVE  \E k \in DOMAIN q.queue_head :
               /\ q.queue_head[k] = r
               /\ \A i \in 1 .. k - 1 : /\ q.queue_head[i] \in commands
                                        /\ before(redo, q.queue_head[i], r)
  BY <1>1, <1>3 DEF AtFront, later
<1> QED
  BY <1>2, <1>4, <1>5

\* After the device was reset nothing is outstanding, every request it had is back with the
\* scheduler and not started, and the commands among them lead the dispatch list in the order
\* they were first given to the device, whatever was ended, put back, drained by a barrier or
\* re-sorted before and during the loop of blk_queue_invalidate_tags.
THEOREM ResetKeepsOrder == TSpec => ResetRestarts
<1>1. TSpec => []ResetInv
  BY ResetInit, ResetStep, TagInvariant, PTL DEF TSpec
<1>2. TagInv /\ ResetInv /\ [TNext]_all_vars
        => [invalidate_end =>
              /\ tagged = {}
              /\ \A r \in ToSet(redo) : r \in Queued(q) /\ "REQ_STARTED" \notin rq[r].flags
              /\ \A r \in commands : \E k \in DOMAIN q.queue_head :
                   /\ q.queue_head[k] = r
                   /\ \A i \in 1 .. k - 1 : /\ q.queue_head[i] \in commands
                                            /\ before(redo, q.queue_head[i], r)]_all_vars
  BY Restarted
<1> QED
  BY <1>1, <1>2, TagInvariant, PTL DEF TSpec, ResetRestarts
=============================================================================
