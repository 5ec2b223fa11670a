--------------------------- MODULE DeadlineProofs ---------------------------
(***************************************************************************)
(* Every operation of the deadline/UCSB scheduler keeps the scheduler well *)
(* formed, for any number of requests, any sectors and any tunables: the   *)
(* lemmas BlockQueueProofs rests on.                                       *)
(*                                                                         *)
(* Two operations go through states in which the structures disagree:      *)
(* deadline_insert_request puts a request on the hash before it files it,  *)
(* and a front merge takes a request off the tree while it stays on its    *)
(* fifo.  WellFormed has both as parameters.                               *)
(***************************************************************************)
EXTENDS DeadlineIosched, SeqLemmas

\* The scheduler is consistent but for the requests of F, which are on their fifo and
\* not in their tree, and those of H, which the hints know before they are filed.
WellFormed(q, F, H) ==
  /\ q \in QueueType
  /\ ListsDisjoint(q)
  /\ (F \cup H) \cap Queued(q) = {}
  /\ \A d \in Dirs :
       /\ ToSet(q.fifo_list[d]) = q.sort_list[d] \cup {r \in F : rq_data_dir(r) = d}
       /\ \A r \in q.sort_list[d] : rq_data_dir(r) = d
       /\ \A r, s \in q.sort_list[d] : q.rb_key[r] = q.rb_key[s] => r = s
  /\ \A d \in Dirs : q.next_drq[d] \in q.sort_list[d] \cup {NULL}
  /\ \E d \in Dirs : q.next_drq[d] = NULL
  /\ q.last_merge \in Sorted(q) \cup H \cup {NULL}
  /\ \A r \in Rq : q.hash[r] # 0 => r \in Sorted(q) \cup H
  /\ FlagTellsList(q)

\* With nothing under way it is what BlockQueue's invariants say of q.
LEMMA WellFormedAtRest ==
  ASSUME NEW q
  PROVE  WellFormed(q, {}, {}) <=>
           /\ q \in QueueType
           /\ ListsDisjoint(q) /\ TreeMatchesFifo(q) /\ HintsSorted(q) /\ FlagTellsList(q)
BY DEF WellFormed, TreeMatchesFifo, HintsSorted

\* The types of the fields the insertions change.
LEMMA FieldTypes ==
  ASSUME NEW q \in QueueType
  PROVE  /\ q.sort_list \in [Dirs -> SUBSET Rq] /\ q.fifo_list \in [Dirs -> Seq(Rq)]
         /\ q.ucsb_cnt \in Int /\ q.ucsb_flag \in [Rq -> BOOLEAN]
         /\ q.rb_key \in [Rq -> Nat] /\ q.expires \in [Rq -> Int] /\ q.hash \in [Rq -> Nat]
BY DEF QueueType

\* The lists are lists without repetitions of requests.
LEMMA ListTypes ==
  ASSUME NEW q \in QueueType, ListsDisjoint(q)
  PROVE  /\ q.queue_head \in List(Rq) /\ q.ucsb_queue \in List(Rq)
         /\ \A d \in Dirs : q.fifo_list[d] \in List(Rq)
BY DEF QueueType, ListsDisjoint, List

LEMMA DirType == \A r \in Rq : rq_data_dir(r) \in Dirs
BY DEF rq_data_dir, Dirs, READ, WRITE

\* The request with the lowest key of a set is in the set.
LEMMA LowestIn ==
  ASSUME NEW q, q.rb_key \in [Rq -> Nat], NEW S \in SUBSET Rq
  PROVE  /\ S # {} => Lowest(q, S) \in S
         /\ S = {} => Lowest(q, S) = NULL
<1>1. CASE S # {}
  <2> DEFINE K == {q.rb_key[s] : s \in S}
  <2>1. K \in SUBSET Nat
    OBVIOUS
  <2>2. K # {}
    BY <1>1
  <2>3. \E k \in K : \A j \in K : k <= j
    <3> HIDE DEF K
    <3> QED
      BY <2>1, <2>2, LeastNat
  <2>4. \E r \in S : \A s \in S : q.rb_key[r] <= q.rb_key[s]
    BY <2>3
  <2> QED
    BY <1>1, <2>4 DEF Lowest
<1> QED
  BY <1>1 DEF Lowest

\* So is the one with the highest, when the keys are bounded.
LEMMA HighestIn ==
  ASSUME NEW q, q.rb_key \in [Rq -> Nat], NEW S \in SUBSET Rq,
         NEW b \in Nat, \A s \in S : q.rb_key[s] <= b
  PROVE  /\ S # {} => Highest(q, S) \in S
         /\ S = {} => Highest(q, S) = NULL
<1>1. CASE S # {}
  <2> DEFINE K == {q.rb_key[s] : s \in S}
  <2>1. K \in SUBSET Nat /\ \A k \in K : k <= b
    OBVIOUS
  <2>2. K # {}
    BY <1>1
  <2>3. \E k \in K : \A j \in K : j <= k
    <3> HIDE DEF K
    <3> QED
      BY <2>1, <2>2, GreatestNat
  <2>4. \E r \in S : \A s \in S : q.rb_key[s] <= q.rb_key[r]
    BY <2>3
  <2> QED
    BY <1>1, <2>4 DEF Highest
<1> QED
  BY <1>1 DEF Highest

\* rb_next and rb_prev lead to another request of the same tree, or nowhere.
LEMMA Neighbours ==
  ASSUME NEW q, q.rb_key \in [Rq -> Nat], q.sort_list \in [Dirs -> SUBSET Rq], NEW r \in Rq
  PROVE  /\ rb_next(q, r) \in (q.sort_list[rq_data_dir(r)] \ {r}) \cup {NULL}
         /\ rb_prev(q, r) \in (q.sort_list[rq_data_dir(r)] \ {r}) \cup {NULL}
<1> DEFINE d == rq_data_dir(r)
           N == {s \in q.sort_list[d] : q.rb_key[r] < q.rb_key[s]}
           P == {s \in q.sort_list[d] : q.rb_key[s] < q.rb_key[r]}
<1>0. d \in Dirs /\ q.sort_list[d] \in SUBSET Rq /\ q.rb_key[r] \in Nat
  BY DirType
<1>1. N \in SUBSET (q.sort_list[d] \ {r})
  BY <1>0
<1>2. P \in SUBSET (q.sort_list[d] \ {r}) /\ \A s \in P : q.rb_key[s] <= q.rb_key[r]
  BY <1>0
<1>3. rb_next(q, r) = Lowest(q, N) /\ rb_prev(q, r) = Highest(q, P)
  BY DEF rb_next, rb_prev
<1> HIDE DEF N, P, d
<1>4. Lowest(q, N) \in N \cup {NULL}
  BY <1>0, <1>1, LowestIn
<1>5. Highest(q, P) \in P \cup {NULL}
  BY <1>0, <1>2, HighestIn
<1> QED
  BY <1>1, <1>2, <1>3, <1>4, <1>5 DEF d

(***************************************************************************)
(* Removing and moving requests                                            *)
(***************************************************************************)
\* What deadline_remove_request changes, field by field.
Removed(q, r, p) ==
  /\ p.queue_head = RemoveFirst(q.queue_head, r)
  /\ p.ucsb_queue = RemoveFirst(q.ucsb_queue, r)
  /\ p.last_merge = IF q.last_merge = r THEN NULL ELSE q.last_merge
  /\ p.hash_valid_count = q.hash_valid_count
  /\ p.batching = q.batching /\ p.starved = q.starved
  /\ p.last_sector = q.last_sector /\ p.ucsb_cnt = q.ucsb_cnt
  /\ q.ucsb_flag[r] =>
       /\ p.ucsb_flag = [q.ucsb_flag EXCEPT ![r] = FALSE]
       /\ p.sort_list = q.sort_list /\ p.fifo_list = q.fifo_list
       /\ p.next_drq = q.next_drq /\ p.hash = q.hash
       /\ p.rb_key = q.rb_key /\ p.expires = q.expires
  /\ ~q.ucsb_flag[r] =>
       LET d == rq_data_dir(r)
       IN /\ p.ucsb_flag = q.ucsb_flag
          /\ p.sort_list = [q.sort_list EXCEPT ![d] = @ \ {r}]
          /\ p.fifo_list = [q.fifo_list EXCEPT ![d] = RemoveFirst(@, r)]
          /\ p.next_drq = [q.next_drq EXCEPT ![d] = IF @ = r THEN rb_next(q, r) ELSE @]
          /\ p.hash = [q.hash EXCEPT ![r] = 0]
          /\ p.rb_key = [q.rb_key EXCEPT ![r] = 0]
          /\ p.expires = [q.expires EXCEPT ![r] = 0]

\* q has the fields of a queue and no other.
IsQueue(q) ==
  q = [queue_head |-> q.queue_head, last_merge |-> q.last_merge,
       sort_list |-> q.sort_list, fifo_list |-> q.fifo_list, next_drq |-> q.next_drq,
       hash |-> q.hash, hash_valid_count |-> q.hash_valid_count,
       batching |-> q.batching, starved |-> q.starved, last_sector |-> q.last_sector,
       ucsb_queue |-> q.ucsb_queue, ucsb_cnt |-> q.ucsb_cnt,
       ucsb_flag |-> q.ucsb_flag, rb_key |-> q.rb_key, expires |-> q.expires]

\* What an update of the fields of a queue yields, once per set of fields the operations change.
SetUcsb(q, f, n, s) == [q EXCEPT !.ucsb_flag = f, !.ucsb_cnt = n, !.ucsb_queue = s]
SetDispatch(q, s, n, h) == [q EXCEPT !.ucsb_queue = s, !.ucsb_cnt = n, !.queue_head = h]
SetSort(q, k, s, e, f) == [q EXCEPT !.rb_key = k, !.sort_list = s, !.expires = e, !.fifo_list = f]
SetRemoved(q, h, n, s, f, e, k, m, d, u) ==
  [q EXCEPT !.hash = h, !.next_drq = n, !.sort_list = s, !.fifo_list = f, !.expires = e,
            !.rb_key = k, !.last_merge = m, !.queue_head = d, !.ucsb_queue = u]

LEMMA SetUcsbFields ==
  ASSUME NEW q \in QueueType, NEW f \in [Rq -> BOOLEAN], NEW n \in Int, NEW s \in Seq(Rq), NEW p,
         p = SetUcsb(q, f, n, s)
  PROVE  /\ p \in QueueType /\ p.ucsb_queue = s /\ p.ucsb_cnt = n /\ p.ucsb_flag = f
         /\ p.queue_head = q.queue_head /\ p.next_drq = q.next_drq
         /\ p.sort_list = q.sort_list /\ p.fifo_list = q.fifo_list
         /\ p.last_merge = q.last_merge /\ p.hash = q.hash
         /\ p.hash_valid_count = q.hash_valid_count /\ p.starved = q.starved /\ p.rb_key = q.rb_key
<1>1. p \in QueueType
  BY DEF QueueType, SetUcsb
<1>2. p.ucsb_queue = s /\ p.ucsb_cnt = n /\ p.ucsb_flag = f
  BY DEF QueueType, SetUcsb
<1>3. /\ p.queue_head = q.queue_head /\ p.next_drq = q.next_drq
      /\ p.sort_list = q.sort_list /\ p.fifo_list = q.fifo_list
      /\ p.last_merge = q.last_merge /\ p.hash = q.hash
      /\ p.hash_valid_count = q.hash_valid_count /\ p.starved = q.starved /\ p.rb_key = q.rb_key
  BY DEF QueueType, SetUcsb
<1> QED
  BY <1>1, <1>2, <1>3

LEMMA SetDispatchFields ==
  ASSUME NEW q \in QueueType, NEW h \in Seq(Rq), NEW n \in Int, NEW s \in Seq(Rq), NEW p,
         p = SetDispatch(q, s, n, h)
  PROVE  /\ p \in QueueType /\ p.ucsb_queue = s /\ p.ucsb_cnt = n /\ p.queue_head = h
         /\ p.ucsb_flag = q.ucsb_flag /\ p.next_drq = q.next_drq
         /\ p.sort_list = q.sort_list /\ p.fifo_list = q.fifo_list
         /\ p.last_merge = q.last_merge /\ p.hash = q.hash
         /\ p.hash_valid_count = q.hash_valid_count /\ p.starved = q.starved /\ p.rb_key = q.rb_key
<1>1. p \in QueueType
  BY DEF QueueType, SetDispatch
<1>2. p.ucsb_queue = s /\ p.ucsb_cnt = n /\ p.queue_head = h
  BY DEF QueueType, SetDispatch
<1>3. /\ p.ucsb_flag = q.ucsb_flag /\ p.next_drq = q.next_drq
      /\ p.sort_list = q.sort_list /\ p.fifo_list = q.fifo_list
      /\ p.last_merge = q.last_merge /\ p.hash = q.hash
      /\ p.hash_valid_count = q.hash_valid_count /\ p.starved = q.starved /\ p.rb_key = q.rb_key
  BY DEF QueueType, SetDispatch
<1> QED
  BY <1>1, <1>2, <1>3

LEMMA SetSortFields ==
  ASSUME NEW q \in QueueType, NEW k \in [Rq -> Nat], NEW s \in [Dirs -> SUBSET Rq],
         NEW e \in [Rq -> Int], NEW f \in [Dirs -> Seq(Rq)], NEW p,
         p = SetSort(q, k, s, e, f)
  PROVE  p \in QueueType
BY DEF QueueType, SetSort

LEMMA SetRemovedFields ==
  ASSUME NEW q \in QueueType, NEW h, NEW n, NEW s, NEW f, NEW e, NEW k, NEW m, NEW d, NEW u, NEW p,
         p = SetRemoved(q, h, n, s, f, e, k, m, d, u)
  PROVE  /\ p.hash = h /\ p.next_drq = n /\ p.sort_list = s /\ p.fifo_list = f /\ p.expires = e
         /\ p.rb_key = k /\ p.last_merge = m /\ p.queue_head = d /\ p.ucsb_queue = u
         /\ p.hash_valid_count = q.hash_valid_count /\ p.batching = q.batching
         /\ p.starved = q.starved /\ p.last_sector = q.last_sector
         /\ p.ucsb_cnt = q.ucsb_cnt /\ p.ucsb_flag = q.ucsb_flag
         /\ IsQueue(p)
<1>1. /\ p.hash = h /\ p.next_drq = n /\ p.sort_list = s /\ p.fifo_list = f /\ p.expires = e
      /\ p.rb_key = k /\ p.last_merge = m /\ p.queue_head = d /\ p.ucsb_queue = u
  BY DEF QueueType, SetRemoved
<1>2. /\ p.hash_valid_count = q.hash_valid_count /\ p.batching = q.batching
      /\ p.starved = q.starved /\ p.last_sector = q.last_sector
      /\ p.ucsb_cnt = q.ucsb_cnt /\ p.ucsb_flag = q.ucsb_flag
  BY DEF QueueType, SetRemoved
<1>3. IsQueue(p)
  BY DEF QueueType, SetRemoved, IsQueue
<1> QED
  BY <1>1, <1>2, <1>3

LEMMA RemoveFields ==
  ASSUME NEW q \in QueueType, NEW r \in Rq, NEW p, p = deadline_remove_request(q, r)
  PROVE  Removed(q, r, p) /\ IsQueue(p)
<1>1. CASE q.ucsb_flag[r]
  BY <1>1 DEF QueueType, deadline_remove_request, Unlink, ForgetMerge, Removed, IsQueue
<1>2. CASE ~q.ucsb_flag[r]
  <2> DEFINE h == deadline_del_drq_hash(q, r)
  <2>1. rb_next(h, r) = rb_next(q, r)
    BY DEF QueueType, deadline_del_drq_hash, rb_next, Lowest
  <2> DEFINE d == rq_data_dir(r)
  <2>2. p = SetRemoved(q, [q.hash EXCEPT ![r] = 0],
                       [q.next_drq EXCEPT ![d] = IF @ = r THEN rb_next(q, r) ELSE @],
                       [q.sort_list EXCEPT ![d] = @ \ {r}],
                       [q.fifo_list EXCEPT ![d] = RemoveFirst(@, r)],
                       [q.expires EXCEPT ![r] = 0],
                       [q.rb_key EXCEPT ![r] = 0],
                       IF q.last_merge = r THEN NULL ELSE q.last_merge,
                       RemoveFirst(q.queue_head, r), RemoveFirst(q.ucsb_queue, r))
    BY <1>2, <2>1 DEF QueueType, SetRemoved, deadline_remove_request, Unlink, ForgetMerge,
                      deadline_del_drq_rb, deadline_del_drq_hash
  <2> QED
    BY <1>2, <2>2, SetRemovedFields DEF Removed
<1> QED
  BY <1>1, <1>2

\* The dispatch list is as it was, or has one request of A more, at its end.
HeadGrows(q, p, A) ==
  p.queue_head = q.queue_head \/ \E s \in A : p.queue_head = Append(q.queue_head, s)

\* r left the sort lists or the dispatch list, and nothing else moved.
Gone(q, r, p) ==
  /\ Sorted(p) = Sorted(q) \ {r}
  /\ p.ucsb_queue = q.ucsb_queue
  /\ p.queue_head = RemoveFirst(q.queue_head, r)
  /\ ToSet(p.queue_head) = ToSet(q.queue_head) \ {r}
  /\ \A s \in Sorted(p) : p.rb_key[s] = q.rb_key[s]
  /\ \A s \in Rq : p.hash[s] \in {0, q.hash[s]}
  /\ p.hash_valid_count = q.hash_valid_count /\ p.starved = q.starved

\* A request that is on the dispatch list, sorted, or nowhere leaves the scheduler well
\* formed when it is removed.
LEMMA RemoveWellFormed ==
  ASSUME NEW q, NEW F \in SUBSET Rq, NEW H \in SUBSET Rq, WellFormed(q, F, H),
         NEW r \in Rq, r \notin F \cup H, r \notin ToSet(q.ucsb_queue),
         NEW p, p = deadline_remove_request(q, r)
  PROVE  WellFormed(p, F, H) /\ Gone(q, r, p) /\ ~p.ucsb_flag[r]
<1> DEFINE d == rq_data_dir(r)
<1>0. q \in QueueType /\ ListsDisjoint(q) /\ d \in Dirs /\ NULL \notin Rq
  BY DirType, IoschedAssumption DEF WellFormed
<1>a. Removed(q, r, p) /\ IsQueue(p)
  BY <1>0, RemoveFields
<1>b. /\ q.queue_head \in List(Rq) /\ q.ucsb_queue \in List(Rq)
      /\ \A c \in Dirs : q.fifo_list[c] \in List(Rq)
  BY <1>0, ListTypes
<1>1. /\ p.queue_head \in List(Rq) /\ ToSet(p.queue_head) = ToSet(q.queue_head) \ {r}
      /\ p.ucsb_queue = q.ucsb_queue /\ q.ucsb_queue \in List(Rq)
  BY <1>a, <1>b, RemoveFirstList DEF Removed
<1>2. CASE q.ucsb_flag[r]
  <2>1. r \in ToSet(q.queue_head)
    BY <1>2 DEF WellFormed, FlagTellsList
  <2>2. r \notin Sorted(q)
    BY <2>1, <1>0 DEF ListsDisjoint
  <2>3. /\ p.ucsb_flag = [q.ucsb_flag EXCEPT ![r] = FALSE]
        /\ p.sort_list = q.sort_list /\ p.fifo_list = q.fifo_list
        /\ p.next_drq = q.next_drq /\ p.hash = q.hash
        /\ p.rb_key = q.rb_key /\ p.expires = q.expires
        /\ p.last_merge = IF q.last_merge = r THEN NULL ELSE q.last_merge
        /\ p.hash_valid_count = q.hash_valid_count
        /\ p.starved = q.starved /\ p.ucsb_cnt = q.ucsb_cnt
    BY <1>a, <1>2 DEF Removed
  <2>4. p \in QueueType
    <3>1. p.ucsb_flag \in [Rq -> BOOLEAN] /\ p.last_merge \in Rq \cup {NULL}
      BY <1>0, <2>3 DEF QueueType
    <3> QED
      BY <1>0, <1>1, <1>a, <2>3, <3>1 DEF QueueType, List, Removed, IsQueue
  <2>5. Sorted(p) = Sorted(q)
    BY <2>3 DEF Sorted
  <2>6. ListsDisjoint(p)
    BY <1>0, <1>1, <2>3, <2>5 DEF ListsDisjoint, List
  <2>7. FlagTellsList(p)
    BY <1>0, <1>1, <2>3 DEF FlagTellsList, WellFormed, QueueType
  <2>8. (F \cup H) \cap Queued(p) = {}
    BY <1>1, <2>5 DEF Queued, WellFormed
  <2>9. WellFormed(p, F, H)
    BY <2>3, <2>4, <2>5, <2>6, <2>7, <2>8 DEF WellFormed
  <2> QED
    BY <1>0, <1>1, <1>a, <2>2, <2>3, <2>5, <2>9 DEF QueueType, Gone, Removed
<1>3. CASE ~q.ucsb_flag[r]
  <2>1. /\ p.ucsb_flag = q.ucsb_flag
        /\ p.sort_list = [q.sort_list EXCEPT ![d] = @ \ {r}]
        /\ p.fifo_list = [q.fifo_list EXCEPT ![d] = RemoveFirst(@, r)]
        /\ p.next_drq = [q.next_drq EXCEPT ![d] = IF @ = r THEN rb_next(q, r) ELSE @]
        /\ p.hash = [q.hash EXCEPT ![r] = 0]
        /\ p.rb_key = [q.rb_key EXCEPT ![r] = 0]
        /\ p.expires = [q.expires EXCEPT ![r] = 0]
        /\ p.last_merge = IF q.last_merge = r THEN NULL ELSE q.last_merge
        /\ p.hash_valid_count = q.hash_valid_count
        /\ p.starved = q.starved /\ p.ucsb_cnt = q.ucsb_cnt
    BY <1>a, <1>3 DEF Removed
  <2>2. /\ p.fifo_list[d] \in List(Rq) /\ ToSet(p.fifo_list[d]) = ToSet(q.fifo_list[d]) \ {r}
        /\ \A c \in Dirs \ {d} : p.fifo_list[c] = q.fifo_list[c] /\ p.fifo_list[c] \in List(Rq)
    BY <1>0, <1>b, <2>1, RemoveFirstList DEF QueueType
  <2>3. /\ p.sort_list[d] = q.sort_list[d] \ {r}
        /\ \A c \in Dirs \ {d} : p.sort_list[c] = q.sort_list[c]
    BY <1>0, <2>1 DEF QueueType
  <2>4. /\ rb_next(q, r) \in (q.sort_list[d] \ {r}) \cup {NULL}
        /\ rb_next(q, r) \in Rq \cup {NULL}
    BY <1>0, Neighbours DEF QueueType
  <2>5. \A c \in Dirs \ {d} : r \notin q.sort_list[c]
    BY <1>0 DEF WellFormed
  <2>6. Sorted(p) = Sorted(q) \ {r}
    BY <1>0, <2>3, <2>5 DEF Sorted, Dirs
  <2>7. p.next_drq \in [Dirs -> Rq \cup {NULL}]
    BY <1>0, <2>1, <2>4 DEF QueueType
  <2>8. p.fifo_list \in [Dirs -> Seq(Rq)]
    BY <1>0, <2>1, <2>2 DEF QueueType, List
  <2>9. p \in QueueType
    <3>1. /\ p.sort_list \in [Dirs -> SUBSET Rq] /\ p.hash \in [Rq -> Nat]
          /\ p.rb_key \in [Rq -> Nat] /\ p.expires \in [Rq -> Int]
      <4>1. /\ q.sort_list \in [Dirs -> SUBSET Rq] /\ q.hash \in [Rq -> Nat]
            /\ q.rb_key \in [Rq -> Nat] /\ q.expires \in [Rq -> Int]
        BY <1>0, FieldTypes
      <4>2. p.sort_list \in [Dirs -> SUBSET Rq]
        <5> DEFINE S == q.sort_list
        <5>1. S \in [Dirs -> SUBSET Rq] /\ p.sort_list = [S EXCEPT ![d] = @ \ {r}]
          BY <2>1, <4>1
        <5> HIDE DEF S
        <5>2. [S EXCEPT ![d] = @ \ {r}] \in [Dirs -> SUBSET Rq]
          BY <5>1
        <5> QED
          BY <5>1, <5>2
      <4> QED
        BY <2>1, <4>1, <4>2
    <3> QED
      BY <1>0, <1>1, <1>a, <2>1, <2>7, <2>8, <3>1 DEF QueueType, List, Removed, IsQueue
  <2>10. ListsDisjoint(p)
    BY <1>0, <1>1, <2>2, <2>6 DEF ListsDisjoint, List
  <2>11. FlagTellsList(p)
    BY <1>0, <1>1, <1>3, <2>1 DEF FlagTellsList, WellFormed
  <2>12. (F \cup H) \cap Queued(p) = {}
    BY <1>1, <2>6 DEF Queued, WellFormed
  <2>13. \A c \in Dirs :
           /\ ToSet(p.fifo_list[c]) = p.sort_list[c] \cup {s \in F : rq_data_dir(s) = c}
           /\ \A s \in p.sort_list[c] : rq_data_dir(s) = c
           /\ \A s, t \in p.sort_list[c] : p.rb_key[s] = p.rb_key[t] => s = t
    <3> SUFFICES ASSUME NEW c \in Dirs
                 PROVE  /\ ToSet(p.fifo_list[c]) = p.sort_list[c] \cup {s \in F : rq_data_dir(s) = c}
                        /\ \A s \in p.sort_list[c] : rq_data_dir(s) = c
                        /\ \A s, t \in p.sort_list[c] : p.rb_key[s] = p.rb_key[t] => s = t
      OBVIOUS
    <3>1. p.sort_list[c] = q.sort_list[c] \ {r}
      BY <2>3, <2>5
    <3>2. ToSet(p.fifo_list[c]) = ToSet(q.fifo_list[c]) \ {r}
      BY <2>2, <2>5 DEF WellFormed
    <3>3. \A s \in p.sort_list[c] : p.rb_key[s] = q.rb_key[s]
      BY <1>0, <2>1, <3>1 DEF QueueType
    <3> QED
      BY <3>1, <3>2, <3>3 DEF WellFormed
  <2>14. /\ \A c \in Dirs : p.next_drq[c] \in p.sort_list[c] \cup {NULL}
         /\ \E c \in Dirs : p.next_drq[c] = NULL
    <3>1. \A c \in Dirs \ {d} : p.next_drq[c] = q.next_drq[c]
      BY <1>0, <2>1 DEF QueueType
    <3>2. p.next_drq[d] = IF q.next_drq[d] = r THEN rb_next(q, r) ELSE q.next_drq[d]
      BY <1>0, <2>1 DEF QueueType
    <3>3. \A c \in Dirs : p.next_drq[c] \in p.sort_list[c] \cup {NULL}
      BY <1>0, <2>3, <2>4, <3>1, <3>2 DEF WellFormed
    <3>4. PICK c \in Dirs : q.next_drq[c] = NULL
      BY DEF WellFormed
    <3>5. p.next_drq[c] = NULL
      BY <1>0, <3>1, <3>2, <3>4
    <3> QED
      BY <3>3, <3>5
  <2>15. /\ p.last_merge \in Sorted(p) \cup H \cup {NULL}
         /\ \A s \in Rq : p.hash[s] # 0 => s \in Sorted(p) \cup H
    BY <1>0, <2>1, <2>6 DEF WellFormed, QueueType
  <2>16. WellFormed(p, F, H)
    BY <2>9, <2>10, <2>11, <2>12, <2>13, <2>14, <2>15 DEF WellFormed
  <2>17. Sorted(p) \in SUBSET Rq
    BY <2>9 DEF Sorted, QueueType, Dirs
  <2> QED
    BY <1>0, <1>1, <1>3, <1>a, <2>1, <2>6, <2>16, <2>17 DEF QueueType, Gone, Removed
<1> QED
  BY <1>2, <1>3, <1>0 DEF QueueType

\* r went from its sort list to the dispatch list, and nothing else moved.
Dispatched(q, r, p) ==
  /\ Sorted(p) = Sorted(q) \ {r}
  /\ p.ucsb_queue = q.ucsb_queue
  /\ p.queue_head = Append(q.queue_head, r)
  /\ ToSet(p.queue_head) = ToSet(q.queue_head) \cup {r}
  /\ \A s \in Sorted(p) : p.rb_key[s] = q.rb_key[s]
  /\ \A s \in Rq : p.hash[s] \in {0, q.hash[s]}
  /\ p.hash_valid_count = q.hash_valid_count /\ p.starved = q.starved

LEMMA MoveWellFormed ==
  ASSUME NEW q, NEW F \in SUBSET Rq, NEW H \in SUBSET Rq, WellFormed(q, F, H),
         NEW rq, NEW r \in Sorted(q), rq_end(rq, r) \in Nat,
         NEW p, p = deadline_move_request(q, rq, r)
  PROVE  WellFormed(p, F, H) /\ Dispatched(q, r, p)
<1> DEFINE d == rq_data_dir(r)
           after == [c \in Dirs |-> IF c = d THEN rb_next(q, r) ELSE NULL]
           q1 == [q EXCEPT !.next_drq = after, !.last_sector = rq_end(rq, r)]
           q2 == deadline_remove_request(q1, r)
<1>0. /\ q \in QueueType /\ ListsDisjoint(q) /\ NULL \notin Rq
      /\ r \in Rq /\ d \in Dirs /\ r \in q.sort_list[d]
      /\ r \notin F \cup H /\ r \notin ToSet(q.ucsb_queue) /\ r \notin ToSet(q.queue_head)
  <2>1. q \in QueueType /\ ListsDisjoint(q) /\ NULL \notin Rq
    BY IoschedAssumption DEF WellFormed
  <2>2. PICK c \in Dirs : r \in q.sort_list[c]
    BY DEF Sorted, Dirs
  <2>3. r \in Rq /\ d = c
    BY <2>1, <2>2 DEF QueueType, WellFormed
  <2> QED
    BY <2>1, <2>2, <2>3 DEF WellFormed, ListsDisjoint, Queued
<1>1. /\ rb_next(q, r) \in (q.sort_list[d] \ {r}) \cup {NULL}
      /\ rb_next(q, r) \in Rq \cup {NULL}
  BY <1>0, Neighbours DEF QueueType
<1>2. /\ q1 \in QueueType /\ q1.next_drq = after
      /\ q1.queue_head = q.queue_head /\ q1.ucsb_queue = q.ucsb_queue
      /\ q1.sort_list = q.sort_list /\ q1.fifo_list = q.fifo_list
      /\ q1.last_merge = q.last_merge /\ q1.hash = q.hash
      /\ q1.hash_valid_count = q.hash_valid_count /\ q1.starved = q.starved
      /\ q1.ucsb_cnt = q.ucsb_cnt /\ q1.ucsb_flag = q.ucsb_flag /\ q1.rb_key = q.rb_key
  BY <1>0, <1>1 DEF QueueType
<1>3. WellFormed(q1, F, H)
  <2> HIDE DEF q1
  <2>1. ListsDisjoint(q1) /\ Sorted(q1) = Sorted(q) /\ Queued(q1) = Queued(q) /\ FlagTellsList(q1)
    BY <1>2 DEF ListsDisjoint, Sorted, Queued, FlagTellsList, WellFormed
  <2>2. \A c \in Dirs : q1.next_drq[c] \in q1.sort_list[c] \cup {NULL}
    BY <1>0, <1>1, <1>2
  <2>3. \E c \in Dirs : q1.next_drq[c] = NULL
    <3>1. PICK c \in Dirs : c # d
      BY DEF Dirs, READ, WRITE
    <3> QED
      BY <1>2, <3>1
  <2> QED
    BY <1>2, <2>1, <2>2, <2>3 DEF WellFormed
<1>4. WellFormed(q2, F, H) /\ Gone(q1, r, q2)
  <2> HIDE DEF q1
  <2> QED
    BY <1>0, <1>2, <1>3, RemoveWellFormed
<1>5. p = [q2 EXCEPT !.queue_head = Append(@, r)]
  BY DEF deadline_move_request, deadline_move_to_dispatch
<1> HIDE DEF q1, q2
<1>6. q2 \in QueueType /\ q2.queue_head \in List(Rq) /\ r \notin ToSet(q2.queue_head)
  BY <1>4, ListTypes DEF WellFormed, Gone
<1>7. Append(q2.queue_head, r) \in List(Rq)
      /\ ToSet(Append(q2.queue_head, r)) = ToSet(q2.queue_head) \cup {r}
  BY <1>0, <1>6, AppendList
<1>8. /\ p \in QueueType /\ p.queue_head = Append(q2.queue_head, r)
      /\ p.ucsb_queue = q2.ucsb_queue /\ p.next_drq = q2.next_drq
      /\ p.sort_list = q2.sort_list /\ p.fifo_list = q2.fifo_list
      /\ p.last_merge = q2.last_merge /\ p.hash = q2.hash
      /\ p.hash_valid_count = q2.hash_valid_count /\ p.starved = q2.starved
      /\ p.ucsb_cnt = q2.ucsb_cnt /\ p.ucsb_flag = q2.ucsb_flag /\ p.rb_key = q2.rb_key
  BY <1>5, <1>6, <1>7 DEF QueueType, List
<1>9. Sorted(p) = Sorted(q2)
  BY <1>8 DEF Sorted
<1>10. r \notin Sorted(q2) /\ r \notin ToSet(q2.ucsb_queue)
  BY <1>0, <1>2, <1>4 DEF Gone
<1>11. ListsDisjoint(p)
  BY <1>4, <1>7, <1>8, <1>9, <1>10 DEF ListsDisjoint, WellFormed, List, Gone
<1>12. (F \cup H) \cap Queued(p) = {}
  BY <1>0, <1>4, <1>7, <1>8, <1>9 DEF Queued, WellFormed
<1>13. FlagTellsList(p)
  BY <1>4, <1>7, <1>8 DEF FlagTellsList, WellFormed
<1>14. WellFormed(p, F, H)
  BY <1>4, <1>8, <1>9, <1>11, <1>12, <1>13 DEF WellFormed
<1>15. p.queue_head = Append(q.queue_head, r)
  <2>1. q.queue_head \in List(Rq)
    BY <1>0, ListTypes
  <2>2. q2.queue_head = q.queue_head
    BY <1>0, <1>2, <1>4, <2>1, RemoveFirstList DEF Gone
  <2> QED
    BY <1>8, <2>2
<1> QED
  BY <1>0, <1>2, <1>4, <1>7, <1>8, <1>9, <1>14, <1>15 DEF Dispatched, Sorted, Gone

(***************************************************************************)
(* Filing a request                                                        *)
(***************************************************************************)
\* A sorted request, or none, moved to the dispatch list, and nothing else did.
MovesOn(q, p) ==
  /\ Sorted(p) \subseteq Sorted(q)
  /\ HeadGrows(q, p, Sorted(q))
  /\ ToSet(q.queue_head) \subseteq ToSet(p.queue_head)
  /\ Sorted(p) \cup ToSet(p.queue_head) = Sorted(q) \cup ToSet(q.queue_head)
  /\ p.ucsb_queue = q.ucsb_queue
  /\ \A s \in Sorted(p) : p.rb_key[s] = q.rb_key[s]
  /\ \A s \in Rq : p.hash[s] \in {0, q.hash[s]}
  /\ p.hash_valid_count = q.hash_valid_count

LEMMA DispatchedMovesOn ==
  ASSUME NEW q, NEW r \in Sorted(q), NEW p, Dispatched(q, r, p)
  PROVE  MovesOn(q, p)
BY DEF Dispatched, MovesOn, HeadGrows

\* The queue deadline_add_drq_rb files r in: r's alias, if there is one, has made room.
Room(q, rq, r) ==
  IF alias(q, rq, r) = {} THEN q
  ELSE deadline_move_request(q, rq, CHOOSE s \in alias(q, rq, r) : TRUE)

LEMMA RoomWellFormed ==
  ASSUME NEW q, NEW F \in SUBSET Rq, NEW H \in SUBSET Rq, WellFormed(q, F, H),
         NEW rq, \A s \in Rq : rq_end(rq, s) \in Nat, NEW r \in Rq,
         NEW p, p = Room(q, rq, r)
  PROVE  /\ WellFormed(p, F, H) /\ MovesOn(q, p) /\ p.starved = q.starved
         /\ alias(p, rq, r) = {}
<1> DEFINE d == rq_data_dir(r)
<1>0. q \in QueueType /\ d \in Dirs /\ q.sort_list[d] \subseteq Sorted(q)
  BY DirType DEF WellFormed, Sorted, Dirs
<1>1. CASE alias(q, rq, r) = {}
  BY <1>0, <1>1 DEF Room, MovesOn, HeadGrows, alias
<1>2. CASE alias(q, rq, r) # {}
  <2> DEFINE a == CHOOSE s \in alias(q, rq, r) : TRUE
  <2>1. a \in alias(q, rq, r)
    BY <1>2
  <2>2. a \in q.sort_list[d] /\ q.rb_key[a] = rq[r].sector
    BY <2>1 DEF alias
  <2>3. a \in Sorted(q) /\ a \in Rq
    BY <1>0, <2>2 DEF QueueType
  <2>4. p = deadline_move_request(q, rq, a)
    BY <1>2 DEF Room
  <2> HIDE DEF a
  <2>5. WellFormed(p, F, H) /\ Dispatched(q, a, p)
    BY <2>3, <2>4, MoveWellFormed
  <2>6. \A s \in p.sort_list[d] : p.rb_key[s] # rq[r].sector
    <3> SUFFICES ASSUME NEW s \in p.sort_list[d], p.rb_key[s] = rq[r].sector PROVE FALSE
      OBVIOUS
    <3>1. s \in Sorted(p)
      BY <1>0 DEF Sorted, Dirs
    <3>2. s \in Sorted(q) /\ s # a /\ q.rb_key[s] = rq[r].sector
      BY <2>5, <3>1 DEF Dispatched
    <3>3. rq_data_dir(s) = d
      BY <1>0, <2>5 DEF WellFormed
    <3>4. s \in q.sort_list[d]
      BY <3>2, <3>3 DEF Sorted, Dirs, WellFormed
    <3> QED
      BY <1>0, <2>2, <3>2, <3>4 DEF WellFormed
  <2> QED
    BY <2>3, <2>5, <2>6, DispatchedMovesOn DEF Dispatched, alias
<1> QED
  BY <1>1, <1>2

\* p is q with r added to the tree, and to the fifo if it is not there.
Filed(q, r, k, p) ==
  LET d == rq_data_dir(r)
  IN /\ p.sort_list = [q.sort_list EXCEPT ![d] = @ \cup {r}]
     /\ p.rb_key = [q.rb_key EXCEPT ![r] = k]
     /\ p.fifo_list[d] \in List(Rq)
     /\ ToSet(p.fifo_list[d]) = ToSet(q.fifo_list[d]) \cup {r}
     /\ \A c \in Dirs \ {d} : p.fifo_list[c] = q.fifo_list[c]
     /\ p.queue_head = q.queue_head /\ p.ucsb_queue = q.ucsb_queue
     /\ p.next_drq = q.next_drq /\ p.last_merge = q.last_merge /\ p.hash = q.hash
     /\ p.hash_valid_count = q.hash_valid_count /\ p.starved = q.starved
     /\ p.ucsb_cnt = q.ucsb_cnt /\ p.ucsb_flag = q.ucsb_flag

LEMMA FiledWellFormed ==
  ASSUME NEW q, NEW r \in Rq, NEW F \in SUBSET {r}, NEW H \in SUBSET {r}, WellFormed(q, F, H),
         r \notin Queued(q), NEW k \in Nat,
         \A s \in q.sort_list[rq_data_dir(r)] : q.rb_key[s] # k,
         NEW p \in QueueType, Filed(q, r, k, p)
  PROVE  WellFormed(p, {}, {}) /\ Sorted(p) = Sorted(q) \cup {r}
<1> DEFINE d == rq_data_dir(r)
<1>0. q \in QueueType /\ ListsDisjoint(q) /\ d \in Dirs /\ \A c \in Dirs : q.fifo_list[c] \in List(Rq)
  BY DirType, ListTypes DEF WellFormed
<1>1. p.sort_list[d] = q.sort_list[d] \cup {r} /\ \A c \in Dirs \ {d} : p.sort_list[c] = q.sort_list[c]
  BY <1>0 DEF Filed, QueueType
<1>2. Sorted(p) = Sorted(q) \cup {r}
  BY <1>0, <1>1 DEF Sorted, Dirs
<1>3. p.rb_key[r] = k /\ \A s \in Rq \ {r} : p.rb_key[s] = q.rb_key[s]
  BY <1>0 DEF Filed, QueueType
<1>4. ListsDisjoint(p)
  BY <1>0, <1>2 DEF ListsDisjoint, Filed, Queued, List
<1>5. ASSUME NEW c \in Dirs
      PROVE  /\ ToSet(p.fifo_list[c]) = p.sort_list[c]
             /\ \A s \in p.sort_list[c] : rq_data_dir(s) = c
             /\ \A s, t \in p.sort_list[c] : p.rb_key[s] = p.rb_key[t] => s = t
  <2>0. /\ ToSet(q.fifo_list[c]) = q.sort_list[c] \cup {s \in F : rq_data_dir(s) = c}
        /\ \A s \in q.sort_list[c] : rq_data_dir(s) = c
        /\ \A s, t \in q.sort_list[c] : q.rb_key[s] = q.rb_key[t] => s = t
        /\ q.sort_list[c] \subseteq Sorted(q) /\ q.sort_list[c] \subseteq Rq
    BY <1>0 DEF WellFormed, Sorted, Dirs, QueueType
  <2>1. r \notin q.sort_list[c]
    BY <2>0 DEF Queued
  <2>2. CASE c = d
    <3>1. ToSet(p.fifo_list[c]) = ToSet(q.fifo_list[c]) \cup {r} /\ p.sort_list[c] = q.sort_list[c] \cup {r}
      BY <1>1, <2>2 DEF Filed
    <3>2. \A s \in q.sort_list[c] : q.rb_key[s] # k
      BY <2>2
    <3>3. \A s \in q.sort_list[c] : p.rb_key[s] = q.rb_key[s]
      BY <1>3, <2>0, <2>1
    <3>4. ToSet(p.fifo_list[c]) = p.sort_list[c]
      BY <2>0, <3>1
    <3>5. \A s \in p.sort_list[c] : rq_data_dir(s) = c
      BY <2>0, <2>2, <3>1
    <3> QED
      BY <1>3, <2>0, <3>1, <3>2, <3>3, <3>4, <3>5
  <2>3. CASE c # d
    <3>1. p.fifo_list[c] = q.fifo_list[c] /\ p.sort_list[c] = q.sort_list[c]
      BY <1>1, <2>3 DEF Filed
    <3>2. {s \in F : rq_data_dir(s) = c} = {}
      BY <2>3
    <3>3. \A s \in q.sort_list[c] : p.rb_key[s] = q.rb_key[s]
      BY <1>3, <2>0, <2>1
    <3> QED
      BY <2>0, <3>1, <3>2, <3>3
  <2> QED
    BY <2>2, <2>3
<1>6. /\ \A c \in Dirs : p.next_drq[c] \in p.sort_list[c] \cup {NULL}
      /\ \E c \in Dirs : p.next_drq[c] = NULL
  BY <1>1 DEF WellFormed, Filed
<1>7. /\ p.last_merge \in Sorted(p) \cup {NULL}
      /\ \A s \in Rq : p.hash[s] # 0 => s \in Sorted(p)
  BY <1>2 DEF WellFormed, Filed
<1>8. FlagTellsList(p)
  BY DEF FlagTellsList, WellFormed, Filed
<1> QED
  BY <1>2, <1>4, <1>5, <1>6, <1>7, <1>8 DEF WellFormed

\* r is filed under its sector; an alias may have moved to the dispatch list.
SortedIn(q, rq, r, p) ==
  /\ r \in Sorted(p) /\ Sorted(p) \subseteq Sorted(q) \cup {r}
  /\ HeadGrows(q, p, Sorted(q))
  /\ ToSet(q.queue_head) \subseteq ToSet(p.queue_head)
  /\ Sorted(p) \cup ToSet(p.queue_head) = Sorted(q) \cup ToSet(q.queue_head) \cup {r}
  /\ p.ucsb_queue = q.ucsb_queue
  /\ p.rb_key[r] = rq[r].sector /\ \A s \in Sorted(p) \ {r} : p.rb_key[s] = q.rb_key[s]
  /\ \A s \in Rq : p.hash[s] \in {0, q.hash[s], q.hash_valid_count}
  /\ p.hash_valid_count = q.hash_valid_count /\ p.starved = q.starved

LEMMA InsertBestEffortWellFormed ==
  ASSUME NEW q, WellFormed(q, {}, {}),
         NEW rq, \A s \in Rq : rq_end(rq, s) \in Nat,
         NEW r \in Rq, rq[r].sector \in Nat, r \notin Queued(q),
         NEW p, p = insert_best_effort(q, rq, r)
  PROVE  WellFormed(p, {}, {}) /\ SortedIn(q, rq, r, p)
<1> DEFINE d == rq_data_dir(r)
           h == IF rq_mergeable(rq, r)
                THEN [deadline_add_drq_hash(q, r) EXCEPT !.last_merge = IF @ = NULL THEN r ELSE @]
                ELSE q
           room == Room(h, rq, r)
<1>0. q \in QueueType /\ ListsDisjoint(q) /\ d \in Dirs /\ q.hash_valid_count \in Nat
  BY DirType DEF WellFormed, QueueType
<1>1. /\ h \in QueueType
      /\ h.queue_head = q.queue_head /\ h.ucsb_queue = q.ucsb_queue /\ h.next_drq = q.next_drq
      /\ h.sort_list = q.sort_list /\ h.fifo_list = q.fifo_list
      /\ h.hash_valid_count = q.hash_valid_count /\ h.starved = q.starved
      /\ h.ucsb_cnt = q.ucsb_cnt /\ h.ucsb_flag = q.ucsb_flag /\ h.rb_key = q.rb_key
      /\ h.last_merge \in {q.last_merge, r}
      /\ \A s \in Rq \ {r} : h.hash[s] = q.hash[s]
      /\ h.hash[r] \in {q.hash[r], q.hash_valid_count}
  BY <1>0 DEF QueueType, deadline_add_drq_hash
<1> HIDE DEF h
<1>2. ListsDisjoint(h) /\ Sorted(h) = Sorted(q) /\ Queued(h) = Queued(q) /\ FlagTellsList(h)
  BY <1>1 DEF ListsDisjoint, Sorted, Queued, FlagTellsList, WellFormed
<1>3. WellFormed(h, {}, {r})
  <2>1. /\ h.last_merge \in Sorted(h) \cup {r} \cup {NULL}
        /\ \A s \in Rq : h.hash[s] # 0 => s \in Sorted(h) \cup {r}
    BY <1>1, <1>2 DEF WellFormed
  <2> QED
    BY <1>1, <1>2, <2>1 DEF WellFormed
<1>4. /\ WellFormed(room, {}, {r}) /\ MovesOn(h, room) /\ room.starved = h.starved
      /\ \A s \in room.sort_list[d] : room.rb_key[s] # rq[r].sector
  <2> HIDE DEF room
  <2>1. room = Room(h, rq, r)
    BY DEF room
  <2>2. {} \in SUBSET Rq /\ {r} \in SUBSET Rq
    OBVIOUS
  <2>3. /\ WellFormed(room, {}, {r}) /\ MovesOn(h, room) /\ room.starved = h.starved
        /\ alias(room, rq, r) = {}
    BY <1>3, <2>1, <2>2, RoomWellFormed
  <2> QED
    BY <2>3 DEF alias
<1>5. p = [room EXCEPT !.rb_key[r] = rq[r].sector, !.sort_list[d] = @ \cup {r},
                       !.expires[r] = fifo_expire[d], !.fifo_list[d] = Append(@, r)]
  BY DEF insert_best_effort, deadline_add_request, deadline_add_drq_rb, h, room, Room
<1> HIDE DEF room
<1>6. r \notin Queued(room)
  BY <1>2, <1>4 DEF Queued, MovesOn, Sorted
<1>7. room \in QueueType /\ room.fifo_list[d] \in List(Rq) /\ r \notin ToSet(room.fifo_list[d])
  <2>1. room \in QueueType /\ room.fifo_list[d] \in List(Rq)
    BY <1>0, <1>4, ListTypes DEF WellFormed
  <2>2. ToSet(room.fifo_list[d]) = room.sort_list[d]
    BY <1>0, <1>4 DEF WellFormed
  <2>3. room.sort_list[d] \subseteq Sorted(room)
    BY <1>0 DEF Sorted, Dirs
  <2> QED
    BY <1>6, <2>1, <2>2, <2>3 DEF Queued
<1>8. Append(room.fifo_list[d], r) \in List(Rq)
      /\ ToSet(Append(room.fifo_list[d], r)) = ToSet(room.fifo_list[d]) \cup {r}
  BY <1>7, AppendList
<1>9. p \in QueueType /\ Filed(room, r, rq[r].sector, p)
  <2>0. fifo_expire[d] \in Int
    BY <1>0, IoschedAssumption
  <2> HIDE DEF d
  <2>1. /\ [room.rb_key EXCEPT ![r] = rq[r].sector] \in [Rq -> Nat]
        /\ [room.sort_list EXCEPT ![d] = @ \cup {r}] \in [Dirs -> SUBSET Rq]
        /\ [room.expires EXCEPT ![r] = fifo_expire[d]] \in [Rq -> Int]
        /\ [room.fifo_list EXCEPT ![d] = Append(@, r)] \in [Dirs -> Seq(Rq)]
    <3>1. /\ room.rb_key \in [Rq -> Nat] /\ room.sort_list \in [Dirs -> SUBSET Rq]
          /\ room.expires \in [Rq -> Int] /\ room.fifo_list \in [Dirs -> Seq(Rq)]
      BY <1>7, FieldTypes
    <3>2. [room.rb_key EXCEPT ![r] = rq[r].sector] \in [Rq -> Nat]
      BY <1>0, <3>1
    <3>3. [room.sort_list EXCEPT ![d] = @ \cup {r}] \in [Dirs -> SUBSET Rq]
      BY <1>0, <3>1
    <3>4. [room.expires EXCEPT ![r] = fifo_expire[d]] \in [Rq -> Int]
      BY <1>0, <2>0, <3>1
    <3>5. [room.fifo_list EXCEPT ![d] = Append(@, r)] \in [Dirs -> Seq(Rq)]
      BY <1>8, <3>1 DEF List
    <3> QED
      BY <3>2, <3>3, <3>4, <3>5
  <2>2. p \in QueueType
    <3> DEFINE k == [room.rb_key EXCEPT ![r] = rq[r].sector]
               s == [room.sort_list EXCEPT ![d] = @ \cup {r}]
               e == [room.expires EXCEPT ![r] = fifo_expire[d]]
               f == [room.fifo_list EXCEPT ![d] = Append(@, r)]
    <3>1. p = SetSort(room, k, s, e, f)
      BY <1>5, <1>7 DEF QueueType, SetSort
    <3>2. k \in [Rq -> Nat] /\ s \in [Dirs -> SUBSET Rq] /\ e \in [Rq -> Int] /\ f \in [Dirs -> Seq(Rq)]
      BY <2>1
    <3> HIDE DEF k, s, e, f
    <3> QED
      BY <1>7, <3>1, <3>2, SetSortFields
  <2>3. /\ p.rb_key = [room.rb_key EXCEPT ![r] = rq[r].sector]
        /\ p.sort_list = [room.sort_list EXCEPT ![d] = @ \cup {r}]
        /\ p.fifo_list = [room.fifo_list EXCEPT ![d] = Append(@, r)]
        /\ p.queue_head = room.queue_head /\ p.ucsb_queue = room.ucsb_queue
        /\ p.next_drq = room.next_drq /\ p.last_merge = room.last_merge /\ p.hash = room.hash
        /\ p.hash_valid_count = room.hash_valid_count /\ p.starved = room.starved
        /\ p.ucsb_cnt = room.ucsb_cnt /\ p.ucsb_flag = room.ucsb_flag
    BY <1>5, <1>7 DEF QueueType
  <2>4. /\ p.fifo_list[d] = Append(room.fifo_list[d], r)
        /\ \A c \in Dirs \ {d} : p.fifo_list[c] = room.fifo_list[c]
    BY <1>0, <1>7, <2>3 DEF QueueType
  <2>5. Filed(room, r, rq[r].sector, p)
    BY <1>8, <2>3, <2>4 DEF Filed, d
  <2> QED
    BY <2>2, <2>5
<1>10. WellFormed(p, {}, {}) /\ Sorted(p) = Sorted(room) \cup {r}
  <2>1. {} \in SUBSET {r} /\ {r} \in SUBSET {r}
    OBVIOUS
  <2> QED
    BY <1>4, <1>6, <1>9, <2>1, FiledWellFormed
<1>11. SortedIn(q, rq, r, p)
  <2>1. /\ p.queue_head = room.queue_head /\ p.ucsb_queue = room.ucsb_queue /\ p.hash = room.hash
        /\ p.hash_valid_count = room.hash_valid_count /\ p.starved = room.starved
        /\ p.rb_key = [room.rb_key EXCEPT ![r] = rq[r].sector]
    BY <1>9 DEF Filed
  <2>2. Sorted(room) \subseteq Rq /\ r \notin Sorted(room)
    BY <1>6, <1>7 DEF Sorted, QueueType, Dirs, Queued
  <2>3. p.rb_key[r] = rq[r].sector /\ \A s \in Sorted(room) : p.rb_key[s] = room.rb_key[s]
    BY <1>7, <2>1, <2>2 DEF QueueType
  <2>4. \A s \in Sorted(p) \ {r} : p.rb_key[s] = q.rb_key[s]
    BY <1>1, <1>4, <1>10, <2>3 DEF MovesOn
  <2>5. \A s \in Rq : p.hash[s] \in {0, q.hash[s], q.hash_valid_count}
    BY <1>1, <1>4, <2>1 DEF MovesOn
  <2>6. HeadGrows(q, p, Sorted(q))
    BY <1>1, <1>2, <1>4, <2>1 DEF MovesOn, HeadGrows
  <2> QED
    BY <1>1, <1>2, <1>4, <1>10, <2>1, <2>3, <2>4, <2>5, <2>6 DEF SortedIn, MovesOn
<1> QED
  BY <1>10, <1>11

(***************************************************************************)
(* Merging                                                                 *)
(***************************************************************************)
\* A sorted request taken off its tree, as a front merge does before it refiles it.
LEMMA DelRbWellFormed ==
  ASSUME NEW q, WellFormed(q, {}, {}), NEW r \in Sorted(q),
         NEW p, p = deadline_del_drq_rb(q, r)
  PROVE  /\ WellFormed(p, {r}, {r})
         /\ Sorted(p) = Sorted(q) \ {r}
         /\ p.queue_head = q.queue_head /\ p.ucsb_queue = q.ucsb_queue /\ p.rb_key = q.rb_key
         /\ p.hash = q.hash /\ p.hash_valid_count = q.hash_valid_count /\ p.starved = q.starved
<1> DEFINE d == rq_data_dir(r)
<1>0. /\ q \in QueueType /\ ListsDisjoint(q) /\ NULL \notin Rq
      /\ r \in Rq /\ d \in Dirs /\ r \in q.sort_list[d]
  <2>1. q \in QueueType /\ ListsDisjoint(q) /\ NULL \notin Rq
    BY IoschedAssumption DEF WellFormed
  <2>2. PICK c \in Dirs : r \in q.sort_list[c]
    BY DEF Sorted, Dirs
  <2> QED
    BY <2>1, <2>2 DEF WellFormed, QueueType
<1>1. /\ rb_next(q, r) \in (q.sort_list[d] \ {r}) \cup {NULL}
      /\ rb_next(q, r) \in Rq \cup {NULL}
  BY <1>0, Neighbours DEF QueueType
<1>2. /\ p.sort_list = [q.sort_list EXCEPT ![d] = @ \ {r}]
      /\ p.next_drq = [q.next_drq EXCEPT ![d] = IF @ = r THEN rb_next(q, r) ELSE @]
      /\ p.queue_head = q.queue_head /\ p.ucsb_queue = q.ucsb_queue
      /\ p.fifo_list = q.fifo_list /\ p.last_merge = q.last_merge /\ p.hash = q.hash
      /\ p.hash_valid_count = q.hash_valid_count /\ p.starved = q.starved
      /\ p.ucsb_cnt = q.ucsb_cnt /\ p.ucsb_flag = q.ucsb_flag /\ p.rb_key = q.rb_key
  BY <1>0 DEF QueueType, deadline_del_drq_rb
<1>3. p \in QueueType
  <2>1. /\ [q.sort_list EXCEPT ![d] = @ \ {r}] \in [Dirs -> SUBSET Rq]
        /\ [q.next_drq EXCEPT ![d] = IF @ = r THEN rb_next(q, r) ELSE @] \in [Dirs -> Rq \cup {NULL}]
    BY <1>0, <1>1 DEF QueueType
  <2> QED
    BY <1>0, <2>1 DEF QueueType, deadline_del_drq_rb
<1>4. /\ p.sort_list[d] = q.sort_list[d] \ {r}
      /\ \A c \in Dirs \ {d} : p.sort_list[c] = q.sort_list[c] /\ r \notin q.sort_list[c]
  BY <1>0, <1>2 DEF QueueType, WellFormed
<1>5. Sorted(p) = Sorted(q) \ {r}
  BY <1>0, <1>4 DEF Sorted, Dirs
<1>6. ListsDisjoint(p)
  BY <1>0, <1>2, <1>5 DEF ListsDisjoint
<1>7. {r} \cap Queued(p) = {}
  BY <1>0, <1>2, <1>5 DEF Queued, ListsDisjoint
<1>8. ASSUME NEW c \in Dirs
      PROVE  /\ ToSet(p.fifo_list[c]) = p.sort_list[c] \cup {s \in {r} : rq_data_dir(s) = c}
             /\ \A s \in p.sort_list[c] : rq_data_dir(s) = c
             /\ \A s, t \in p.sort_list[c] : p.rb_key[s] = p.rb_key[t] => s = t
  <2>1. p.sort_list[c] = q.sort_list[c] \ {r}
    BY <1>4
  <2>2. ToSet(p.fifo_list[c]) = q.sort_list[c]
    BY <1>2 DEF WellFormed
  <2> QED
    BY <1>0, <1>2, <1>4, <2>1, <2>2 DEF WellFormed
<1>9. /\ \A c \in Dirs : p.next_drq[c] \in p.sort_list[c] \cup {NULL}
      /\ \E c \in Dirs : p.next_drq[c] = NULL
  <2>1. \A c \in Dirs \ {d} : p.next_drq[c] = q.next_drq[c]
    BY <1>0, <1>2 DEF QueueType
  <2>2. p.next_drq[d] = IF q.next_drq[d] = r THEN rb_next(q, r) ELSE q.next_drq[d]
    BY <1>0, <1>2 DEF QueueType
  <2>3. \A c \in Dirs : p.next_drq[c] \in p.sort_list[c] \cup {NULL}
    BY <1>0, <1>1, <1>4, <2>1, <2>2 DEF WellFormed
  <2>4. PICK c \in Dirs : q.next_drq[c] = NULL
    BY DEF WellFormed
  <2>5. p.next_drq[c] = NULL
    BY <1>0, <2>1, <2>2, <2>4
  <2> QED
    BY <2>3, <2>5
<1>10. /\ p.last_merge \in Sorted(p) \cup {r} \cup {NULL}
       /\ \A s \in Rq : p.hash[s] # 0 => s \in Sorted(p) \cup {r}
  BY <1>2, <1>5 DEF WellFormed
<1>11. FlagTellsList(p)
  BY <1>2 DEF FlagTellsList, WellFormed
<1>12. WellFormed(p, {r}, {r})
  BY <1>3, <1>6, <1>7, <1>8, <1>9, <1>10, <1>11 DEF WellFormed
<1> QED
  BY <1>2, <1>5, <1>12

\* Refiling a sorted request after a merge.
LEMMA RepositionWellFormed ==
  ASSUME NEW q, WellFormed(q, {}, {}),
         NEW rq, \A s \in Rq : rq_end(rq, s) \in Nat,
         NEW r \in Sorted(q), rq[r].sector \in Nat,
         NEW p, p = reposition(q, rq, r)
  PROVE  /\ WellFormed(p, {}, {}) /\ SortedIn(q, rq, r, p)
         /\ rq[r].sector = q.rb_key[r] => Sorted(p) = Sorted(q) /\ p.queue_head = q.queue_head
<1> DEFINE d == rq_data_dir(r)
           h == deadline_add_drq_hash(deadline_del_drq_hash(q, r), r)
<1>0. q \in QueueType /\ ListsDisjoint(q) /\ r \in Rq /\ d \in Dirs /\ q.hash_valid_count \in Nat
  <2>1. r \in Rq
    BY DEF WellFormed, QueueType, Sorted, Dirs
  <2> QED
    BY <2>1, DirType DEF WellFormed, QueueType
<1>1. /\ h \in QueueType
      /\ h.queue_head = q.queue_head /\ h.ucsb_queue = q.ucsb_queue /\ h.next_drq = q.next_drq
      /\ h.sort_list = q.sort_list /\ h.fifo_list = q.fifo_list
      /\ h.hash_valid_count = q.hash_valid_count /\ h.starved = q.starved
      /\ h.ucsb_cnt = q.ucsb_cnt /\ h.ucsb_flag = q.ucsb_flag /\ h.rb_key = q.rb_key
      /\ h.last_merge = q.last_merge
      /\ \A s \in Rq \ {r} : h.hash[s] = q.hash[s]
      /\ h.hash[r] = q.hash_valid_count
  BY <1>0 DEF QueueType, deadline_add_drq_hash, deadline_del_drq_hash
<1> HIDE DEF h
<1>2. ListsDisjoint(h) /\ Sorted(h) = Sorted(q) /\ Queued(h) = Queued(q) /\ FlagTellsList(h)
  BY <1>1 DEF ListsDisjoint, Sorted, Queued, FlagTellsList, WellFormed
<1>3. WellFormed(h, {}, {})
  <2>1. /\ h.last_merge \in Sorted(h) \cup {NULL}
        /\ \A s \in Rq : h.hash[s] # 0 => s \in Sorted(h)
    BY <1>1, <1>2 DEF WellFormed
  <2> QED
    BY <1>1, <1>2, <2>1 DEF WellFormed
<1>4. CASE rq[r].sector = q.rb_key[r]
  <2>1. p = h
    BY <1>4 DEF reposition, h
  <2>2. SortedIn(q, rq, r, p)
    BY <1>1, <1>2, <1>4, <2>1 DEF SortedIn, HeadGrows
  <2> QED
    BY <1>1, <1>2, <1>3, <2>1, <2>2
<1>5. CASE rq[r].sector # q.rb_key[r]
  <2> DEFINE x == deadline_del_drq_rb(h, r)
             room == Room(x, rq, r)
  <2>1. /\ WellFormed(x, {r}, {r}) /\ Sorted(x) = Sorted(h) \ {r}
        /\ x.queue_head = h.queue_head /\ x.ucsb_queue = h.ucsb_queue /\ x.rb_key = h.rb_key
        /\ x.hash = h.hash /\ x.hash_valid_count = h.hash_valid_count /\ x.starved = h.starved
    BY <1>2, <1>3, DelRbWellFormed
  <2>2. p = [room EXCEPT !.rb_key[r] = rq[r].sector, !.sort_list[d] = @ \cup {r}]
    BY <1>5 DEF reposition, deadline_add_drq_rb, h, Room
  <2> HIDE DEF x
  <2>3. /\ WellFormed(room, {r}, {r}) /\ MovesOn(x, room) /\ room.starved = x.starved
        /\ alias(room, rq, r) = {}
    <3>1. {r} \in SUBSET Rq /\ room = Room(x, rq, r)
      BY <1>0
    <3> HIDE DEF room
    <3> QED
      BY <1>0, <2>1, <3>1, RoomWellFormed
  <2> HIDE DEF room
  <2>4. r \notin Queued(room) /\ room \in QueueType
    BY <2>3 DEF WellFormed
  <2>5. room.fifo_list[d] \in List(Rq) /\ ToSet(room.fifo_list[d]) = ToSet(room.fifo_list[d]) \cup {r}
    <3>1. room.fifo_list[d] \in List(Rq)
      BY <1>0, <2>3, ListTypes DEF WellFormed
    <3>2. ToSet(room.fifo_list[d]) = room.sort_list[d] \cup {s \in {r} : rq_data_dir(s) = d}
      BY <1>0, <2>3 DEF WellFormed
    <3> QED
      BY <3>1, <3>2
  <2>6. /\ p.rb_key = [room.rb_key EXCEPT ![r] = rq[r].sector]
        /\ p.sort_list = [room.sort_list EXCEPT ![d] = @ \cup {r}]
        /\ p.fifo_list = room.fifo_list
        /\ p.queue_head = room.queue_head /\ p.ucsb_queue = room.ucsb_queue
        /\ p.next_drq = room.next_drq /\ p.last_merge = room.last_merge /\ p.hash = room.hash
        /\ p.hash_valid_count = room.hash_valid_count /\ p.starved = room.starved
        /\ p.ucsb_cnt = room.ucsb_cnt /\ p.ucsb_flag = room.ucsb_flag
    BY <2>2, <2>4 DEF QueueType
  <2>7. p \in QueueType
    <3>1. /\ [room.rb_key EXCEPT ![r] = rq[r].sector] \in [Rq -> Nat]
          /\ [room.sort_list EXCEPT ![d] = @ \cup {r}] \in [Dirs -> SUBSET Rq]
      BY <1>0, <2>4 DEF QueueType
    <3> QED
      BY <2>2, <2>4, <3>1 DEF QueueType
  <2>8. Filed(room, r, rq[r].sector, p)
    BY <2>5, <2>6 DEF Filed, d
  <2>9. WellFormed(p, {}, {}) /\ Sorted(p) = Sorted(room) \cup {r}
    <3>1. {r} \in SUBSET {r} /\ \A s \in room.sort_list[d] : room.rb_key[s] # rq[r].sector
      BY <2>3 DEF alias
    <3> QED
      BY <1>0, <2>3, <2>4, <2>7, <2>8, <3>1, FiledWellFormed
  <2>10. Sorted(room) \subseteq Rq /\ r \notin Sorted(room)
    BY <2>4 DEF Sorted, QueueType, Dirs, Queued
  <2>11. p.rb_key[r] = rq[r].sector /\ \A s \in Sorted(room) : p.rb_key[s] = room.rb_key[s]
    BY <1>0, <2>4, <2>6, <2>10 DEF QueueType
  <2>12. \A s \in Sorted(p) \ {r} : p.rb_key[s] = q.rb_key[s]
    BY <1>1, <2>1, <2>3, <2>9, <2>11 DEF MovesOn
  <2>13. \A s \in Rq : p.hash[s] \in {0, q.hash[s], q.hash_valid_count}
    BY <1>1, <2>1, <2>3, <2>6 DEF MovesOn
  <2>14. HeadGrows(q, p, Sorted(q))
    BY <1>1, <1>2, <2>1, <2>3, <2>6 DEF MovesOn, HeadGrows
  <2>15. SortedIn(q, rq, r, p)
    BY <1>1, <1>2, <2>1, <2>3, <2>6, <2>9, <2>11, <2>12, <2>13, <2>14 DEF SortedIn, MovesOn
  <2> QED
    BY <1>5, <2>9, <2>15
<1> QED
  BY <1>4, <1>5

\* After a merge at either end the grown request is refiled.
LEMMA MergedRequestWellFormed ==
  ASSUME NEW q, WellFormed(q, {}, {}),
         NEW rq, \A s \in Rq : rq_end(rq, s) \in Nat,
         NEW r \in Sorted(q), rq[r].sector \in Nat,
         NEW p, p = deadline_merged_request(q, rq, r)
  PROVE  WellFormed(p, {}, {}) /\ SortedIn(q, rq, r, p)
<1> DEFINE m == reposition(q, rq, r)
<1>1. WellFormed(m, {}, {}) /\ SortedIn(q, rq, r, m)
  BY RepositionWellFormed
<1>2. p = [m EXCEPT !.last_merge = r]
  BY DEF deadline_merged_request
<1> HIDE DEF m
<1>3. r \in Rq /\ m \in QueueType
  BY <1>1 DEF WellFormed, QueueType, Sorted, Dirs
<1>4. /\ p \in QueueType /\ p.last_merge = r
      /\ p.queue_head = m.queue_head /\ p.ucsb_queue = m.ucsb_queue /\ p.next_drq = m.next_drq
      /\ p.sort_list = m.sort_list /\ p.fifo_list = m.fifo_list /\ p.hash = m.hash
      /\ p.hash_valid_count = m.hash_valid_count /\ p.starved = m.starved
      /\ p.ucsb_cnt = m.ucsb_cnt /\ p.ucsb_flag = m.ucsb_flag /\ p.rb_key = m.rb_key
  BY <1>2, <1>3 DEF QueueType
<1>5. ListsDisjoint(p) /\ Sorted(p) = Sorted(m) /\ Queued(p) = Queued(m) /\ FlagTellsList(p)
  BY <1>1, <1>4 DEF ListsDisjoint, Sorted, Queued, FlagTellsList, WellFormed
<1>6. r \in Sorted(p)
  BY <1>1, <1>5 DEF SortedIn
<1>7. WellFormed(p, {}, {})
  BY <1>1, <1>4, <1>5, <1>6 DEF WellFormed
<1>8. SortedIn(q, rq, r, p)
  BY <1>1, <1>4, <1>5 DEF SortedIn, HeadGrows
<1> QED
  BY <1>7, <1>8

\* list_move only reorders a fifo.
LEMMA FifoBehindList ==
  ASSUME NEW s \in List(Rq), NEW r \in ToSet(s), NEW next \in ToSet(s), r # next
  PROVE  fifo_behind(s, r, next) \in List(Rq) /\ ToSet(fifo_behind(s, r, next)) = ToSet(s)
<1> DEFINE rest == RemoveFirst(s, r)
           I == {i \in 1 .. Len(rest) : rest[i] = next}
<1>1. rest \in List(Rq) /\ ToSet(rest) = ToSet(s) \ {r} /\ r \in Rq
  BY RemoveFirstList, ListElements
<1> HIDE DEF rest
<1>2. Len(rest) \in Nat /\ DOMAIN rest = 1 .. Len(rest)
  BY <1>1, LenProperties DEF List
<1>3. I # {} /\ I \in SUBSET Nat
  BY <1>1, <1>2 DEF ToSet
<1>4. SelectInSeq(rest, LAMBDA x : x = next) = Min(I)
  BY <1>3 DEF SelectInSeq
<1>5. Min(I) \in I
  <2> HIDE DEF I
  <2> QED
    BY <1>3, MinIsLeast
<1>6. Min(I) + 1 \in 1 .. Len(rest) + 1
  <2>1. Min(I) \in 1 .. Len(rest)
    BY <1>5
  <2> HIDE DEF I
  <2> QED
    BY <1>2, <2>1
<1>7. fifo_behind(s, r, next) = InsertAt(rest, Min(I) + 1, r)
  <2>1. fifo_behind(s, r, next) = InsertAt(rest, SelectInSeq(rest, LAMBDA x : x = next) + 1, r)
    BY DEF fifo_behind, rest
  <2> HIDE DEF I
  <2> QED
    BY <1>4, <2>1
<1> HIDE DEF I
<1>8. /\ InsertAt(rest, Min(I) + 1, r) \in List(Rq)
      /\ ToSet(InsertAt(rest, Min(I) + 1, r)) = ToSet(rest) \cup {r}
  BY <1>1, <1>6, InsertAtList
<1> QED
  BY <1>1, <1>7, <1>8

\* next was swallowed by another sorted request.
Swallowed(q, next, p) ==
  /\ Sorted(p) = Sorted(q) \ {next}
  /\ p.ucsb_queue = q.ucsb_queue
  /\ p.queue_head = q.queue_head
  /\ \A s \in Sorted(p) : p.rb_key[s] = q.rb_key[s]
  /\ \A s \in Rq : p.hash[s] \in {0, q.hash[s], q.hash_valid_count}
  /\ p.hash_valid_count = q.hash_valid_count /\ p.starved = q.starved

LEMMA MergedRequestsWellFormed ==
  ASSUME NEW q, WellFormed(q, {}, {}),
         NEW rq, \A s \in Rq : rq_end(rq, s) \in Nat,
         NEW r \in Sorted(q), rq[r].sector = q.rb_key[r],
         NEW next \in Sorted(q), r # next,
         NEW p, p = deadline_merged_requests(q, rq, r, next)
  PROVE  WellFormed(p, {}, {}) /\ Swallowed(q, next, p)
<1> DEFINE d == rq_data_dir(r)
           moved == reposition(q, rq, r)
           swap == /\ {r, next} \subseteq ToSet(moved.fifo_list[d])
                   /\ moved.expires[next] < moved.expires[r]
           aged == IF swap
                   THEN [moved EXCEPT !.fifo_list[d] = fifo_behind(@, r, next),
                                      !.expires[r] = moved.expires[next]]
                   ELSE moved
<1>0. q \in QueueType /\ r \in Rq /\ next \in Rq /\ d \in Dirs /\ rq[r].sector \in Nat
  <2>1. q \in QueueType /\ r \in Rq /\ next \in Rq
    BY DEF WellFormed, QueueType, Sorted, Dirs
  <2> QED
    BY <2>1, DirType DEF QueueType
<1>1. /\ WellFormed(moved, {}, {}) /\ SortedIn(q, rq, r, moved)
      /\ Sorted(moved) = Sorted(q) /\ moved.queue_head = q.queue_head
  BY <1>0, RepositionWellFormed
<1>2. p = deadline_remove_request(aged, next)
  BY DEF deadline_merged_requests
<1> HIDE DEF moved
<1>3. moved \in QueueType /\ ListsDisjoint(moved) /\ moved.fifo_list[d] \in List(Rq)
  BY <1>0, <1>1, ListTypes DEF WellFormed
<1>4. /\ aged \in QueueType /\ aged.last_merge = moved.last_merge
      /\ aged.queue_head = moved.queue_head /\ aged.ucsb_queue = moved.ucsb_queue
      /\ aged.next_drq = moved.next_drq /\ aged.sort_list = moved.sort_list
      /\ aged.hash = moved.hash
      /\ aged.hash_valid_count = moved.hash_valid_count /\ aged.starved = moved.starved
      /\ aged.ucsb_cnt = moved.ucsb_cnt /\ aged.ucsb_flag = moved.ucsb_flag
      /\ aged.rb_key = moved.rb_key
      /\ aged.fifo_list[d] \in List(Rq) /\ ToSet(aged.fifo_list[d]) = ToSet(moved.fifo_list[d])
      /\ \A c \in Dirs \ {d} : aged.fifo_list[c] = moved.fifo_list[c]
  <2>1. CASE swap
    <3>1. /\ fifo_behind(moved.fifo_list[d], r, next) \in List(Rq)
          /\ ToSet(fifo_behind(moved.fifo_list[d], r, next)) = ToSet(moved.fifo_list[d])
      BY <1>3, <2>1, FifoBehindList
    <3>2. moved.expires[next] \in Int /\ fifo_behind(moved.fifo_list[d], r, next) \in Seq(Rq)
      BY <1>0, <1>3, <3>1 DEF QueueType, List
    <3>3. aged = [moved EXCEPT !.fifo_list[d] = fifo_behind(@, r, next),
                               !.expires[r] = moved.expires[next]]
      BY <2>1
    <3> HIDE DEF aged
    <3>4. /\ [moved.fifo_list EXCEPT ![d] = fifo_behind(@, r, next)] \in [Dirs -> Seq(Rq)]
          /\ [moved.expires EXCEPT ![r] = moved.expires[next]] \in [Rq -> Int]
      BY <1>0, <1>3, <3>2 DEF QueueType
    <3>5. /\ aged \in QueueType
          /\ aged.fifo_list = [moved.fifo_list EXCEPT ![d] = fifo_behind(@, r, next)]
      BY <1>3, <3>3, <3>4 DEF QueueType
    <3>6. /\ aged.fifo_list[d] = fifo_behind(moved.fifo_list[d], r, next)
          /\ \A c \in Dirs \ {d} : aged.fifo_list[c] = moved.fifo_list[c]
      BY <1>0, <1>3, <3>5 DEF QueueType
    <3> QED
      BY <1>3, <3>1, <3>3, <3>5, <3>6 DEF QueueType
  <2>2. CASE ~swap
    BY <1>3, <2>2
  <2> QED
    BY <2>1, <2>2
<1> HIDE DEF aged
<1>5. WellFormed(aged, {}, {}) /\ Sorted(aged) = Sorted(moved)
  <2>1. Sorted(aged) = Sorted(moved) /\ Queued(aged) = Queued(moved) /\ FlagTellsList(aged)
    BY <1>1, <1>4 DEF Sorted, Queued, FlagTellsList, WellFormed
  <2>2. ListsDisjoint(aged)
    BY <1>3, <1>4, <2>1 DEF ListsDisjoint, List
  <2>3. \A c \in Dirs : ToSet(aged.fifo_list[c]) = ToSet(moved.fifo_list[c])
    BY <1>4
  <2> QED
    BY <1>1, <1>4, <2>1, <2>2, <2>3 DEF WellFormed
<1>6. next \notin ToSet(aged.ucsb_queue) /\ next \notin ToSet(aged.queue_head)
  BY <1>1, <1>5 DEF WellFormed, ListsDisjoint
<1>7. WellFormed(p, {}, {}) /\ Gone(aged, next, p)
  <2>1. {} \in SUBSET Rq
    OBVIOUS
  <2> QED
    BY <1>0, <1>2, <1>5, <1>6, <2>1, RemoveWellFormed
<1>8. \A s \in Sorted(p) : p.rb_key[s] = q.rb_key[s]
  BY <1>1, <1>4, <1>5, <1>7 DEF Gone, SortedIn
<1>9. p.queue_head = q.queue_head
  <2>1. aged.queue_head \in List(Rq)
    BY <1>5, ListTypes DEF WellFormed
  <2> QED
    BY <1>1, <1>4, <1>6, <1>7, <2>1, RemoveFirstList DEF Gone
<1> QED
  BY <1>1, <1>4, <1>5, <1>6, <1>7, <1>8, <1>9 DEF Gone, SortedIn, Swallowed

\* Only hints changed: no request moved.
SamePlaces(q, p) ==
  /\ p.sort_list = q.sort_list /\ p.fifo_list = q.fifo_list
  /\ p.queue_head = q.queue_head /\ p.ucsb_queue = q.ucsb_queue
  /\ p.rb_key = q.rb_key
  /\ \A s \in Rq : p.hash[s] \in {0, q.hash[s]}
  /\ p.starved = q.starved

\* Changing the hints to ones that are as good keeps the scheduler well formed.
LEMMA HintsWellFormed ==
  ASSUME NEW q, WellFormed(q, {}, {}), NEW p \in QueueType, SamePlaces(q, p),
         p.next_drq = q.next_drq, p.last_merge \in Sorted(q) \cup {NULL},
         p.ucsb_cnt = q.ucsb_cnt, p.ucsb_flag = q.ucsb_flag
  PROVE  WellFormed(p, {}, {}) /\ Sorted(p) = Sorted(q)
<1>1. Sorted(p) = Sorted(q) /\ Queued(p) = Queued(q) /\ ListsDisjoint(p) /\ FlagTellsList(p)
  BY DEF Sorted, Queued, ListsDisjoint, FlagTellsList, WellFormed, SamePlaces
<1>2. \A s \in Rq : p.hash[s] # 0 => s \in Sorted(p)
  BY <1>1 DEF WellFormed, SamePlaces
<1> QED
  BY <1>1, <1>2 DEF WellFormed, SamePlaces

LEMMA ForgetMergeWellFormed ==
  ASSUME NEW q, WellFormed(q, {}, {}), NEW r, NEW p, p = ForgetMerge(q, r)
  PROVE  /\ WellFormed(p, {}, {}) /\ SamePlaces(q, p)
         /\ Sorted(p) = Sorted(q) /\ p.hash_valid_count = q.hash_valid_count
<1>1. q \in QueueType /\ q.last_merge \in Sorted(q) \cup {NULL}
  BY DEF WellFormed
<1>2. /\ p \in QueueType /\ SamePlaces(q, p) /\ p.next_drq = q.next_drq
      /\ p.last_merge \in {q.last_merge, NULL} /\ p.hash_valid_count = q.hash_valid_count
      /\ p.ucsb_cnt = q.ucsb_cnt /\ p.ucsb_flag = q.ucsb_flag
  BY <1>1 DEF QueueType, ForgetMerge, SamePlaces
<1> QED
  BY <1>1, <1>2, HintsWellFormed

\* deadline_merge only touches hints, and a request it offers for a merge is sorted.
LEMMA MergeWellFormed ==
  ASSUME NEW q, WellFormed(q, {}, {}), NEW rq, NEW dir \in Dirs, NEW sector,
         NEW hit \in hash_hits(q, rq, sector) \cup {NULL}, NEW dead \in SUBSET Rq,
         NEW m, m = deadline_merge(q, rq, dir, sector, hit, dead)
  PROVE  /\ WellFormed(m.q, {}, {}) /\ SamePlaces(q, m.q) /\ Sorted(m.q) = Sorted(q)
         /\ m.q.hash_valid_count = q.hash_valid_count
         /\ m.ret # "NO_MERGE" => m.req \in Sorted(q)
<1> DEFINE last   == elv_try_last_merge(q, rq, dir, sector)
           tried  == [q EXCEPT !.last_merge = IF @ # NULL /\ ~rq_mergeable(rq, @) THEN NULL ELSE @]
           walked == [tried EXCEPT !.hash = [r \in Rq |-> IF r \in dead THEN 0 ELSE @[r]]]
           front  == deadline_find_drq_rb(q, dir, sector + 1)
<1>0. q \in QueueType /\ q.last_merge \in Sorted(q) \cup {NULL} /\ Sorted(q) \subseteq Rq
  BY DEF WellFormed, QueueType, Sorted, Dirs
<1>1. hit \in Sorted(q) \cup {NULL}
  BY <1>0 DEF hash_hits, WellFormed, QueueType
<1>2. front \in Sorted(q) \cup {NULL}
  <2>1. front \in q.sort_list[dir] \cup {NULL}
    BY DEF deadline_find_drq_rb
  <2> QED
    BY <2>1 DEF Sorted, Dirs
<1>3. last # "NO_MERGE" => q.last_merge \in Sorted(q)
  BY <1>0 DEF elv_try_last_merge
<1>4. \/ m = [ret |-> last, req |-> q.last_merge, q |-> tried] /\ last # "NO_MERGE"
      \/ m = [ret |-> "BACK_MERGE", req |-> hit, q |-> [walked EXCEPT !.last_merge = hit]] /\ hit # NULL
      \/ m = [ret |-> "FRONT_MERGE", req |-> front, q |-> [walked EXCEPT !.last_merge = front]] /\ front # NULL
      \/ m = [ret |-> "NO_MERGE", req |-> NULL, q |-> walked]
  <2> HIDE DEF tried, walked, front
  <2>1. m = IF last # "NO_MERGE" THEN [ret |-> last, req |-> q.last_merge, q |-> tried]
            ELSE IF hit # NULL /\ elv_rq_merge_ok(rq, hit, dir)
            THEN [ret |-> "BACK_MERGE", req |-> hit, q |-> [walked EXCEPT !.last_merge = hit]]
            ELSE IF front_merges /\ front # NULL /\ elv_rq_merge_ok(rq, front, dir)
            THEN [ret |-> "FRONT_MERGE", req |-> front, q |-> [walked EXCEPT !.last_merge = front]]
            ELSE [ret |-> "NO_MERGE", req |-> NULL, q |-> walked]
    BY DEF deadline_merge, tried, walked, front
  <2> HIDE DEF last
  <2> QED
    BY <2>1
<1>5. /\ tried \in QueueType /\ SamePlaces(q, tried) /\ tried.next_drq = q.next_drq
      /\ tried.last_merge \in Sorted(q) \cup {NULL} /\ tried.hash_valid_count = q.hash_valid_count
      /\ tried.ucsb_cnt = q.ucsb_cnt /\ tried.ucsb_flag = q.ucsb_flag
  BY <1>0 DEF QueueType, SamePlaces
<1> HIDE DEF tried, front, last
<1>6. /\ walked \in QueueType /\ SamePlaces(q, walked) /\ walked.next_drq = q.next_drq
      /\ walked.last_merge \in Sorted(q) \cup {NULL} /\ walked.hash_valid_count = q.hash_valid_count
      /\ walked.ucsb_cnt = q.ucsb_cnt /\ walked.ucsb_flag = q.ucsb_flag
  <2>1. [r \in Rq |-> IF r \in dead THEN 0 ELSE tried.hash[r]] \in [Rq -> Nat]
    BY <1>5 DEF QueueType
  <2> QED
    BY <1>5, <2>1 DEF QueueType, SamePlaces
<1> HIDE DEF walked
<1>7. ASSUME NEW x \in Sorted(q), NEW w, w = [walked EXCEPT !.last_merge = x]
      PROVE  /\ w \in QueueType /\ SamePlaces(q, w) /\ w.next_drq = q.next_drq
             /\ w.last_merge = x /\ w.hash_valid_count = q.hash_valid_count
             /\ w.ucsb_cnt = q.ucsb_cnt /\ w.ucsb_flag = q.ucsb_flag
  BY <1>0, <1>6, <1>7 DEF QueueType, SamePlaces
<1>8. /\ m.q \in QueueType /\ SamePlaces(q, m.q) /\ m.q.next_drq = q.next_drq
      /\ m.q.last_merge \in Sorted(q) \cup {NULL} /\ m.q.hash_valid_count = q.hash_valid_count
      /\ m.q.ucsb_cnt = q.ucsb_cnt /\ m.q.ucsb_flag = q.ucsb_flag
      /\ m.ret # "NO_MERGE" => m.req \in Sorted(q)
  <2>1. CASE m = [ret |-> last, req |-> q.last_merge, q |-> tried] /\ last # "NO_MERGE"
    BY <2>1, <1>3, <1>5
  <2>2. CASE m = [ret |-> "BACK_MERGE", req |-> hit, q |-> [walked EXCEPT !.last_merge = hit]] /\ hit # NULL
    BY <2>2, <1>1, <1>7
  <2>3. CASE m = [ret |-> "FRONT_MERGE", req |-> front, q |-> [walked EXCEPT !.last_merge = front]] /\ front # NULL
    BY <2>3, <1>2, <1>7
  <2>4. CASE m = [ret |-> "NO_MERGE", req |-> NULL, q |-> walked]
    BY <2>4, <1>6
  <2> QED
    BY <1>4, <2>1, <2>2, <2>3, <2>4
<1> QED
  BY <1>8, HintsWellFormed

(***************************************************************************)
(* The QoS queue                                                           *)
(***************************************************************************)
\* Wherever the two scans stop, r is inserted inside the list.
LEMMA ScanInRange ==
  ASSUME NEW q, q.ucsb_queue \in Seq(Rq), NEW rq, NEW prio, NEW r
  PROVE  scan_sector(q, rq, prio, r) \in 0 .. Len(q.ucsb_queue)
<1> DEFINE L == Len(q.ucsb_queue)
           lower == {i \in DOMAIN q.ucsb_queue : prio[q.ucsb_queue[i]] < prio[r]}
           n == scan_priority(q, prio, r)
           I == {0} \cup {i \in 1 .. n : bi_sector(rq, q.ucsb_queue[i]) <= bi_sector(rq, r)}
<1>1. L \in Nat /\ DOMAIN q.ucsb_queue = 1 .. L
  BY LenProperties
<1>2. n \in 0 .. L
  <2>1. lower \in SUBSET Nat /\ lower \subseteq 1 .. L
    BY <1>1
  <2>2. n = IF lower = {} THEN L ELSE Min(lower)
    BY DEF scan_priority
  <2> HIDE DEF lower, n, L
  <2>3. CASE lower = {}
    BY <1>1, <2>2, <2>3
  <2>4. CASE lower # {}
    <3>1. Min(lower) \in lower
      BY <2>1, <2>4, MinIsLeast
    <3>2. n \in 1 .. L
      BY <2>1, <2>2, <2>4, <3>1
    <3> QED
      BY <1>1, <3>2
  <2> QED
    BY <2>3, <2>4
<1> HIDE DEF n
<1>3. I \in SUBSET Nat /\ I # {} /\ \A i \in I : i <= L
  BY <1>1, <1>2
<1>4. Max(I) \in I
  <2> HIDE DEF I, L
  <2> QED
    BY <1>1, <1>3, MaxIsGreatest
<1>5. Max(I) \in 0 .. L
  <2> HIDE DEF I, L
  <2>1. Max(I) \in Nat /\ Max(I) <= L
    BY <1>3, <1>4
  <2> QED
    BY <1>1, <2>1
<1> QED
  BY <1>5 DEF scan_sector, n

\* r was added to the QoS queue, and nothing else moved.
QosAdded(q, r, p) ==
  /\ Sorted(p) = Sorted(q) /\ ToSet(p.ucsb_queue) = ToSet(q.ucsb_queue) \cup {r}
  /\ p.queue_head = q.queue_head /\ p.rb_key = q.rb_key /\ p.hash = q.hash
  /\ p.hash_valid_count = q.hash_valid_count /\ p.starved = q.starved

LEMMA InsertUcsbWellFormed ==
  ASSUME NEW q, WellFormed(q, {}, {}), NEW rq, NEW prio, NEW r \in Rq, r \notin Queued(q),
         NEW p, p = insert_ucsb(q, rq, prio, r)
  PROVE  WellFormed(p, {}, {}) /\ QosAdded(q, r, p)
<1> DEFINE u == [q EXCEPT !.ucsb_flag[r] = TRUE]
           i == scan_sector(u, rq, prio, r) + 1
           new == IF q.ucsb_queue = <<>> THEN <<r>> ELSE InsertAt(q.ucsb_queue, i, r)
<1>0. /\ q \in QueueType /\ ListsDisjoint(q) /\ q.ucsb_queue \in List(Rq) /\ Len(q.ucsb_queue) \in Nat
      /\ r \notin ToSet(q.ucsb_queue) /\ r \notin ToSet(q.queue_head) /\ r \notin Sorted(q)
  <2>1. q \in QueueType /\ ListsDisjoint(q) /\ q.ucsb_queue \in List(Rq)
    BY ListTypes DEF WellFormed
  <2> QED
    BY <2>1, LenProperties DEF Queued, List
<1>1. u.ucsb_queue = q.ucsb_queue /\ u.ucsb_cnt = q.ucsb_cnt
  BY <1>0 DEF QueueType
<1>2. p = [u EXCEPT !.ucsb_cnt = @ + 1, !.ucsb_queue = new]
  BY <1>1 DEF insert_ucsb, ucsb_io_add_request
<1>3. new \in List(Rq) /\ ToSet(new) = ToSet(q.ucsb_queue) \cup {r} /\ Len(new) = Len(q.ucsb_queue) + 1
  <2>1. i \in 1 .. Len(q.ucsb_queue) + 1
    <3>1. scan_sector(u, rq, prio, r) \in 0 .. Len(u.ucsb_queue)
      <4> HIDE DEF u
      <4> QED
        BY <1>0, <1>1, ScanInRange DEF List
    <3> HIDE DEF u
    <3> QED
      BY <1>0, <1>1, <3>1
  <2>2. CASE q.ucsb_queue = <<>>
    <3>1. new = Append(q.ucsb_queue, r)
      BY <2>2
    <3> HIDE DEF i, new
    <3> QED
      BY <1>0, <3>1, AppendList
  <2>3. CASE q.ucsb_queue # <<>>
    <3>1. new = InsertAt(q.ucsb_queue, i, r)
      BY <2>3
    <3> HIDE DEF i, new
    <3> QED
      BY <1>0, <2>1, <3>1, InsertAtList
  <2> QED
    BY <2>2, <2>3
<1> HIDE DEF new
<1>4. /\ p \in QueueType /\ p.ucsb_queue = new /\ p.ucsb_cnt = q.ucsb_cnt + 1
      /\ p.ucsb_flag = [q.ucsb_flag EXCEPT ![r] = TRUE]
      /\ p.queue_head = q.queue_head /\ p.next_drq = q.next_drq
      /\ p.sort_list = q.sort_list /\ p.fifo_list = q.fifo_list
      /\ p.last_merge = q.last_merge /\ p.hash = q.hash
      /\ p.hash_valid_count = q.hash_valid_count /\ p.starved = q.starved /\ p.rb_key = q.rb_key
  <2>1. [q.ucsb_flag EXCEPT ![r] = TRUE] \in [Rq -> BOOLEAN] /\ new \in Seq(Rq) /\ q.ucsb_cnt + 1 \in Int
    <3>1. q.ucsb_flag \in [Rq -> BOOLEAN] /\ q.ucsb_cnt \in Int
      BY <1>0, FieldTypes
    <3>2. [q.ucsb_flag EXCEPT ![r] = TRUE] \in [Rq -> BOOLEAN]
      BY <3>1
    <3>3. new \in Seq(Rq)
      BY <1>3 DEF List
    <3>4. q.ucsb_cnt + 1 \in Int
      BY <3>1
    <3> QED
      BY <3>2, <3>3, <3>4
  <2>2. p = SetUcsb(q, [q.ucsb_flag EXCEPT ![r] = TRUE], q.ucsb_cnt + 1, new)
    BY <1>0, <1>2 DEF QueueType, SetUcsb
  <2> DEFINE flag == [q.ucsb_flag EXCEPT ![r] = TRUE]
  <2> HIDE DEF u, flag
  <2>3. p = SetUcsb(q, flag, q.ucsb_cnt + 1, new) /\ flag \in [Rq -> BOOLEAN]
    BY <2>1, <2>2 DEF flag
  <2>4. /\ p \in QueueType /\ p.ucsb_queue = new /\ p.ucsb_cnt = q.ucsb_cnt + 1
        /\ p.ucsb_flag = flag
        /\ p.queue_head = q.queue_head /\ p.next_drq = q.next_drq
        /\ p.sort_list = q.sort_list /\ p.fifo_list = q.fifo_list
        /\ p.last_merge = q.last_merge /\ p.hash = q.hash
        /\ p.hash_valid_count = q.hash_valid_count /\ p.starved = q.starved /\ p.rb_key = q.rb_key
    BY <1>0, <2>1, <2>3, SetUcsbFields
  <2> QED
    BY <2>4 DEF flag
<1>5. Sorted(p) = Sorted(q) /\ ListsDisjoint(p)
  BY <1>0, <1>3, <1>4 DEF Sorted, ListsDisjoint, List
<1>6. FlagTellsList(p)
  <2>1. p.ucsb_flag[r] /\ \A s \in Rq \ {r} : p.ucsb_flag[s] = q.ucsb_flag[s]
    BY <1>0, <1>4 DEF QueueType
  <2>2. ToSet(q.ucsb_queue) \subseteq Rq
    BY <1>0, ListElements
  <2> QED
    BY <1>0, <1>3, <1>4, <2>1, <2>2 DEF FlagTellsList, WellFormed
<1>7. WellFormed(p, {}, {})
  BY <1>4, <1>5, <1>6 DEF WellFormed
<1> QED
  BY <1>3, <1>4, <1>5, <1>7 DEF QosAdded

\* The first request of the QoS queue went to the dispatch list.
QosDispatched(q, p) ==
  /\ Sorted(p) = Sorted(q)
  /\ ToSet(p.ucsb_queue) \subseteq ToSet(q.ucsb_queue)
  /\ HeadGrows(q, p, ToSet(q.ucsb_queue))
  /\ ToSet(q.queue_head) \subseteq ToSet(p.queue_head)
  /\ ToSet(p.ucsb_queue) \cup ToSet(p.queue_head) = ToSet(q.ucsb_queue) \cup ToSet(q.queue_head)
  /\ p.rb_key = q.rb_key /\ p.hash = q.hash
  /\ p.hash_valid_count = q.hash_valid_count /\ p.starved = q.starved

LEMMA DispatchUcsbWellFormed ==
  ASSUME NEW q, WellFormed(q, {}, {}), q.ucsb_queue # <<>>,
         NEW p, p = ucsb_io_dispatch_request(q)
  PROVE  WellFormed(p, {}, {}) /\ QosDispatched(q, p) /\ p.queue_head # <<>>
<1> DEFINE r == Head(q.ucsb_queue)
<1>0. q \in QueueType /\ ListsDisjoint(q) /\ q.ucsb_queue \in List(Rq) /\ q.queue_head \in List(Rq)
  BY ListTypes DEF WellFormed
<1>1. /\ r \in ToSet(q.ucsb_queue) /\ r \in Rq
      /\ Tail(q.ucsb_queue) \in List(Rq)
      /\ ToSet(Tail(q.ucsb_queue)) = ToSet(q.ucsb_queue) \ {r}
      /\ Len(Tail(q.ucsb_queue)) = Len(q.ucsb_queue) - 1
  BY <1>0, TailList, ListElements
<1>2. r \notin ToSet(q.queue_head) /\ r \notin Sorted(q)
  BY <1>0, <1>1 DEF ListsDisjoint
<1>3. /\ Append(q.queue_head, r) \in List(Rq)
      /\ ToSet(Append(q.queue_head, r)) = ToSet(q.queue_head) \cup {r}
  BY <1>0, <1>1, <1>2, AppendList
<1>4. p = [q EXCEPT !.ucsb_queue = Tail(@), !.ucsb_cnt = @ - 1, !.queue_head = Append(@, r)]
  BY DEF ucsb_io_dispatch_request
<1> HIDE DEF r
<1>5. /\ p \in QueueType /\ p.ucsb_queue = Tail(q.ucsb_queue) /\ p.ucsb_cnt = q.ucsb_cnt - 1
      /\ p.queue_head = Append(q.queue_head, r)
      /\ p.ucsb_flag = q.ucsb_flag /\ p.next_drq = q.next_drq
      /\ p.sort_list = q.sort_list /\ p.fifo_list = q.fifo_list
      /\ p.last_merge = q.last_merge /\ p.hash = q.hash
      /\ p.hash_valid_count = q.hash_valid_count /\ p.starved = q.starved /\ p.rb_key = q.rb_key
  <2>1. Tail(q.ucsb_queue) \in Seq(Rq) /\ Append(q.queue_head, r) \in Seq(Rq) /\ q.ucsb_cnt - 1 \in Int
    <3>1. q.ucsb_cnt \in Int
      BY <1>0, FieldTypes
    <3>2. Tail(q.ucsb_queue) \in Seq(Rq) /\ Append(q.queue_head, r) \in Seq(Rq)
      BY <1>1, <1>3 DEF List
    <3> QED
      BY <3>1, <3>2
  <2> DEFINE t == Tail(q.ucsb_queue)
             a == Append(q.queue_head, r)
  <2>2. p = SetDispatch(q, t, q.ucsb_cnt - 1, a)
    BY <1>0, <1>4 DEF QueueType, SetDispatch
  <2>3. t \in Seq(Rq) /\ a \in Seq(Rq)
    BY <2>1
  <2> HIDE DEF t, a
  <2>4. /\ p \in QueueType /\ p.ucsb_queue = t /\ p.ucsb_cnt = q.ucsb_cnt - 1 /\ p.queue_head = a
        /\ p.ucsb_flag = q.ucsb_flag /\ p.next_drq = q.next_drq
        /\ p.sort_list = q.sort_list /\ p.fifo_list = q.fifo_list
        /\ p.last_merge = q.last_merge /\ p.hash = q.hash
        /\ p.hash_valid_count = q.hash_valid_count /\ p.starved = q.starved /\ p.rb_key = q.rb_key
    BY <1>0, <2>1, <2>2, <2>3, SetDispatchFields
  <2> QED
    BY <2>4 DEF t, a
<1>6. Sorted(p) = Sorted(q) /\ ListsDisjoint(p)
  BY <1>0, <1>1, <1>2, <1>3, <1>5 DEF Sorted, ListsDisjoint, List
<1>7. FlagTellsList(p)
  BY <1>0, <1>1, <1>3, <1>5 DEF FlagTellsList, WellFormed
<1>8. WellFormed(p, {}, {})
  BY <1>5, <1>6, <1>7 DEF WellFormed
<1>9. p.queue_head # <<>>
  BY <1>3, <1>5, ListElements
<1> QED
  BY <1>1, <1>3, <1>5, <1>6, <1>8, <1>9 DEF QosDispatched, HeadGrows

(***************************************************************************)
(* Dispatching                                                             *)
(***************************************************************************)
LEMMA ModNat ==
  ASSUME NEW a \in Nat, NEW b \in Nat \ {0}
  PROVE  a % b \in Nat /\ a % b <= a
OBVIOUS

\* The direction chosen has requests whenever there are any.
LEMMA DispatchDirHasRequests ==
  ASSUME NEW q, deadline_has_request(q)
  PROVE  dispatch_dir(q) \in Dirs /\ q.fifo_list[dispatch_dir(q)] # <<>>
BY DEF deadline_has_request, dispatch_dir, Dirs, READ, WRITE

\* The count of times reads were preferred stays within writes_starved, and is a natural.
LEMMA StarvedNextBound ==
  ASSUME NEW q \in QueueType, q.starved <= writes_starved
  PROVE  starved_next(q) \in Nat /\ starved_next(q) <= writes_starved
<1>0. q.starved \in Nat /\ writes_starved \in Nat /\ UINT \in Nat \ {0}
  BY IoschedAssumption DEF QueueType
<1>1. CASE dispatch_dir(q) = WRITE
  BY <1>0, <1>1 DEF starved_next
<1>2. CASE dispatch_dir(q) # WRITE /\ q.fifo_list[WRITE] # <<>>
  <2>1. q.starved < writes_starved
    BY <1>0, <1>2 DEF dispatch_dir
  <2>2. starved_next(q) = (q.starved + 1) % UINT
    BY <1>2 DEF starved_next
  <2>3. (q.starved + 1) % UINT \in Nat /\ (q.starved + 1) % UINT <= q.starved + 1
    BY <1>0, ModNat
  <2> QED
    BY <1>0, <2>1, <2>2, <2>3
<1>3. CASE dispatch_dir(q) # WRITE /\ q.fifo_list[WRITE] = <<>>
  BY <1>0, <1>3 DEF starved_next
<1> QED
  BY <1>1, <1>2, <1>3

LEMMA DispatchRequestsWellFormed ==
  ASSUME NEW q, WellFormed(q, {}, {}), deadline_has_request(q), q.starved <= writes_starved,
         NEW rq, \A s \in Rq : rq_end(rq, s) \in Nat,
         NEW p, p = deadline_dispatch_requests(q, rq)
  PROVE  /\ WellFormed(p, {}, {}) /\ MovesOn(q, p)
         /\ p.starved <= writes_starved /\ p.queue_head # <<>>
<1> DEFINE next     == IF q.next_drq[WRITE] # NULL THEN q.next_drq[WRITE] ELSE q.next_drq[READ]
           batching == IF next # NULL /\ q.last_sector # rq[next].sector
                       THEN (q.batching + fifo_batch) % UINT ELSE q.batching
           inBatch  == next # NULL /\ batching < fifo_batch
           dir      == dispatch_dir(q)
           expired  == deadline_check_fifo(q, dir)
           restart  == expired \/ q.next_drq[dir] = NULL
           drq      == IF inBatch THEN next
                       ELSE IF expired THEN Head(q.fifo_list[dir])
                       ELSE IF q.next_drq[dir] # NULL THEN q.next_drq[dir]
                       ELSE deadline_find_first_drq(q, dir)
           newBatching == ((IF ~inBatch /\ restart THEN 0 ELSE batching) + 1) % UINT
           newStarved  == IF inBatch THEN q.starved ELSE starved_next(q)
           q1 == [q EXCEPT !.batching = newBatching, !.starved = newStarved]
<1>0. /\ q \in QueueType /\ ListsDisjoint(q) /\ NULL \notin Rq /\ UINT \in Nat \ {0} /\ fifo_batch \in Nat
      /\ \A d \in Dirs : q.sort_list[d] \subseteq Sorted(q) /\ q.sort_list[d] \subseteq Rq
  BY IoschedAssumption DEF WellFormed, Sorted, Dirs, QueueType
<1>1. dir \in Dirs /\ q.fifo_list[dir] # <<>> /\ q.fifo_list[dir] \in List(Rq)
  BY <1>0, DispatchDirHasRequests, ListTypes
<1>2. drq \in Sorted(q)
  <2>1. next \in Sorted(q) \cup {NULL}
    BY <1>0 DEF WellFormed, Dirs
  <2>2. ToSet(q.fifo_list[dir]) = q.sort_list[dir] /\ q.next_drq[dir] \in q.sort_list[dir] \cup {NULL}
    BY <1>1 DEF WellFormed
  <2>3. Head(q.fifo_list[dir]) \in q.sort_list[dir]
    BY <1>1, <2>2, TailList
  <2>4. deadline_find_first_drq(q, dir) \in q.sort_list[dir]
    <3>1. q.rb_key \in [Rq -> Nat]
      BY <1>0 DEF QueueType
    <3> QED
      BY <1>0, <1>1, <2>3, <3>1, LowestIn DEF deadline_find_first_drq
  <2>5. inBatch => next # NULL
    OBVIOUS
  <2> HIDE DEF next, inBatch, dir, expired
  <2> QED
    BY <1>0, <1>1, <2>1, <2>2, <2>3, <2>4, <2>5
<1>3. batching \in Nat
  <2>1. q.batching \in Nat /\ q.batching + fifo_batch \in Nat
    BY <1>0 DEF QueueType
  <2>2. (q.batching + fifo_batch) % UINT \in Nat
    BY <1>0, <2>1, ModNat
  <2> QED
    BY <2>1, <2>2
<1>4. newBatching \in Nat
  <2> HIDE DEF batching, inBatch, restart
  <2>1. (IF ~inBatch /\ restart THEN 0 ELSE batching) + 1 \in Nat
    BY <1>3
  <2> QED
    BY <1>0, <2>1, ModNat
<1>5. newStarved \in Nat /\ newStarved <= writes_starved
  <2>1. q.starved \in Nat
    BY <1>0 DEF QueueType
  <2> HIDE DEF inBatch
  <2> QED
    BY <1>0, <2>1, StarvedNextBound
<1>6. p = deadline_move_request(q1, rq, drq)
  BY DEF deadline_dispatch_requests
<1> HIDE DEF drq, newBatching, newStarved, next, inBatch, dir, expired, restart, batching
<1>7. /\ q1 \in QueueType /\ q1.starved = newStarved
      /\ q1.queue_head = q.queue_head /\ q1.ucsb_queue = q.ucsb_queue /\ q1.next_drq = q.next_drq
      /\ q1.sort_list = q.sort_list /\ q1.fifo_list = q.fifo_list
      /\ q1.last_merge = q.last_merge /\ q1.hash = q.hash
      /\ q1.hash_valid_count = q.hash_valid_count
      /\ q1.ucsb_cnt = q.ucsb_cnt /\ q1.ucsb_flag = q.ucsb_flag /\ q1.rb_key = q.rb_key
  BY <1>0, <1>4, <1>5 DEF QueueType
<1> HIDE DEF q1
<1>8. WellFormed(q1, {}, {}) /\ Sorted(q1) = Sorted(q)
  <2>1. ListsDisjoint(q1) /\ Sorted(q1) = Sorted(q) /\ Queued(q1) = Queued(q) /\ FlagTellsList(q1)
    BY <1>7 DEF ListsDisjoint, Sorted, Queued, FlagTellsList, WellFormed
  <2> QED
    BY <1>7, <2>1 DEF WellFormed
<1>9. WellFormed(p, {}, {}) /\ Dispatched(q1, drq, p)
  <2>1. {} \in SUBSET Rq /\ drq \in Sorted(q1) /\ rq_end(rq, drq) \in Nat
    BY <1>0, <1>2, <1>8 DEF Sorted, Dirs
  <2> QED
    BY <1>6, <1>8, <2>1, MoveWellFormed
<1>10. MovesOn(q, p) /\ p.starved = newStarved
  <2>1. MovesOn(q1, p)
    BY <1>2, <1>8, <1>9, DispatchedMovesOn
  <2> QED
    BY <1>7, <1>8, <1>9, <2>1 DEF MovesOn, HeadGrows, Dispatched
<1>11. p.queue_head # <<>>
  <2>1. drq \in ToSet(p.queue_head) /\ p.queue_head \in List(Rq)
    BY <1>9, ListTypes DEF Dispatched, WellFormed
  <2> QED
    BY <2>1, ListElements
<1> QED
  BY <1>5, <1>9, <1>10, <1>11

\* Requests may have moved from the sort lists or the QoS queue to the dispatch list.
Advances(q, p) ==
  /\ Sorted(p) \subseteq Sorted(q)
  /\ ToSet(p.ucsb_queue) \subseteq ToSet(q.ucsb_queue)
  /\ HeadGrows(q, p, Sorted(q) \cup ToSet(q.ucsb_queue))
  /\ ToSet(q.queue_head) \subseteq ToSet(p.queue_head)
  /\ Queued(p) = Queued(q)
  /\ \A s \in Sorted(p) : p.rb_key[s] = q.rb_key[s]
  /\ \A s \in Rq : p.hash[s] \in {0, q.hash[s]}
  /\ p.hash_valid_count = q.hash_valid_count

LEMMA NextRequestWellFormed ==
  ASSUME NEW q, WellFormed(q, {}, {}), q.starved <= writes_starved,
         NEW rq, \A s \in Rq : rq_end(rq, s) \in Nat, NEW prio,
         NEW p, p = deadline_next_request(q, rq, prio)
  PROVE  WellFormed(p, {}, {}) /\ Advances(q, p) /\ p.starved <= writes_starved
<1>1. CASE p = q
  BY <1>1 DEF Advances, HeadGrows, Queued
<1>2. CASE q.ucsb_queue # <<>> /\ p = ucsb_io_dispatch_request(q)
  <2>1. WellFormed(p, {}, {}) /\ QosDispatched(q, p)
    BY <1>2, DispatchUcsbWellFormed
  <2> QED
    BY <2>1 DEF QosDispatched, Advances, HeadGrows, Queued
<1>3. CASE deadline_has_request(q) /\ p = deadline_dispatch_requests(q, rq)
  <2>1. WellFormed(p, {}, {}) /\ MovesOn(q, p) /\ p.starved <= writes_starved
    BY <1>3, DispatchRequestsWellFormed
  <2> QED
    BY <2>1 DEF MovesOn, Advances, HeadGrows, Queued
<1> QED
  BY <1>1, <1>2, <1>3 DEF deadline_next_request, ucsb_io_can_dispatch

(***************************************************************************)
(* Barriers and special requests                                           *)
(***************************************************************************)
\* The generation of the hash is never 0, whatever it wraps around.
LEMMA InsertBarrierWellFormed ==
  ASSUME NEW q, WellFormed(q, {}, {}), NEW p, p = insert_barrier(q)
  PROVE  WellFormed(p, {}, {}) /\ SamePlaces(q, p) /\ Sorted(p) = Sorted(q)
<1> DEFINE v == (q.hash_valid_count + 1) % ULONG
           w == IF v = 0 THEN 1 ELSE v
<1>0. q \in QueueType
  BY DEF WellFormed
<1>1. w \in Nat \ {0}
  <2>1. q.hash_valid_count + 1 \in Nat /\ ULONG \in Nat \ {0}
    BY <1>0, IoschedAssumption DEF QueueType
  <2>2. v \in Nat
    BY <2>1, ModNat
  <2> QED
    BY <2>2
<1>2. p = [q EXCEPT !.hash_valid_count = w, !.last_merge = NULL]
  BY <1>0 DEF insert_barrier, DL_INVALIDATE_HASH, QueueType
<1> HIDE DEF w
<1>3. /\ p \in QueueType /\ SamePlaces(q, p) /\ p.next_drq = q.next_drq
      /\ p.last_merge = NULL /\ p.ucsb_cnt = q.ucsb_cnt /\ p.ucsb_flag = q.ucsb_flag
  BY <1>0, <1>1, <1>2 DEF QueueType, SamePlaces
<1> QED
  BY <1>3, HintsWellFormed

\* r was put on the dispatch list.
Listed(q, r, p) ==
  /\ Sorted(p) = Sorted(q) /\ p.ucsb_queue = q.ucsb_queue
  /\ p.queue_head \in {Append(q.queue_head, r), <<r>> \o q.queue_head}
  /\ ToSet(p.queue_head) = ToSet(q.queue_head) \cup {r}
  /\ p.rb_key = q.rb_key /\ p.hash = q.hash
  /\ p.hash_valid_count = q.hash_valid_count /\ p.starved = q.starved

LEMMA InsertSpecialWellFormed ==
  ASSUME NEW q, WellFormed(q, {}, {}), NEW r \in Rq, r \notin Queued(q),
         NEW at_head \in BOOLEAN, NEW p, p = insert_special(q, r, at_head)
  PROVE  WellFormed(p, {}, {}) /\ Listed(q, r, p)
<1> DEFINE new == IF at_head THEN <<r>> \o q.queue_head ELSE Append(q.queue_head, r)
<1>0. /\ q \in QueueType /\ ListsDisjoint(q) /\ q.queue_head \in List(Rq)
      /\ r \notin ToSet(q.queue_head) /\ r \notin ToSet(q.ucsb_queue) /\ r \notin Sorted(q)
  <2>1. q \in QueueType /\ ListsDisjoint(q) /\ q.queue_head \in List(Rq)
    BY ListTypes DEF WellFormed
  <2> QED
    BY <2>1 DEF Queued
<1>1. new \in List(Rq) /\ ToSet(new) = ToSet(q.queue_head) \cup {r}
  <2>1. CASE at_head
    BY <1>0, <2>1, PrependList
  <2>2. CASE ~at_head
    BY <1>0, <2>2, AppendList
  <2> QED
    BY <2>1, <2>2
<1>2. p = [q EXCEPT !.queue_head = new]
  BY DEF insert_special
<1>3. new \in {Append(q.queue_head, r), <<r>> \o q.queue_head}
  OBVIOUS
<1> HIDE DEF new
<1>4. /\ p \in QueueType /\ p.queue_head = new
      /\ p.ucsb_queue = q.ucsb_queue /\ p.next_drq = q.next_drq
      /\ p.sort_list = q.sort_list /\ p.fifo_list = q.fifo_list
      /\ p.last_merge = q.last_merge /\ p.hash = q.hash
      /\ p.hash_valid_count = q.hash_valid_count /\ p.starved = q.starved
      /\ p.ucsb_cnt = q.ucsb_cnt /\ p.ucsb_flag = q.ucsb_flag /\ p.rb_key = q.rb_key
  BY <1>0, <1>1, <1>2 DEF QueueType, List
<1>5. Sorted(p) = Sorted(q) /\ ListsDisjoint(p) /\ FlagTellsList(p)
  BY <1>0, <1>1, <1>4 DEF Sorted, ListsDisjoint, List, FlagTellsList, WellFormed
<1>6. WellFormed(p, {}, {})
  BY <1>4, <1>5 DEF WellFormed
<1> QED
  BY <1>1, <1>3, <1>4, <1>5, <1>6 DEF Listed
=============================================================================
