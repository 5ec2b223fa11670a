--------------------------- MODULE DirectIOProofs ---------------------------
(***************************************************************************)
(* An O_DIRECT request, for every request, page size, block size and limit *)
(* of the device: it is answered once, when the device is done with every  *)
(* bio, and a synchronous one does not succeed when one of them failed.    *)
(*                                                                         *)
(* The invariant is about the request while it runs (Running):             *)
(*   Placed    what the worker is in the middle of, by where it is; in     *)
(*             particular nothing is sent before the first chunk of data,  *)
(*             where dio_zero_block drops the error;                       *)
(*   Counted   bio_count is the bios that have not been completed and the  *)
(*             worker's own share, and bio_list holds the ended ones;      *)
(*   Noted     where the error of a failed bio is.  It travels to the      *)
(*             caller in three ways: as ret2 when the bio is reaped while  *)
(*             the request is still being cut up, from there as ret, and   *)
(*             as dio.result once nothing adds to it any more.             *)
(* Two parts follow it, about the pages of the user's buffer: data read    *)
(* into one is not lost (FreshInv), and references on one are taken and    *)
(* dropped in pairs (RefInv).                                              *)
(***************************************************************************)
EXTENDS DirectIO, SeqLemmas, FiniteSetTheorems

(***************************************************************************)
(* The inductive invariant                                                 *)
(***************************************************************************)
\* The part of struct dio the invariant is about.
Fields ==
  {"bs", "zero_done", "cur", "back", "after", "waiter", "bio_count", "bio_list",
   "result", "ret", "ret2", "page_errors"}
Begun == Fields \subseteq DOMAIN dio

Errors ==
  /\ dio.ret \in {0, -EIO, -EFAULT}
  /\ dio.ret2 \in {0, -EIO}
  /\ dio.page_errors \in {0, -EFAULT}

Cutting == {"segment", "page", "chunk", "zero", "data", "zeroed", "queued", "tail"}
Sending == {"send", "new", "reap", "add", "sent"}
Ending == {"flush", "put", "await", "asleep", "done"}

\* Nothing adds to dio.result any more.
Late == dio.after = "last" \/ dio.back = "padded" \/ pc \in {"tail", "last"} \cup Ending

\* dio_zero_block(dio, 0) has been called, if it has anything to do.
Zeroed == dio.bs < InodeBlk => dio.zero_done

Placed ==
  /\ pc \in Cutting \cup Sending \cup Ending \cup {"section", "padded", "last", "BUG"}
  /\ pc \in Cutting => dio.after # "last" /\ dio.back # "padded"
  /\ pc = "section" => /\ dio.after # "last" /\ dio.back \in {"zeroed", "queued", "padded"}
                       /\ dio.back = "zeroed" => dio.cur = NONE
  /\ pc \in Sending => dio.after = "last" \/ dio.back \in {"queued", "padded"}
  /\ pc = "padded" => dio.after # "last" /\ dio.back = "padded"
  /\ pc = "last" => dio.after # "last"
  /\ pc \in Sending \cup {"data", "section", "zeroed", "queued", "padded"} => Zeroed
  /\ ~Zeroed => dio.cur = NONE
  /\ dio.waiter => pc = "asleep"
  /\ req.async => pc \notin {"await", "asleep"}

\* The bios as a list, and their states.
Bios ==
  /\ bios \in Seq(ToSet(bios))
  /\ \A b \in DOMAIN bios :
       /\ {"left", "ok", "state"} \subseteq DOMAIN bios[b]
       /\ bios[b].state \in IF req.async THEN {"flight", "dirty", "put"} ELSE {"flight", "ended", "put"}
ended == {b \in DOMAIN bios : bios[b].state = "ended"}

\* The share of bio_count the worker has until all bios are submitted.
share == IF pc \in {"await", "asleep", "done"} THEN 0 ELSE 1
Counted ==
  /\ dio.bio_count = Cardinality(busy) + share
  /\ dio.bio_list \in List(Nat) /\ ToSet(dio.bio_list) = ended

\* A bio that failed and has been taken off the list.
Failed == \E b \in DOMAIN bios : bios[b].state = "put" /\ ~bios[b].ok
\* Where its error is, when the request is synchronous.
Noted ==
  ~req.async /\ Failed /\ ~hist.masked =>
    IF Late THEN dio.ret # 0 \/ dio.result = -EIO
    ELSE dio.ret2 # 0 /\ pc \in {"reap", "sent", "queued"}

Running == Begun /\ Errors /\ Placed /\ Bios /\ Counted /\ Noted
Answered == outcome # <<>> => FailureReported /\ busy = {} /\ pc = "done" /\ Len(outcome) = 1
Inv ==
  /\ req \in Requests
  /\ "masked" \in DOMAIN hist
  /\ Answered
  /\ \/ pc = "start" /\ bios = <<>> /\ outcome = <<>>
     \/ pc = "done" /\ bios = <<>>
     \/ Running

(***************************************************************************)
(* Steps that neither submit a bio nor complete one                        *)
(***************************************************************************)
Steady ==
  /\ UNCHANGED <<req, bios, outcome>>
  /\ "masked" \in DOMAIN hist' /\ hist'.masked = hist.masked
  /\ Begun'
  /\ dio'.bs = dio.bs /\ dio'.waiter = dio.waiter
  /\ dio'.bio_count = dio.bio_count /\ dio'.bio_list = dio.bio_list

\* Where the worker is while it has a share of bio_count.
Submitting == Cutting \cup Sending \cup {"section", "padded", "last", "flush", "put", "BUG"}

\* The bios and their count are as before.
LEMMA SteadyStep ==
  ASSUME Running, Steady, pc \in Submitting, pc' \in Submitting
  PROVE  Bios' /\ Counted'
<1>1. Bios'
  BY DEF Running, Steady, Bios
<1>2. share' = share
  BY DEF Submitting, share, Cutting, Sending
<1>3. ended' = ended /\ busy' = busy
  BY DEF Steady, ended, busy
<1>4. Counted'
  BY <1>2, <1>3 DEF Running, Steady, Counted
<1> QED
  BY <1>1, <1>4

\* Where no error can be waiting in ret2, and once ret and result keep it.
LEMMA SteadyNoted ==
  ASSUME Running, Steady,
         pc \notin {"reap", "sent", "queued"} \/ dio.ret2 = 0,
         Late => Late' /\ dio'.ret = dio.ret /\ dio'.result = dio.result
  PROVE  Noted'
<1>1. Failed' = Failed /\ hist'.masked = hist.masked /\ req' = req
  BY DEF Steady, Failed
<1>2. CASE Late
  BY <1>1, <1>2 DEF Running, Noted
<1>3. CASE ~Late
  BY <1>1, <1>3 DEF Running, Noted
<1> QED
  BY <1>2, <1>3

\* The fields of d the invariant is about are those of e.
Alike(d, e) ==
  /\ Fields \subseteq DOMAIN d
  /\ d.bs = e.bs /\ d.zero_done = e.zero_done /\ d.cur = e.cur /\ d.back = e.back
  /\ d.after = e.after /\ d.waiter = e.waiter /\ d.bio_count = e.bio_count
  /\ d.bio_list = e.bio_list /\ d.result = e.result /\ d.ret = e.ret /\ d.ret2 = e.ret2
  /\ d.page_errors = e.page_errors

\* Leaving do_direct_IO, with the error of the last bio that was reaped if there is one.
LEMMA LeaveStep ==
  ASSUME Running, "masked" \in DOMAIN hist, pc \in Cutting, pc # "tail",
         NEW d, Alike(d, dio), NEW m, NEW e \in {0, -EIO, -EFAULT},
         pc = "queued" => e = dio.ret2,
         Leave(d, m, hist, e), UNCHANGED <<req, bios, outcome>>
  PROVE  Running' /\ Steady
<1>1. /\ Begun' /\ dio'.ret = e
      /\ dio'.bs = dio.bs /\ dio'.zero_done = dio.zero_done /\ dio'.cur = dio.cur
      /\ dio'.back = dio.back /\ dio'.after = dio.after /\ dio'.waiter = dio.waiter
      /\ dio'.bio_count = dio.bio_count /\ dio'.bio_list = dio.bio_list
      /\ dio'.ret2 = dio.ret2 /\ dio'.page_errors = dio.page_errors
  BY DEF Leave, Alike, Begun, Fields
<1>2. "masked" \in DOMAIN hist' /\ hist'.masked = hist.masked
  BY DEF Leave
<1>3. Steady
  BY <1>1, <1>2 DEF Steady
<1>4. pc' = IF e = 0 THEN "segment" ELSE "tail"
  BY DEF Leave, Goto
<1>5. Errors'
  BY <1>1 DEF Running, Errors
<1>6. Placed'
  BY <1>1, <1>4 DEF Running, Placed, Cutting, Sending, Ending, Zeroed
<1>7. Bios' /\ Counted'
  BY <1>3, <1>4, SteadyStep DEF Submitting, Cutting
<1>8. ~Late
  BY DEF Running, Placed, Late, Cutting, Ending
<1>9. Failed' = Failed
  BY DEF Failed
<1>10. Noted'
  <2>1. CASE pc = "queued" /\ e # 0
    BY <2>1, <1>1, <1>4 DEF Noted, Late
  <2>2. CASE ~(pc = "queued" /\ e # 0)
    BY <2>2, <1>2, <1>8, <1>9 DEF Running, Noted, Cutting
  <2> QED
    BY <2>1, <2>2
<1> QED
  BY <1>1, <1>3, <1>5, <1>6, <1>7, <1>10 DEF Running

\* A step within the loop; a fault may be noted in page_errors.
LEMMA LoopStep ==
  ASSUME Running, pc \in Cutting, pc # "tail", pc = "queued" => dio.ret2 = 0,
         UNCHANGED <<req, bios, outcome>>, "masked" \in DOMAIN hist', hist'.masked = hist.masked,
         NEW e, e = dio', Alike([e EXCEPT !.page_errors = dio.page_errors], dio),
         dio'.page_errors \in {0, -EFAULT},
         pc' \in {"segment", "page", "chunk", "zero", "data", "BUG"},
         pc' = "data" => Zeroed
  PROVE  Running' /\ Steady
<1>1. /\ Begun' /\ dio'.ret = dio.ret
      /\ dio'.bs = dio.bs /\ dio'.zero_done = dio.zero_done /\ dio'.cur = dio.cur
      /\ dio'.back = dio.back /\ dio'.after = dio.after /\ dio'.waiter = dio.waiter
      /\ dio'.bio_count = dio.bio_count /\ dio'.bio_list = dio.bio_list
      /\ dio'.ret2 = dio.ret2
  BY DEF Alike, Begun, Fields
<1>2. Steady
  BY <1>1 DEF Steady
<1>3. Errors'
  BY <1>1 DEF Running, Errors
<1>4. Placed'
  BY <1>1 DEF Running, Placed, Cutting, Sending, Ending, Zeroed
<1>5. Bios' /\ Counted'
  BY <1>2, SteadyStep DEF Submitting, Cutting
<1>6. Noted'
  BY <1>2, SteadyNoted DEF Running, Placed, Late, Cutting, Ending
<1> QED
  BY <1>1, <1>2, <1>3, <1>4, <1>5, <1>6 DEF Running

LEMMA AdvanceStep ==
  ASSUME Running, pc \in Cutting, pc # "tail", pc = "queued" => dio.ret2 = 0,
         UNCHANGED <<req, bios, outcome>>, "masked" \in DOMAIN hist', hist'.masked = hist.masked,
         NEW d, Alike(d, dio), NEW n, Advance(d, n)
  PROVE  Running' /\ Steady
<1>1. pc' \in {"page", "chunk", "BUG"}
  BY DEF Advance, Goto
<1>2. PICK e : e = dio'
  OBVIOUS
<1>3. Alike(e, dio)
  BY <1>2 DEF Advance, Alike, Fields
<1>4. Alike([e EXCEPT !.page_errors = dio.page_errors], dio)
  BY <1>3 DEF Alike, Fields
<1>5. dio'.page_errors \in {0, -EFAULT}
  BY <1>2, <1>3 DEF Running, Errors, Alike
<1> QED
  BY <1>1, <1>2, <1>4, <1>5, LoopStep

\* What get_blocks says: a mapped extent, or an error.
LEMMA Extents ==
  ASSUME NEW r, NEW b, NEW count, NEW bh \in get_blocks(r, b, count)
  PROVE  bh.err \in {0, -EIO}
BY DEF get_blocks

(***************************************************************************)
(* The actions of the loop                                                 *)
(***************************************************************************)
LEMMA SegmentStep ==
  ASSUME Running, "masked" \in DOMAIN hist, next_segment
  PROVE  Running' /\ Steady
<1>1. PICK e : e = dio'
  OBVIOUS
<1>2. Alike(e, dio) /\ (pc' = "page" \/ (pc' = "tail" /\ dio' = dio))
  BY <1>1 DEF next_segment, Goto, Alike, Fields, Running, Begun
<1>3. Alike([e EXCEPT !.page_errors = dio.page_errors], dio)
  BY <1>2 DEF Alike, Fields
<1>4. UNCHANGED <<req, bios, outcome, hist>> /\ pc = "segment"
  BY DEF next_segment
<1>5. CASE pc' = "page"
  <2>1. dio'.page_errors \in {0, -EFAULT}
    BY <1>1, <1>2 DEF Running, Errors, Alike
  <2> QED
    BY <2>1, <1>1, <1>3, <1>4, <1>5, LoopStep DEF Cutting
<1>6. CASE pc' = "tail" /\ dio' = dio
  <2>1. Steady
    BY <1>4, <1>6 DEF Steady, Running, Begun
  <2>2. Bios' /\ Counted'
    BY <2>1, <1>4, <1>6, SteadyStep DEF Submitting, Cutting
  <2>3. req.async \/ ~Failed \/ hist.masked
    BY <1>4 DEF Running, Placed, Noted, Late, Cutting, Ending
  <2>4. Noted'
    BY <2>3, <1>4 DEF Noted, Failed
  <2>5. Placed'
    BY <1>4, <1>6 DEF Running, Placed, Cutting, Sending, Ending, Zeroed
  <2> QED
    BY <2>1, <2>2, <2>4, <2>5, <1>6 DEF Running, Begun, Errors
<1> QED
  BY <1>2, <1>5, <1>6

LEMMA EndStep ==
  ASSUME Running, "masked" \in DOMAIN hist, end_segment
  PROVE  Running' /\ Steady
<1>1. Alike(dio, dio)
  BY DEF Alike, Running, Begun
<1>2. PICK e : e = 0
  OBVIOUS
<1>3. Leave(dio, mem, hist, e) /\ UNCHANGED <<req, bios, outcome>> /\ pc = "page"
  BY <1>2 DEF end_segment
<1> QED
  BY <1>1, <1>2, <1>3, LeaveStep DEF Cutting

LEMMA PageStep ==
  ASSUME Running, "masked" \in DOMAIN hist, dio_get_page
  PROVE  Running' /\ Steady
<1>1. pc = "page" /\ UNCHANGED <<req, bios, outcome>>
  BY DEF dio_get_page
<1>2. PICK e : e = -EFAULT
  OBVIOUS
<1>3. CASE Leave(dio, mem, hist, e)
  <2>1. Alike(dio, dio)
    BY DEF Alike, Running, Begun
  <2> QED
    BY <1>1, <1>2, <1>3, <2>1, LeaveStep DEF Cutting
<1>4. PICK f : f = dio'
  OBVIOUS
<1>5. \/ Leave(dio, mem, hist, e)
      \/ /\ UNCHANGED hist /\ pc' \in {"chunk", "BUG"}
         /\ Alike([f EXCEPT !.page_errors = dio.page_errors], dio)
         /\ f.page_errors \in {0, -EFAULT}
  BY <1>2, <1>4 DEF dio_get_page, Goto, Alike, Fields, Running, Begun, Errors
<1>6. CASE /\ UNCHANGED hist /\ pc' \in {"chunk", "BUG"}
           /\ Alike([f EXCEPT !.page_errors = dio.page_errors], dio)
           /\ f.page_errors \in {0, -EFAULT}
  BY <1>1, <1>4, <1>6, LoopStep DEF Cutting
<1> QED
  BY <1>3, <1>5, <1>6

LEMMA BlocksStep ==
  ASSUME Running, "masked" \in DOMAIN hist, get_more_blocks
  PROVE  Running' /\ Steady
<1>1. pc = "chunk" /\ UNCHANGED <<req, bios, outcome>>
  BY DEF get_more_blocks
<1> DEFINE hole == [dio EXCEPT !.bh = [mapped |-> FALSE, new |-> FALSE, boundary |-> FALSE]]
           m == page_cache_release(mem, dio.page)
           moves == /\ pc' = "zero" /\ "masked" \in DOMAIN hist' /\ hist'.masked = hist.masked
                    /\ dio' = dio \/ \E bh : dio' = map_blocks(dio, bh)
<1>2. Alike(dio, dio) /\ Alike(hole, dio)
  BY DEF Alike, Fields, Running, Begun
<1>3. \/ moves
      \/ dio.page_errors # 0 /\ Leave(dio, m, hist, dio.page_errors)
      \/ \E e \in {0, -EIO} : Leave(hole, m, hist, e)
      \/ /\ Advance(hole, dio.bs)
         /\ "masked" \in DOMAIN hist' /\ hist'.masked = hist.masked
  <2>1. CASE dio.blocks_available > 0 /\ Goto("zero") /\ UNCHANGED <<dio, mem, hist>>
    BY <2>1 DEF Goto
  <2>2. CASE /\ dio.blocks_available = 0 /\ dio.page_errors # 0
             /\ Leave(dio, page_cache_release(mem, dio.page), hist, dio.page_errors)
    BY <2>2
  <2>3. CASE /\ dio.blocks_available = 0 /\ dio.page_errors = 0
             /\ ~(\/ dio.blocks_available > 0 /\ Goto("zero") /\ UNCHANGED <<dio, mem, hist>>
                  \/ /\ dio.blocks_available = 0 /\ dio.page_errors # 0
                     /\ Leave(dio, page_cache_release(mem, dio.page), hist, dio.page_errors))
    <3> DEFINE b == dio.block_in_file \div InodeBlk
               count == ((dio.final - dio.block_in_file) + InodeBlk - 1) \div InodeBlk
    <3>1. PICK bh \in get_blocks(req, b, count) :
            \/ bh.err # 0 /\ Leave(hole, m, hist, bh.err)
            \/ /\ bh.mapped
               /\ dio' = map_blocks(dio, bh)
               /\ hist' = IF bh.new THEN [hist EXCEPT !.fresh_blocks = @ \cup (b .. b + bh.size - 1)]
                          ELSE hist
               /\ Goto("zero")
               /\ UNCHANGED mem
            \/ /\ bh.err = 0 /\ ~bh.mapped /\ AtEof(dio)
               /\ Leave(hole, m, hist, 0)
            \/ /\ bh.err = 0 /\ ~bh.mapped /\ ~AtEof(dio)
               /\ Advance(hole, dio.bs)
               /\ hist' = [hist EXCEPT !.filled =
                              @ \cup (dio.block_in_file .. dio.block_in_file + dio.bs - 1)]
      BY <2>3 DEF get_more_blocks
    <3>2. bh.err \in {0, -EIO}
      BY Extents
    <3> HIDE DEF hole, m, b, count
    <3>3. CASE bh.err # 0 /\ Leave(hole, m, hist, bh.err)
      BY <3>2, <3>3
    <3>4. CASE /\ bh.mapped
               /\ dio' = map_blocks(dio, bh)
               /\ hist' = IF bh.new THEN [hist EXCEPT !.fresh_blocks = @ \cup (b .. b + bh.size - 1)]
                          ELSE hist
               /\ Goto("zero")
               /\ UNCHANGED mem
      <4>1. "masked" \in DOMAIN hist' /\ hist'.masked = hist.masked
        BY <3>4
      <4> QED
        BY <3>4, <4>1 DEF Goto
    <3>5. CASE /\ bh.err = 0 /\ ~bh.mapped /\ AtEof(dio)
               /\ Leave(hole, m, hist, 0)
      BY <3>5
    <3>6. CASE /\ bh.err = 0 /\ ~bh.mapped /\ ~AtEof(dio)
               /\ Advance(hole, dio.bs)
               /\ hist' = [hist EXCEPT !.filled =
                              @ \cup (dio.block_in_file .. dio.block_in_file + dio.bs - 1)]
      BY <3>6
    <3> QED
      BY <3>1, <3>3, <3>4, <3>5, <3>6
  <2> QED
    BY <2>1, <2>2, <2>3 DEF get_more_blocks
<1> HIDE DEF hole, m
<1>4. CASE moves
  <2>1. PICK f : f = dio'
    OBVIOUS
  <2>2. /\ Alike([f EXCEPT !.page_errors = dio.page_errors], dio)
        /\ f.page_errors \in {0, -EFAULT}
    BY <1>4, <2>1 DEF Alike, Fields, Running, Begun, Errors, map_blocks
  <2> QED
    BY <1>1, <1>4, <2>1, <2>2, LoopStep DEF Cutting
<1>5. CASE dio.page_errors # 0 /\ Leave(dio, m, hist, dio.page_errors)
  <2>1. PICK e : e = dio.page_errors
    OBVIOUS
  <2>2. e \in {0, -EIO, -EFAULT}
    BY <2>1 DEF Running, Errors
  <2> QED
    BY <1>1, <1>2, <1>5, <2>1, <2>2, LeaveStep DEF Cutting
<1>6. ASSUME NEW e \in {0, -EIO}, Leave(hole, m, hist, e)
      PROVE  Running' /\ Steady
  BY <1>1, <1>2, <1>6, LeaveStep DEF Cutting
<1>7. CASE /\ Advance(hole, dio.bs)
           /\ "masked" \in DOMAIN hist' /\ hist'.masked = hist.masked
  BY <1>1, <1>2, <1>7, AdvanceStep DEF Cutting
<1> QED
  BY <1>3, <1>4, <1>5, <1>6, <1>7

LEMMA DataStep ==
  ASSUME Running, "masked" \in DOMAIN hist, queue_chunk
  PROVE  Running' /\ Steady
<1>1. pc = "data" /\ UNCHANGED <<req, bios, outcome, hist>> /\ pc' \in {"section", "BUG"}
  BY DEF queue_chunk, Goto
<1>2. /\ Begun' /\ dio'.ret = dio.ret
      /\ dio'.bs = dio.bs /\ dio'.zero_done = dio.zero_done /\ dio'.cur = dio.cur
      /\ dio'.back = "queued" /\ dio'.after = dio.after /\ dio'.waiter = dio.waiter
      /\ dio'.bio_count = dio.bio_count /\ dio'.bio_list = dio.bio_list
      /\ dio'.ret2 = dio.ret2 /\ dio'.page_errors = dio.page_errors
  BY DEF queue_chunk, Section, Begun, Fields, Running
<1>3. Steady
  BY <1>1, <1>2 DEF Steady
<1>4. Errors'
  BY <1>2 DEF Running, Errors
<1>5. Placed'
  BY <1>1, <1>2 DEF Running, Placed, Cutting, Sending, Ending, Zeroed
<1>6. Bios' /\ Counted'
  BY <1>1, <1>3, SteadyStep DEF Submitting, Cutting
<1>7. Noted'
  BY <1>1, <1>3, SteadyNoted DEF Running, Placed, Late, Cutting, Ending
<1> QED
  BY <1>2, <1>3, <1>4, <1>5, <1>6, <1>7 DEF Running

LEMMA ZeroStep ==
  ASSUME Running, "masked" \in DOMAIN hist, zero_start
  PROVE  Running' /\ Steady
<1>1. pc = "zero" /\ UNCHANGED <<req, bios, outcome, hist>>
  BY DEF zero_start
<1>2. /\ Begun' /\ dio'.ret = dio.ret
      /\ dio'.bs = dio.bs /\ dio'.cur = dio.cur
      /\ dio'.after = dio.after /\ dio'.waiter = dio.waiter
      /\ dio'.bio_count = dio.bio_count /\ dio'.bio_list = dio.bio_list
      /\ dio'.ret2 = dio.ret2 /\ dio'.page_errors = dio.page_errors
  BY DEF zero_start, Section, Begun, Fields, Running
<1>3. Zeroed'
  BY <1>2 DEF zero_start, Section, Begun, Fields, Running, Zeroed
<1>4. \/ pc' = "section" /\ dio'.back = "zeroed" /\ dio.cur = NONE
      \/ pc' = "data" /\ dio'.back = dio.back
  BY <1>2 DEF zero_start, Section, Begun, Fields, Running, Zeroed, Placed, Goto
<1>5. Steady
  BY <1>1, <1>2 DEF Steady
<1>6. Errors'
  BY <1>2 DEF Running, Errors
<1>7. Placed'
  BY <1>1, <1>2, <1>3, <1>4 DEF Running, Placed, Cutting, Sending, Ending
<1>8. Bios' /\ Counted'
  BY <1>1, <1>4, <1>5, SteadyStep DEF Submitting, Cutting
<1>9. Noted'
  BY <1>1, <1>5, SteadyNoted DEF Running, Placed, Late, Cutting, Ending
<1> QED
  BY <1>2, <1>5, <1>6, <1>7, <1>8, <1>9 DEF Running

LEMMA SectionDoneStep ==
  ASSUME Running, "masked" \in DOMAIN hist, section_done
  PROVE  Running' /\ Steady
<1>1. UNCHANGED <<req, bios, outcome>>
  BY DEF section_done
<1>2. CASE pc \in {"zeroed", "padded"}
  <2>1. UNCHANGED hist /\ pc' = IF pc = "zeroed" THEN "data" ELSE "last"
    BY <1>2 DEF section_done, Goto
  <2>2. PICK e : e = dio'
    OBVIOUS
  <2>3. Alike(e, dio)
    BY <1>2, <2>2 DEF section_done, Queued, Alike, Fields, Begun, Running
  <2>4. /\ Begun' /\ dio'.ret = dio.ret /\ dio'.result = dio.result
        /\ dio'.bs = dio.bs /\ dio'.zero_done = dio.zero_done /\ dio'.cur = dio.cur
        /\ dio'.back = dio.back /\ dio'.after = dio.after /\ dio'.waiter = dio.waiter
        /\ dio'.bio_count = dio.bio_count /\ dio'.bio_list = dio.bio_list
        /\ dio'.ret2 = dio.ret2 /\ dio'.page_errors = dio.page_errors
    BY <2>2, <2>3 DEF Alike, Begun
  <2>5. Steady
    BY <1>1, <2>1, <2>4 DEF Steady
  <2>6. Errors'
    BY <2>4 DEF Running, Errors
  <2>7. Placed'
    BY <1>2, <2>1, <2>4 DEF Running, Placed, Cutting, Sending, Ending, Zeroed
  <2>8. Bios' /\ Counted'
    BY <1>2, <2>1, <2>5, SteadyStep DEF Submitting, Cutting
  <2>9. Noted'
    BY <1>2, <2>1, <2>4, <2>5, SteadyNoted DEF Late, Cutting, Ending
  <2> QED
    BY <2>4, <2>5, <2>6, <2>7, <2>8, <2>9 DEF Running
<1>3. CASE pc = "queued" /\ dio.ret2 # 0
  <2>1. PICK e : e = dio.ret2
    OBVIOUS
  <2>2. e \in {0, -EIO, -EFAULT}
    BY <2>1 DEF Running, Errors
  <2>3. PICK m : Leave(dio, m, hist, e)
    BY <1>3, <2>1 DEF section_done
  <2>4. Alike(dio, dio)
    BY DEF Alike, Running, Begun
  <2> QED
    BY <1>1, <1>3, <2>1, <2>2, <2>3, <2>4, LeaveStep DEF Cutting
<1>4. CASE pc = "queued" /\ dio.ret2 = 0
  <2> DEFINE d == [Queued(dio) EXCEPT !.blocks_available = @ - dio.arg[1].len]
  <2>1. Alike(d, dio)
    BY DEF Alike, Queued, Fields, Running, Begun
  <2>2. PICK n : Advance(d, n) /\ UNCHANGED hist
    BY <1>4 DEF section_done
  <2> HIDE DEF d
  <2> QED
    BY <1>1, <1>4, <2>1, <2>2, AdvanceStep DEF Cutting
<1> QED
  BY <1>2, <1>3, <1>4 DEF section_done

LEMMA SectionStep ==
  ASSUME Running, "masked" \in DOMAIN hist, submit_page_section
  PROVE  Running' /\ Steady
<1>1. pc = "section" /\ UNCHANGED <<req, bios, outcome, hist>>
  BY DEF submit_page_section
<1>2. /\ Begun' /\ dio'.ret = dio.ret /\ dio'.result = dio.result
      /\ dio'.bs = dio.bs /\ dio'.zero_done = dio.zero_done
      /\ dio'.back = dio.back /\ dio'.waiter = dio.waiter
      /\ dio'.bio_count = dio.bio_count /\ dio'.bio_list = dio.bio_list
      /\ dio'.ret2 \in {0, dio.ret2} /\ dio'.page_errors = dio.page_errors
  BY DEF submit_page_section, Begun, Fields, Running
<1>3. dio'.after \in {dio.after, "grown", "deferred"}
  BY DEF submit_page_section, Begun, Fields, Running
<1>4. \/ dio.cur # NONE /\ pc' \in {"send", dio.back}
      \/ dio.cur = NONE /\ pc' = dio.back
  BY DEF submit_page_section, extends_cur, Goto
<1>5. Steady
  BY <1>1, <1>2 DEF Steady
<1>6. Errors'
  BY <1>2 DEF Running, Errors
<1>7. Placed'
  BY <1>1, <1>2, <1>3, <1>4 DEF Running, Placed, Cutting, Sending, Ending, Zeroed
<1>8. Bios' /\ Counted'
  BY <1>1, <1>4, <1>5, SteadyStep DEF Submitting, Cutting, Sending, Running, Placed
<1>9. Late => Late'
  BY <1>1, <1>2 DEF Running, Placed, Late, Ending
<1>10. Noted'
  BY <1>1, <1>2, <1>5, <1>9, SteadyNoted
<1> QED
  BY <1>2, <1>5, <1>6, <1>7, <1>8, <1>10 DEF Running

(***************************************************************************)
(* Steps of dio_send_cur_page and after the loop that submit nothing       *)
(***************************************************************************)
LEMMA SentStep ==
  ASSUME Running, "masked" \in DOMAIN hist, cur_page_sent
  PROVE  Running' /\ Steady
<1>1. pc = "sent" /\ UNCHANGED <<req, bios, outcome, hist>>
  BY DEF cur_page_sent
<1>2. /\ Begun' /\ dio'.result = dio.result
      /\ dio'.ret = IF dio.after = "last" /\ dio.ret = 0 THEN dio.ret2 ELSE dio.ret
      /\ dio'.bs = dio.bs /\ dio'.zero_done = dio.zero_done
      /\ dio'.back = dio.back /\ dio'.after = dio.after /\ dio'.waiter = dio.waiter
      /\ dio'.bio_count = dio.bio_count /\ dio'.bio_list = dio.bio_list
      /\ dio'.ret2 = dio.ret2 /\ dio'.page_errors = dio.page_errors
  BY DEF cur_page_sent, Begun, Fields, Running
<1>3. pc' = IF dio.after = "last" THEN "flush" ELSE dio.back
  BY DEF cur_page_sent, Goto
<1>4. Steady
  BY <1>1, <1>2 DEF Steady
<1>5. Errors'
  BY <1>2 DEF Running, Errors
<1>6. Placed'
  BY <1>1, <1>2, <1>3 DEF Running, Placed, Cutting, Sending, Ending, Zeroed
<1>7. Bios' /\ Counted'
  BY <1>1, <1>3, <1>4, SteadyStep DEF Submitting, Cutting, Sending, Running, Placed
<1>8. Late' = Late
  BY <1>1, <1>2, <1>3 DEF Running, Placed, Late, Sending, Ending
<1>9. Failed' = Failed
  BY <1>1 DEF Failed
<1>10. Noted'
  <2>1. CASE Late
    BY <2>1, <1>1, <1>2, <1>8, <1>9 DEF Running, Noted
  <2>2. CASE ~Late
    BY <2>2, <1>1, <1>2, <1>3, <1>8, <1>9 DEF Running, Noted, Late, Placed, Sending
  <2> QED
    BY <2>1, <2>2
<1> QED
  BY <1>2, <1>4, <1>5, <1>6, <1>7, <1>10 DEF Running

LEMMA PadStep ==
  ASSUME Running, "masked" \in DOMAIN hist, pad_end
  PROVE  Running' /\ Steady
<1>1. pc = "tail" /\ UNCHANGED <<req, bios, outcome, hist>>
  BY DEF pad_end
<1>2. /\ Begun' /\ dio'.ret = dio.ret /\ dio'.result = dio.result
      /\ dio'.bs = dio.bs /\ dio'.zero_done = TRUE /\ dio'.cur = dio.cur
      /\ dio'.after = dio.after /\ dio'.waiter = dio.waiter
      /\ dio'.bio_count = dio.bio_count /\ dio'.bio_list = dio.bio_list
      /\ dio'.ret2 = dio.ret2 /\ dio'.page_errors = dio.page_errors
  BY DEF pad_end, Section, Begun, Fields, Running
<1>3. \/ pc' = "section" /\ dio'.back = "padded"
      \/ pc' = "last" /\ dio'.back = dio.back
  BY <1>2 DEF pad_end, Section, Begun, Fields, Running, Goto
<1>4. Zeroed'
  BY <1>2 DEF Zeroed
<1>5. Steady
  BY <1>1, <1>2 DEF Steady
<1>6. Errors'
  BY <1>2 DEF Running, Errors
<1>7. Placed'
  BY <1>1, <1>2, <1>3, <1>4 DEF Running, Placed, Cutting, Sending, Ending
<1>8. Bios' /\ Counted'
  BY <1>1, <1>3, <1>5, SteadyStep DEF Submitting, Cutting
<1>9. Late'
  BY <1>3 DEF Late
<1>10. Noted'
  BY <1>1, <1>2, <1>5, <1>9, SteadyNoted
<1> QED
  BY <1>2, <1>5, <1>6, <1>7, <1>8, <1>10 DEF Running

LEMMA LastStep ==
  ASSUME Running, "masked" \in DOMAIN hist, send_last
  PROVE  Running' /\ Steady
<1>1. pc = "last" /\ UNCHANGED <<req, bios, outcome, hist>>
  BY DEF send_last
<1>2. /\ Begun' /\ dio'.ret = dio.ret /\ dio'.result = dio.result
      /\ dio'.bs = dio.bs /\ dio'.zero_done = dio.zero_done /\ dio'.cur = dio.cur
      /\ dio'.back = dio.back /\ dio'.waiter = dio.waiter
      /\ dio'.bio_count = dio.bio_count /\ dio'.bio_list = dio.bio_list
      /\ dio'.ret2 = dio.ret2 /\ dio'.page_errors = dio.page_errors
  BY DEF send_last, Begun, Fields, Running
<1>3. \/ pc' = "send" /\ dio'.after = "last" /\ dio.cur # NONE
      \/ pc' = "flush" /\ dio'.after = dio.after
  BY DEF send_last, Begun, Fields, Running, Goto
<1>4. Steady
  BY <1>1, <1>2 DEF Steady
<1>5. Errors'
  BY <1>2 DEF Running, Errors
<1>6. Placed'
  BY <1>1, <1>2, <1>3 DEF Running, Placed, Cutting, Sending, Ending, Zeroed
<1>7. Bios' /\ Counted'
  BY <1>1, <1>3, <1>4, SteadyStep DEF Submitting, Sending
<1>8. Late'
  BY <1>3 DEF Late, Ending
<1>9. Noted'
  BY <1>1, <1>2, <1>4, <1>8, SteadyNoted
<1> QED
  BY <1>2, <1>4, <1>5, <1>6, <1>7, <1>9 DEF Running

\* Within dio_send_cur_page: no bio is submitted or reaped.
LEMMA SendingStep ==
  ASSUME Running, "masked" \in DOMAIN hist, UNCHANGED <<req, bios, outcome, hist>>,
         pc \in Sending, pc \in {"reap", "sent"} => dio.ret2 = 0,
         pc' \in Sending \cup {"BUG"},
         NEW e, e = dio', Alike([e EXCEPT !.ret2 = dio.ret2], dio), dio'.ret2 \in {0, dio.ret2}
  PROVE  Running' /\ Steady
<1>1. /\ Begun' /\ dio'.ret = dio.ret /\ dio'.result = dio.result
      /\ dio'.bs = dio.bs /\ dio'.zero_done = dio.zero_done /\ dio'.cur = dio.cur
      /\ dio'.back = dio.back /\ dio'.after = dio.after /\ dio'.waiter = dio.waiter
      /\ dio'.bio_count = dio.bio_count /\ dio'.bio_list = dio.bio_list
      /\ dio'.page_errors = dio.page_errors
  BY DEF Alike, Begun, Fields
<1>2. Steady
  BY <1>1 DEF Steady
<1>3. Errors'
  BY <1>1 DEF Running, Errors
<1>4. Placed'
  BY <1>1 DEF Running, Placed, Cutting, Sending, Ending, Zeroed
<1>5. Bios' /\ Counted'
  BY <1>2, SteadyStep DEF Submitting
<1>6. Late => Late'
  BY <1>1 DEF Running, Placed, Late, Sending, Ending
<1>7. Noted'
  BY <1>1, <1>2, <1>6, SteadyNoted DEF Sending
<1> QED
  BY <1>1, <1>2, <1>3, <1>4, <1>5, <1>7 DEF Running

(***************************************************************************)
(* Bios submitted, ended and taken off the list                            *)
(***************************************************************************)
\* bios is a sequence; what is busy or ended is a bio.
LEMMA BiosShape ==
  ASSUME Bios
  PROVE  /\ Len(bios) \in Nat /\ DOMAIN bios = 1 .. Len(bios)
         /\ busy \subseteq 1 .. Len(bios) /\ ended \subseteq busy
         /\ IsFiniteSet(busy) /\ Cardinality(busy) \in Nat
<1>1. Len(bios) \in Nat /\ DOMAIN bios = 1 .. Len(bios)
  BY DEF Bios
<1>2. busy \subseteq 1 .. Len(bios) /\ ended \subseteq busy
  BY <1>1 DEF busy, ended
<1>3. IsFiniteSet(busy)
  <2>1. PICK n \in Nat : n = Len(bios)
    BY <1>1
  <2>2. IsFiniteSet(1 .. n)
    BY FS_Interval
  <2> QED
    BY <1>2, <2>1, <2>2, FS_Subset
<1> QED
  BY <1>1, <1>2, <1>3, FS_CardinalityType

\* A sequence is one of its own elements.
LEMMA OwnElements ==
  ASSUME NEW S, NEW s \in Seq(S)
  PROVE  s \in Seq(ToSet(s))
BY DEF ToSet

LEMMA SubmitBios ==
  ASSUME Bios, NEW b, bios' = Append(bios, b), req' = req,
         b.state = "flight", b.ok = TRUE, {"left", "ok", "state"} \subseteq DOMAIN b
  PROVE  /\ Bios' /\ ended' = ended /\ Failed' = Failed
         /\ Cardinality(busy') = Cardinality(busy) + 1
<1> DEFINE n == Len(bios)
<1>1. n \in Nat /\ DOMAIN bios = 1 .. n
  BY BiosShape
<1> DEFINE S == ToSet(bios) \cup {b}
<1>2. bios \in Seq(S)
  BY <1>1 DEF Bios, ToSet
<1>3. /\ bios' \in Seq(S) /\ DOMAIN bios' = 1 .. n + 1
      /\ bios'[n + 1] = b /\ \A i \in 1 .. n : bios'[i] = bios[i]
  BY <1>1, <1>2
<1>4. bios' \in Seq(ToSet(bios'))
  BY <1>3, OwnElements
<1> HIDE DEF n, S
<1>5. \A i \in 1 .. n + 1 : i \in 1 .. n \/ i = n + 1
  BY <1>1
<1>6. 1 .. n \subseteq 1 .. n + 1 /\ n + 1 \in 1 .. n + 1 /\ n + 1 \notin 1 .. n
  BY <1>1
<1>7. Bios'
  BY <1>1, <1>3, <1>4, <1>5, <1>6 DEF Bios
<1>8. ended' = ended
  BY <1>1, <1>3, <1>5, <1>6 DEF ended
<1>9. Failed' = Failed
  BY <1>1, <1>3, <1>5, <1>6 DEF Failed
<1>10. busy' = busy \cup {n + 1}
  BY <1>1, <1>3, <1>5, <1>6 DEF busy
<1>11. n + 1 \notin busy /\ IsFiniteSet(busy)
  BY <1>6, BiosShape DEF n
<1>12. Cardinality(busy') = Cardinality(busy) + 1
  BY <1>10, <1>11, FS_AddElement
<1> QED
  BY <1>7, <1>8, <1>9, <1>12

LEMMA SubmitStep ==
  ASSUME Running, dio_bio_submit(dio), UNCHANGED <<req, outcome, hist>>,
         \/ pc \in {"send", "add"} /\ pc' \in {"new", "BUG"}
         \/ pc = "flush" /\ pc' = "put"
  PROVE  Running'
<1>1. /\ Begun' /\ dio'.ret = dio.ret /\ dio'.result = dio.result
      /\ dio'.bs = dio.bs /\ dio'.zero_done = dio.zero_done /\ dio'.cur = dio.cur
      /\ dio'.back = dio.back /\ dio'.after = dio.after /\ dio'.waiter = dio.waiter
      /\ dio'.bio_count = dio.bio_count + 1 /\ dio'.bio_list = dio.bio_list
      /\ dio'.ret2 = dio.ret2 /\ dio'.page_errors = dio.page_errors
  BY DEF dio_bio_submit, Begun, Fields, Running
<1> DEFINE b == [chunks |-> dio.bio[1].chunks, left |-> ChunkSum(dio.bio[1].chunks), ok |-> TRUE,
                 clean |-> {}, state |-> "flight"]
<1>2. b.state = "flight" /\ b.ok = TRUE /\ {"left", "ok", "state"} \subseteq DOMAIN b
  OBVIOUS
<1>3. bios' = Append(bios, b)
  BY DEF dio_bio_submit
<1> HIDE DEF b
<1>4. /\ Bios' /\ ended' = ended /\ Failed' = Failed
      /\ Cardinality(busy') = Cardinality(busy) + 1
  BY <1>2, <1>3, SubmitBios DEF Running
<1>5. Errors'
  BY <1>1 DEF Running, Errors
<1>6. Placed'
  BY <1>1 DEF Running, Placed, Cutting, Sending, Ending, Zeroed
<1>7. share' = 1 /\ share = 1
  BY DEF share
<1>8. Cardinality(busy) \in Nat
  BY BiosShape DEF Running
<1>9. Counted'
  BY <1>1, <1>4, <1>7, <1>8 DEF Running, Counted
<1>10. Late' = Late
  BY <1>1 DEF Running, Placed, Late, Sending, Ending
<1>11. Noted'
  BY <1>1, <1>4, <1>10 DEF Running, Noted
<1> QED
  BY <1>1, <1>4, <1>5, <1>6, <1>9, <1>11 DEF Running

\* dio_bio_complete: the error of a bio goes to result and, when there was none, to ret2.
LEMMA CompleteStep ==
  ASSUME Running, dio.bio_list # <<>>, NEW r2 \in {0, -EIO}, dio_bio_complete(r2),
         UNCHANGED <<req, pc, outcome>>, "masked" \in DOMAIN hist,
         \/ /\ pc = "reap" /\ r2 = ret_of_first
            /\ hist' = [hist EXCEPT !.masked = @ \/ (dio.ret2 # 0 /\ bios[Head(dio.bio_list)].ok)]
         \/ pc = "await" /\ UNCHANGED hist
  PROVE  Running' /\ "masked" \in DOMAIN hist'
<1> DEFINE b == Head(dio.bio_list)
           n == Len(bios)
<1>1. /\ b \in ended /\ Tail(dio.bio_list) \in List(Nat)
      /\ ToSet(Tail(dio.bio_list)) = ended \ {b}
  BY TailList DEF Running, Counted
<1>2. /\ n \in Nat /\ DOMAIN bios = 1 .. n /\ b \in 1 .. n /\ b \in busy
      /\ IsFiniteSet(busy) /\ Cardinality(busy) \in Nat
  BY <1>1, BiosShape DEF Running
<1>3. /\ bios' = [bios EXCEPT ![b].state = "put"]
      /\ dio' = completed([dio EXCEPT !.bio_list = Tail(@), !.ret2 = r2], bios[b].ok)
  BY DEF dio_bio_complete
<1> HIDE DEF b, n
<1>4. /\ Begun' /\ dio'.ret = dio.ret /\ dio'.result = IF bios[b].ok THEN dio.result ELSE -EIO
      /\ dio'.bs = dio.bs /\ dio'.zero_done = dio.zero_done /\ dio'.cur = dio.cur
      /\ dio'.back = dio.back /\ dio'.after = dio.after /\ dio'.waiter = dio.waiter
      /\ dio'.bio_count = dio.bio_count - 1 /\ dio'.bio_list = Tail(dio.bio_list)
      /\ dio'.ret2 = r2 /\ dio'.page_errors = dio.page_errors
  BY <1>3 DEF completed, Begun, Fields, Running
<1>5. /\ DOMAIN bios' = 1 .. n /\ \A i \in 1 .. n \ {b} : bios'[i] = bios[i]
      /\ {"left", "ok", "state"} \subseteq DOMAIN bios'[b]
      /\ bios'[b].state = "put" /\ bios'[b].ok = bios[b].ok
  BY <1>2, <1>3 DEF Running, Bios
<1>6. Bios'
  <2>1. bios' \in Seq(ToSet(bios) \cup {[bios[b] EXCEPT !.state = "put"]})
    BY <1>2, <1>3 DEF Running, Bios
  <2>2. bios' \in Seq(ToSet(bios'))
    BY <2>1, OwnElements
  <2> QED
    BY <1>2, <1>5, <2>2 DEF Running, Bios
<1>7. ended' = ended \ {b}
  BY <1>2, <1>5 DEF ended
<1>8. busy' = busy \ {b}
  BY <1>2, <1>5 DEF busy
<1>9. Cardinality(busy') = Cardinality(busy) - 1
  BY <1>2, <1>8, FS_RemoveElement
<1>10. share' = share
  BY DEF share
<1>11. Counted'
  BY <1>1, <1>2, <1>4, <1>7, <1>9, <1>10 DEF Running, Counted, share
<1>12. Errors'
  BY <1>4 DEF Running, Errors
<1>13. Placed'
  BY <1>4 DEF Running, Placed, Cutting, Sending, Ending, Zeroed
<1>14. Failed' <=> Failed \/ ~bios[b].ok
  BY <1>1, <1>2, <1>5 DEF Failed, ended
<1>15. Late' = Late
  BY <1>4 DEF Late
<1>16. CASE pc = "await"
  <2>1. Late /\ Late'
    BY <1>16, <1>15 DEF Late, Ending
  <2>2. hist' = hist
    BY <1>16
  <2>3. Noted'
    BY <2>1, <2>2, <1>4, <1>14 DEF Running, Noted
  <2> QED
    BY <2>2, <2>3, <1>4, <1>6, <1>11, <1>12, <1>13 DEF Running
<1>17. CASE pc = "reap"
  <2>1. /\ "masked" \in DOMAIN hist' /\ r2 = IF bios[b].ok THEN 0 ELSE -EIO
        /\ hist'.masked <=> hist.masked \/ (dio.ret2 # 0 /\ bios[b].ok)
    BY <1>17 DEF ret_of_first, b
  <2>2. Noted'
    <3>1. CASE Late
      BY <2>1, <3>1, <1>4, <1>14, <1>15 DEF Running, Noted
    <3>2. CASE ~Late
      <4>1. ~req.async /\ Failed' /\ ~hist'.masked => ~bios[b].ok
        BY <2>1, <3>2, <1>14 DEF Running, Noted
      <4> QED
        BY <2>1, <3>2, <4>1, <1>4, <1>15, <1>17 DEF Noted, EIO
    <3> QED
      BY <3>1, <3>2
  <2> QED
    BY <2>1, <2>2, <1>4, <1>6, <1>11, <1>12, <1>13 DEF Running
<1> QED
  BY <1>16, <1>17

\* A step of a bio in flight, which stays in flight, goes to the list or is done with.
LEMMA BioMoves ==
  ASSUME Bios, NEW b \in DOMAIN bios, bios[b].state = "flight", NEW r, bios' = [bios EXCEPT ![b] = r],
         {"left", "ok", "state"} \subseteq DOMAIN r, req' = req,
         r.state \in IF req.async THEN {"flight", "dirty", "put"} ELSE {"flight", "ended"}
  PROVE  /\ Bios' /\ busy' = (IF r.state \in {"flight", "ended"} THEN busy ELSE busy \ {b})
         /\ ~req.async => Failed' = Failed
         /\ ended' = IF r.state = "ended" THEN ended \cup {b} ELSE ended
<1> DEFINE n == Len(bios)
<1>1. n \in Nat /\ DOMAIN bios = 1 .. n
  BY BiosShape
<1> HIDE DEF n
<1>2. DOMAIN bios' = 1 .. n /\ bios'[b] = r /\ \A i \in 1 .. n \ {b} : bios'[i] = bios[i]
  BY <1>1 DEF Bios
<1>3. bios' \in Seq(ToSet(bios) \cup {r})
  BY DEF Bios
<1>4. bios' \in Seq(ToSet(bios'))
  BY <1>3, OwnElements
<1>5. Bios'
  BY <1>1, <1>2, <1>4 DEF Bios
<1>6. busy' = IF r.state \in {"flight", "ended"} THEN busy ELSE busy \ {b}
  BY <1>1, <1>2 DEF busy
<1>7. ended' = IF r.state = "ended" THEN ended \cup {b} ELSE ended
  BY <1>1, <1>2 DEF ended
<1>8. ~req.async => Failed' = Failed
  BY <1>1, <1>2 DEF Failed
<1> QED
  BY <1>5, <1>6, <1>7, <1>8

LEMMA EndioStep ==
  ASSUME Running, ~req.async, NEW b \in DOMAIN bios, NEW n, NEW ok, bio_endio(b, n, ok)
  PROVE  Running' /\ UNCHANGED <<req, outcome, hist>>
<1> DEFINE done == [bios[b] EXCEPT !.left = @ - n, !.ok = @ /\ ok]
           last == [done EXCEPT !.state = "ended"]
<1>1. /\ bios[b].state = "flight" /\ UNCHANGED <<req, outcome, hist>>
      /\ \/ bios' = [bios EXCEPT ![b] = done] /\ UNCHANGED <<pc, dio>>
         \/ bios' = [bios EXCEPT ![b] = last] /\ dio_bio_end_io(dio, b)
  BY DEF bio_endio, InFlight
<1>2. /\ {"left", "ok", "state"} \subseteq DOMAIN done /\ done.state = bios[b].state
      /\ {"left", "ok", "state"} \subseteq DOMAIN last /\ last.state = "ended"
  BY DEF Running, Bios
<1>3. Bios
  BY DEF Running
<1> HIDE DEF done, last
<1>4. CASE bios' = [bios EXCEPT ![b] = done] /\ UNCHANGED <<pc, dio>>
  <2>1. Bios' /\ busy' = busy /\ Failed' = Failed /\ ended' = ended
    BY <1>1, <1>2, <1>3, <1>4, BioMoves
  <2>2. Counted'
    BY <2>1, <1>4 DEF Running, Counted, share
  <2>3. Noted'
    BY <2>1, <1>1, <1>4 DEF Running, Noted, Late
  <2> QED
    BY <2>1, <2>2, <2>3, <1>1, <1>4 DEF Running, Begun, Errors, Placed, Zeroed
<1>5. CASE bios' = [bios EXCEPT ![b] = last] /\ dio_bio_end_io(dio, b)
  <2>1. Bios' /\ busy' = busy /\ Failed' = Failed /\ ended' = ended \cup {b}
    BY <1>1, <1>2, <1>3, <1>5, BioMoves
  <2>2. /\ Begun' /\ dio'.ret = dio.ret /\ dio'.result = dio.result
        /\ dio'.bs = dio.bs /\ dio'.zero_done = dio.zero_done /\ dio'.cur = dio.cur
        /\ dio'.back = dio.back /\ dio'.after = dio.after
        /\ dio'.bio_count = dio.bio_count /\ dio'.bio_list = <<b>> \o dio.bio_list
        /\ dio'.ret2 = dio.ret2 /\ dio'.page_errors = dio.page_errors
    BY <1>5 DEF dio_bio_end_io, Begun, Fields, Running
  <2>3. \/ dio'.waiter = dio.waiter /\ pc' = pc
        \/ dio.waiter /\ dio'.waiter = FALSE /\ pc' = "await"
    BY <1>5 DEF dio_bio_end_io, Begun, Fields, Running
  <2>4. \/ dio'.waiter = dio.waiter /\ pc' = pc
        \/ pc = "asleep" /\ dio'.waiter = FALSE /\ pc' = "await"
    BY <2>3 DEF Running, Placed
  <2>5. b \in Nat /\ b \notin ToSet(dio.bio_list)
    <3>1. b \notin ended
      BY <1>1 DEF ended
    <3>2. b \in Nat
      BY <1>3, BiosShape
    <3> QED
      BY <3>1, <3>2 DEF Running, Counted
  <2>6. /\ dio'.bio_list \in List(Nat)
        /\ ToSet(dio'.bio_list) = ToSet(dio.bio_list) \cup {b}
    BY <2>2, <2>5, PrependList DEF Running, Counted
  <2>7. share' = share
    BY <2>4 DEF share
  <2>8. Counted'
    BY <2>1, <2>2, <2>6, <2>7 DEF Running, Counted
  <2>9. Errors'
    BY <2>2 DEF Running, Errors
  <2>10. Placed'
    BY <1>1, <2>2, <2>4 DEF Running, Placed, Cutting, Sending, Ending, Zeroed
  <2>11. Late' = Late
    BY <2>2, <2>4 DEF Late, Ending
  <2>12. Noted'
    BY <2>1, <2>2, <2>4, <2>11, <1>1 DEF Running, Noted, Late, Ending
  <2> QED
    BY <2>1, <2>2, <2>8, <2>9, <2>10, <2>12, <1>1 DEF Running
<1> QED
  BY <1>1, <1>4, <1>5

\* finished_one_bio: an asynchronous request is answered when bio_count is zero.
LEMMA AnswerStep ==
  ASSUME outcome = <<>>, finished_one_bio(dio'), req' = req,
         IsFiniteSet(busy'), req.async /\ dio'.bio_count = 0 => Cardinality(busy') = 0 /\ pc' = "done"
  PROVE  Answered'
<1>1. CASE req.async /\ dio'.bio_count = 0
  <2>1. busy' = {}
    BY <1>1, FS_EmptySet
  <2>2. outcome' = <<dio'.result>>
    BY <1>1 DEF finished_one_bio
  <2> QED
    BY <1>1, <2>1, <2>2 DEF Answered, FailureReported
<1>2. CASE ~(req.async /\ dio'.bio_count = 0)
  BY <1>2 DEF finished_one_bio, Answered
<1> QED
  BY <1>1, <1>2

LEMMA EndaioStep ==
  ASSUME Running, req.async, NEW b \in DOMAIN bios, NEW n, NEW ok, bio_endio(b, n, ok), outcome = <<>>
  PROVE  Running' /\ Answered' /\ UNCHANGED <<req, hist>>
<1> DEFINE done == [bios[b] EXCEPT !.left = @ - n, !.ok = @ /\ ok]
<1>1. /\ bios[b].state = "flight" /\ UNCHANGED <<req, hist>>
      /\ \/ bios' = [bios EXCEPT ![b] = done] /\ UNCHANGED <<pc, dio, outcome>>
         \/ \E m : dio_bio_end_aio(dio, b, done, m)
  BY DEF bio_endio, InFlight
<1>2. {"left", "ok", "state"} \subseteq DOMAIN done /\ done.state = bios[b].state
  BY DEF Running, Bios
<1>3. Bios
  BY DEF Running
<1> HIDE DEF done
<1>4. CASE bios' = [bios EXCEPT ![b] = done] /\ UNCHANGED <<pc, dio, outcome>>
  <2>1. Bios' /\ busy' = busy /\ ended' = ended
    BY <1>1, <1>2, <1>3, <1>4, BioMoves
  <2>2. Counted'
    BY <2>1, <1>4 DEF Running, Counted, share
  <2>3. Noted'
    BY <1>1 DEF Noted
  <2> QED
    BY <2>1, <2>2, <2>3, <1>1, <1>4 DEF Running, Begun, Errors, Placed, Zeroed, Answered
<1>5. ASSUME NEW m, dio_bio_end_aio(dio, b, done, m)
      PROVE  Running' /\ Answered'
  <2>1. PICK cs : bios' = [bios EXCEPT ![b] = [done EXCEPT !.clean = cs,
                                                  !.state = IF cs = {} THEN "put" ELSE "dirty"]]
    BY <1>5 DEF dio_bio_end_aio
  <2> DEFINE r == [done EXCEPT !.clean = cs, !.state = IF cs = {} THEN "put" ELSE "dirty"]
  <2>2. {"left", "ok", "state"} \subseteq DOMAIN r /\ r.state \in {"dirty", "put"}
    BY <1>2
  <2>3. dio' = completed(dio, done.ok) /\ pc' = pc /\ finished_one_bio(dio')
    BY <1>5 DEF dio_bio_end_aio
  <2> HIDE DEF r
  <2>4. Bios' /\ busy' = busy \ {b} /\ ended' = ended
    BY <2>1, <2>2, <1>1, <1>3, BioMoves DEF r
  <2>5. /\ Begun' /\ dio'.ret = dio.ret
        /\ dio'.bs = dio.bs /\ dio'.zero_done = dio.zero_done /\ dio'.cur = dio.cur
        /\ dio'.back = dio.back /\ dio'.after = dio.after /\ dio'.waiter = dio.waiter
        /\ dio'.bio_count = dio.bio_count - 1 /\ dio'.bio_list = dio.bio_list
        /\ dio'.ret2 = dio.ret2 /\ dio'.page_errors = dio.page_errors
    BY <2>3 DEF completed, Begun, Fields, Running
  <2>6. IsFiniteSet(busy) /\ Cardinality(busy) \in Nat /\ b \in busy
    BY <1>1, <1>3, BiosShape DEF busy
  <2>7. Cardinality(busy') = Cardinality(busy) - 1 /\ IsFiniteSet(busy')
    BY <2>4, <2>6, FS_RemoveElement
  <2>8. share' = share /\ share \in {0, 1}
    BY <2>3 DEF share
  <2>9. Counted'
    BY <2>4, <2>5, <2>6, <2>7, <2>8 DEF Running, Counted
  <2>10. Cardinality(busy') \in Nat
    BY <2>7, FS_CardinalityType
  <2>11. dio'.bio_count = 0 => Cardinality(busy') = 0 /\ share' = 0
    BY <2>8, <2>9, <2>10 DEF Counted
  <2>12. share' = 0 => pc' = "done"
    BY <2>3 DEF share, Running, Placed
  <2>13. Answered'
    BY <1>1, <2>3, <2>7, <2>11, <2>12, AnswerStep
  <2>14. Errors'
    BY <2>5 DEF Running, Errors
  <2>15. Placed'
    BY <1>1, <2>3, <2>5 DEF Running, Placed, Cutting, Sending, Ending, Zeroed
  <2>16. Noted'
    BY <1>1 DEF Noted
  <2> QED
    BY <2>4, <2>5, <2>9, <2>13, <2>14, <2>15, <2>16 DEF Running
<1> QED
  BY <1>1, <1>4, <1>5

\* The work queue: only a bio of an asynchronous request is dirty.
LEMMA DirtyStep ==
  ASSUME Running, "masked" \in DOMAIN hist, NEW b \in DOMAIN bios, bio_dirty_fn(b)
  PROVE  Running' /\ busy' = busy /\ UNCHANGED <<req, pc, outcome>> /\ "masked" \in DOMAIN hist'
<1> DEFINE n == Len(bios)
           r == [bios[b] EXCEPT !.state = "put"]
<1>1. /\ bios[b].state = "dirty" /\ UNCHANGED <<req, pc, dio, outcome>>
      /\ bios' = [bios EXCEPT ![b] = r] /\ "masked" \in DOMAIN hist'
  BY DEF bio_dirty_fn
<1>2. req.async
  BY <1>1 DEF Running, Bios
<1>3. n \in Nat /\ DOMAIN bios = 1 .. n
  BY BiosShape DEF Running
<1>4. {"left", "ok", "state"} \subseteq DOMAIN r /\ r.state = "put"
  BY DEF Running, Bios
<1> HIDE DEF n, r
<1>5. DOMAIN bios' = 1 .. n /\ bios'[b] = r /\ \A i \in 1 .. n \ {b} : bios'[i] = bios[i]
  BY <1>1, <1>3 DEF Running, Bios
<1>6. bios' \in Seq(ToSet(bios) \cup {r})
  BY <1>1 DEF Running, Bios
<1>7. bios' \in Seq(ToSet(bios'))
  BY <1>6, OwnElements
<1>8. Bios'
  BY <1>1, <1>2, <1>3, <1>4, <1>5, <1>7 DEF Running, Bios
<1>9. busy' = busy /\ ended' = ended
  BY <1>1, <1>3, <1>4, <1>5 DEF busy, ended
<1>10. Counted'
  BY <1>1, <1>9 DEF Running, Counted, share
<1>11. Noted'
  BY <1>1, <1>2 DEF Noted
<1> QED
  BY <1>1, <1>8, <1>9, <1>10, <1>11 DEF Running, Begun, Errors, Placed, Zeroed

(***************************************************************************)
(* The remaining actions of the worker                                     *)
(***************************************************************************)
LEMMA SendStep ==
  ASSUME Running, "masked" \in DOMAIN hist, dio_send_cur_page
  PROVE  Running' /\ UNCHANGED <<req, outcome, hist>>
<1>1. pc = "send" /\ UNCHANGED <<req, outcome, hist>>
  BY DEF dio_send_cur_page
<1>2. \/ dio_bio_submit(dio) /\ pc' = "new"
      \/ UNCHANGED <<dio, bios>> /\ pc' \in {"new", "add"}
  BY DEF dio_send_cur_page, Goto
<1>3. CASE dio_bio_submit(dio) /\ pc' = "new"
  BY <1>1, <1>3, SubmitStep
<1>4. CASE UNCHANGED <<dio, bios>> /\ pc' \in {"new", "add"}
  <2>1. PICK e : e = dio'
    OBVIOUS
  <2>2. Alike([e EXCEPT !.ret2 = dio.ret2], dio) /\ dio'.ret2 \in {0, dio.ret2}
    BY <1>4, <2>1 DEF Alike, Fields, Running, Begun
  <2> QED
    BY <1>1, <1>4, <2>1, <2>2, SendingStep DEF Sending
<1> QED
  BY <1>1, <1>2, <1>3, <1>4

LEMMA NewBioStep ==
  ASSUME Running, "masked" \in DOMAIN hist, dio_new_bio
  PROVE  Running' /\ UNCHANGED <<req, outcome, hist>>
<1>1. /\ pc = "new" /\ UNCHANGED <<req, bios, outcome, hist>>
      /\ pc' \in {"reap", "add", "BUG"}
  BY DEF dio_new_bio, Goto
<1>2. PICK e : e = dio'
  OBVIOUS
<1>3. Alike([e EXCEPT !.ret2 = dio.ret2], dio) /\ e.ret2 \in {0, dio.ret2}
  BY <1>2 DEF dio_new_bio, dio_bio_alloc, Alike, Fields, Running, Begun
<1> QED
  BY <1>1, <1>2, <1>3, SendingStep DEF Sending

LEMMA ReapStep ==
  ASSUME Running, "masked" \in DOMAIN hist, dio_bio_reap
  PROVE  Running' /\ UNCHANGED <<req, outcome>> /\ "masked" \in DOMAIN hist'
<1>1. pc = "reap" /\ UNCHANGED <<req, outcome>>
  BY DEF dio_bio_reap
<1>2. CASE dio.bio_list # <<>>
  <2>1. PICK r2 : r2 = ret_of_first
    OBVIOUS
  <2>2. r2 \in {0, -EIO}
    BY <2>1 DEF ret_of_first
  <2>3. /\ dio_bio_complete(r2) /\ pc' = pc
        /\ hist' = [hist EXCEPT !.masked = @ \/ (dio.ret2 # 0 /\ bios[Head(dio.bio_list)].ok)]
    BY <1>2, <2>1 DEF dio_bio_reap
  <2> QED
    BY <1>1, <1>2, <2>1, <2>2, <2>3, CompleteStep
<1>3. CASE dio.bio_list = <<>>
  <2>1. UNCHANGED <<bios, hist>>
    BY <1>3 DEF dio_bio_reap
  <2>2. PICK e : e = dio'
    OBVIOUS
  <2>3. Alike(e, dio)
    BY <1>3, <2>2 DEF dio_bio_reap, dio_bio_alloc, Alike, Fields, Running, Begun
  <2>4. \/ dio.ret2 = 0 /\ pc' \in {"add", "BUG"}
        \/ pc' = "sent"
    BY <1>3 DEF dio_bio_reap, Goto
  <2>5. CASE dio.ret2 = 0
    <3>1. Alike([e EXCEPT !.ret2 = dio.ret2], dio) /\ e.ret2 \in {0, dio.ret2}
      BY <2>3 DEF Alike, Fields
    <3>2. pc' \in Sending \cup {"BUG"}
      BY <2>4 DEF Sending
    <3> QED
      BY <1>1, <2>1, <2>2, <2>5, <3>1, <3>2, SendingStep DEF Sending
  <2>6. CASE dio.ret2 # 0
    <3>1. pc' = "sent"
      BY <2>4, <2>6
    <3>2. /\ Begun' /\ dio'.ret = dio.ret /\ dio'.result = dio.result
          /\ dio'.bs = dio.bs /\ dio'.zero_done = dio.zero_done /\ dio'.cur = dio.cur
          /\ dio'.back = dio.back /\ dio'.after = dio.after /\ dio'.waiter = dio.waiter
          /\ dio'.bio_count = dio.bio_count /\ dio'.bio_list = dio.bio_list
          /\ dio'.page_errors = dio.page_errors /\ dio'.ret2 = dio.ret2
      BY <2>2, <2>3 DEF Alike, Begun
    <3>3. Steady
      BY <1>1, <2>1, <3>2 DEF Steady
    <3>4. Errors'
      BY <3>2 DEF Running, Errors
    <3>5. Placed'
      BY <1>1, <3>1, <3>2 DEF Running, Placed, Cutting, Sending, Ending, Zeroed
    <3>6. Bios' /\ Counted'
      BY <1>1, <3>1, <3>3, SteadyStep DEF Submitting, Sending
    <3>7. Late' = Late /\ Failed' = Failed
      BY <1>1, <2>1, <3>1, <3>2 DEF Late, Ending, Failed
    <3>8. Noted'
      BY <1>1, <2>1, <2>6, <3>1, <3>2, <3>7 DEF Running, Noted
    <3> QED
      BY <1>1, <2>1, <3>2, <3>4, <3>5, <3>6, <3>8 DEF Running
  <2> QED
    BY <2>5, <2>6
<1> QED
  BY <1>2, <1>3

LEMMA AddPageStep ==
  ASSUME Running, "masked" \in DOMAIN hist, dio_bio_add_page
  PROVE  Running' /\ UNCHANGED <<req, outcome, hist>>
<1>1. pc = "add" /\ UNCHANGED <<req, outcome, hist>>
  BY DEF dio_bio_add_page
<1> DEFINE c == dio.cur[1]
<1>2. CASE bio_add_page(dio.bio[1], c)
  <2>1. pc' = "sent" /\ UNCHANGED bios
    BY <1>2 DEF dio_bio_add_page, Goto
  <2>2. PICK e : e = dio'
    OBVIOUS
  <2>3. Alike([e EXCEPT !.ret2 = dio.ret2], dio) /\ e.ret2 \in {0, dio.ret2}
    BY <1>2, <2>2 DEF dio_bio_add_page, Alike, Fields, Running, Begun
  <2> QED
    BY <1>1, <2>1, <2>2, <2>3, SendingStep DEF Sending
<1>3. CASE ~bio_add_page(dio.bio[1], c)
  <2>1. dio_bio_submit(dio) /\ pc' \in {"new", "BUG"}
    BY <1>3 DEF dio_bio_add_page, Goto
  <2> QED
    BY <1>1, <2>1, SubmitStep
<1> QED
  BY <1>2, <1>3

LEMMA FlushStep ==
  ASSUME Running, "masked" \in DOMAIN hist, submit_last
  PROVE  Running' /\ UNCHANGED <<req, outcome, hist>>
<1>1. pc = "flush" /\ pc' = "put" /\ UNCHANGED <<req, outcome, hist>>
  BY DEF submit_last, Goto
<1>2. CASE dio_bio_submit(dio)
  BY <1>1, <1>2, SubmitStep
<1>3. CASE UNCHANGED <<dio, bios>>
  <2>1. Steady
    BY <1>1, <1>3 DEF Steady, Running, Begun
  <2>2. Bios' /\ Counted'
    BY <2>1, <1>1, SteadyStep DEF Submitting
  <2>3. Placed'
    BY <1>1, <1>3 DEF Running, Placed, Cutting, Sending, Ending, Zeroed
  <2>4. Noted'
    BY <2>1, <1>1, <1>3, SteadyNoted DEF Late, Ending
  <2> QED
    BY <2>2, <2>3, <2>4, <1>1, <1>3 DEF Running, Begun, Errors
<1> QED
  BY <1>1, <1>2, <1>3 DEF submit_last

LEMMA PutStep ==
  ASSUME Running, "masked" \in DOMAIN hist, outcome = <<>>, put_share
  PROVE  Running' /\ Answered' /\ UNCHANGED <<req, hist>>
<1>1. /\ pc = "put" /\ pc' = IF req.async THEN "done" ELSE "await"
      /\ UNCHANGED <<req, hist, bios>>
  BY DEF put_share, Goto
<1>2. /\ Begun' /\ dio'.ret = dio.ret /\ dio'.result = dio.result
      /\ dio'.bs = dio.bs /\ dio'.zero_done = dio.zero_done /\ dio'.cur = dio.cur
      /\ dio'.back = dio.back /\ dio'.after = dio.after /\ dio'.waiter = dio.waiter
      /\ dio'.bio_count = dio.bio_count - 1 /\ dio'.bio_list = dio.bio_list
      /\ dio'.ret2 = 0 /\ dio'.page_errors = dio.page_errors
  BY DEF put_share, Begun, Fields, Running
<1>3. share = 1 /\ share' = 0 /\ busy' = busy /\ ended' = ended
  BY <1>1 DEF share, busy, ended
<1>4. Cardinality(busy) \in Nat /\ IsFiniteSet(busy)
  BY BiosShape DEF Running
<1>5. dio'.bio_count = Cardinality(busy)
  BY <1>2, <1>3, <1>4 DEF Running, Counted
<1>6. Counted'
  <2>1. Cardinality(busy) = Cardinality(busy) + 0
    BY <1>4
  <2> QED
    BY <1>2, <1>3, <1>5, <2>1 DEF Running, Counted
<1>7. Placed'
  BY <1>1, <1>2 DEF Running, Placed, Cutting, Sending, Ending, Zeroed
<1>8. Noted'
  BY <1>1, <1>2 DEF Running, Noted, Failed, Late, Ending
<1>9. Errors' /\ Bios'
  BY <1>1, <1>2 DEF Running, Errors, Bios
<1>10. Answered'
  <2>1. finished_one_bio(dio') /\ IsFiniteSet(busy')
    BY <1>3, <1>4 DEF put_share
  <2>2. req.async /\ dio'.bio_count = 0 => Cardinality(busy') = 0 /\ pc' = "done"
    BY <1>1, <1>3, <1>5
  <2> QED
    BY <1>1, <2>1, <2>2, AnswerStep
<1> QED
  BY <1>1, <1>2, <1>6, <1>7, <1>8, <1>9, <1>10 DEF Running

\* What a synchronous request returns when an error is noted.
LEMMA ErrorReturned ==
  ASSUME req \in Requests, Errors, dio.ret # 0 \/ dio.result = -EIO
  PROVE  SyncReturn(dio) < 0
<1>1. /\ OrElse(dio.ret, OrElse(dio.ret2, OrElse(dio.page_errors, -EIO))) < 0
      /\ dio.ret # 0 => dio.ret < 0
  BY DEF Errors, OrElse, EIO, EFAULT
<1>2. req.i_size \in Nat /\ req.offset \in Nat /\ SectorBytes \in Nat
  BY DirectIOAssumption DEF Request
<1>3. PICK left : left = (req.i_size - req.offset) * SectorBytes
  OBVIOUS
<1>4. left \in Int
  BY <1>2, <1>3
<1>5. PICK bytes : bytes = IF req.rw = "READ" /\ dio.result > left /\ dio.result # 0 THEN left ELSE dio.result
  OBVIOUS
<1>6. SyncReturn(dio) = OrElse(dio.ret, OrElse(dio.ret2, OrElse(dio.page_errors, bytes)))
  BY <1>3, <1>5 DEF SyncReturn
<1>7. CASE dio.ret # 0
  BY <1>1, <1>6, <1>7 DEF OrElse
<1>8. CASE dio.result = -EIO
  <2>1. bytes < 0
    BY <1>4, <1>5, <1>8 DEF EIO
  <2> QED
    BY <2>1, <1>6 DEF Errors, OrElse, EIO, EFAULT
<1> QED
  BY <1>7, <1>8

LEMMA AwaitStep ==
  ASSUME Running, req \in Requests, "masked" \in DOMAIN hist, outcome = <<>>,
         dio_await_completion
  PROVE  Running' /\ Answered' /\ UNCHANGED <<req, hist>>
<1>1. pc = "await" /\ UNCHANGED <<req, hist>>
  BY DEF dio_await_completion
<1>5. ~req.async
  BY <1>1 DEF Running, Placed
<1>2. CASE /\ all_completed(dio) /\ outcome' = <<SyncReturn(dio)>> /\ pc' = "done"
           /\ UNCHANGED <<dio, bios, mem>>
  <2>1. share = 0 /\ share' = 0 /\ busy' = busy /\ ended' = ended /\ Failed' = Failed
    BY <1>1, <1>2 DEF share, busy, ended, Failed
  <2>2. Late /\ Late'
    BY <1>1, <1>2 DEF Late, Ending
  <2>3. Placed'
    BY <1>1, <1>2 DEF Running, Placed, Cutting, Sending, Ending, Zeroed
  <2>4. Running'
    BY <1>1, <1>2, <2>1, <2>2, <2>3 DEF Running, Begun, Errors, Bios, Counted, Noted
  <2>5. Cardinality(busy) = 0
    BY <1>2, <2>1, BiosShape DEF Running, Counted, all_completed
  <2>6. busy = {}
    BY <2>5, BiosShape, FS_EmptySet DEF Running
  <2>7. (\E b \in DOMAIN bios : ~bios[b].ok) => Failed
    BY <2>6, <1>5 DEF busy, Failed, Running, Bios
  <2>8. Failed /\ ~hist.masked => SyncReturn(dio) < 0
    BY <2>2, <1>5, ErrorReturned DEF Running, Noted
  <2>9. FailureReported'
    BY <1>1, <1>2, <2>7, <2>8 DEF FailureReported
  <2> QED
    BY <1>1, <1>2, <2>1, <2>4, <2>6, <2>9 DEF Answered
<1>3. CASE ~all_completed(dio) /\ dio.bio_list # <<>> /\ UNCHANGED <<pc, outcome>>
           /\ dio_bio_complete(IF dio.ret2 = 0 THEN ret_of_first ELSE dio.ret2)
  <2>1. PICK r2 : r2 = IF dio.ret2 = 0 THEN ret_of_first ELSE dio.ret2
    OBVIOUS
  <2>2. r2 \in {0, -EIO}
    BY <2>1 DEF ret_of_first, Running, Errors
  <2>3. Running'
    BY <1>1, <1>3, <2>1, <2>2, CompleteStep
  <2> QED
    BY <1>1, <1>3, <2>3 DEF Answered
<1>4. CASE /\ dio' = [dio EXCEPT !.waiter = TRUE] /\ pc' = "asleep"
           /\ UNCHANGED <<bios, mem, outcome>>
  <2>1. /\ Begun' /\ dio'.ret = dio.ret /\ dio'.result = dio.result
        /\ dio'.bs = dio.bs /\ dio'.zero_done = dio.zero_done /\ dio'.cur = dio.cur
        /\ dio'.back = dio.back /\ dio'.after = dio.after
        /\ dio'.bio_count = dio.bio_count /\ dio'.bio_list = dio.bio_list
        /\ dio'.ret2 = dio.ret2 /\ dio'.page_errors = dio.page_errors
    BY <1>4 DEF Begun, Fields, Running
  <2>2. share = 0 /\ share' = 0 /\ busy' = busy /\ ended' = ended /\ Failed' = Failed
    BY <1>1, <1>4 DEF share, busy, ended, Failed
  <2>3. Late /\ Late'
    BY <1>1, <1>4 DEF Late, Ending
  <2>4. Placed'
    BY <1>1, <1>4, <2>1 DEF Running, Placed, Cutting, Sending, Ending, Zeroed
  <2>5. Running'
    BY <1>1, <1>4, <2>1, <2>2, <2>3, <2>4 DEF Running, Errors, Bios, Counted, Noted
  <2> QED
    BY <1>1, <1>4, <2>5 DEF Answered
<1> QED
  BY <1>2, <1>3, <1>4 DEF dio_await_completion, Goto

LEMMA StartStep ==
  ASSUME pc = "start", bios = <<>>, "masked" \in DOMAIN hist, blockdev_direct_IO
  PROVE  /\ UNCHANGED <<req, bios, hist>>
         /\ \/ pc' = "done" /\ Len(outcome') = 1
            \/ Running' /\ UNCHANGED outcome
<1>1. UNCHANGED <<req, bios, hist>>
  BY DEF blockdev_direct_IO
<1>2. CASE pc' = "done"
  <2>1. PICK e : outcome' = <<e>>
    BY <1>2 DEF blockdev_direct_IO, Refuse, Goto
  <2> QED
    BY <1>1, <1>2, <2>1
<1>3. CASE pc' # "done"
  <2>1. PICK bs, new : dio' = new_dio(bs, new) /\ pc' = "segment" /\ UNCHANGED outcome
    BY <1>3 DEF blockdev_direct_IO, Refuse, Goto
  <2>2. /\ Begun' /\ dio'.ret = 0 /\ dio'.ret2 = 0 /\ dio'.page_errors = 0 /\ dio'.cur = NONE
        /\ dio'.back = "" /\ dio'.after = "" /\ dio'.waiter = FALSE
        /\ dio'.bio_count = 1 /\ dio'.bio_list = <<>>
    BY <2>1 DEF new_dio, worker_share, Begun, Fields
  <2>3. DOMAIN bios' = {} /\ bios' \in Seq(ToSet(bios'))
    BY <1>1
  <2>4. Bios'
    BY <2>3 DEF Bios
  <2>5. busy' = {} /\ ended' = {} /\ ~Failed'
    BY <2>3 DEF busy, ended, Failed
  <2>6. <<>> \in List(Nat) /\ ToSet(<<>>) = {}
    BY DEF List, IsInjective, ToSet
  <2>7. Cardinality(busy') = 0
    BY <2>5, FS_EmptySet
  <2>8. share' = 1
    BY <2>1 DEF share
  <2>9. Counted'
    <3>1. dio'.bio_list \in List(Nat)
      BY <2>2, <2>6
    <3>2. ToSet(dio'.bio_list) = ended'
      BY <2>2, <2>5, <2>6
    <3>3. dio'.bio_count = Cardinality(busy') + share'
      <4>1. dio'.bio_count = 1
        BY <2>2
      <4>2. 0 + 1 = 1
        OBVIOUS
      <4> QED
        BY <4>1, <4>2, <2>7, <2>8
    <3> QED
      BY <3>1, <3>2, <3>3 DEF Counted
  <2>10. Placed'
    BY <2>1, <2>2 DEF Placed, Cutting, Sending, Ending, Zeroed
  <2>11. Running'
    BY <2>2, <2>4, <2>5, <2>9, <2>10 DEF Running, Errors, Noted
  <2> QED
    BY <1>1, <2>1, <2>11
<1> QED
  BY <1>2, <1>3

\* A step that does not answer the request; when it has been answered there is none.
LEMMA Unanswered ==
  ASSUME UNCHANGED outcome, outcome = <<>>
  PROVE  Answered'
BY DEF Answered

LEMMA WorkerStep ==
  ASSUME Inv, Worker
  PROVE  Inv'
<1>1. req \in Requests /\ "masked" \in DOMAIN hist /\ Answered
  BY DEF Inv
<1>2. pc # "done"
  BY DEF Worker, blockdev_direct_IO, next_segment, dio_get_page, end_segment, get_more_blocks,
         zero_start, queue_chunk, section_done, submit_page_section, cur_page_sent,
         dio_send_cur_page, dio_new_bio, dio_bio_reap, dio_bio_add_page, pad_end, send_last,
         submit_last, put_share, dio_await_completion
<1>3. outcome = <<>>
  BY <1>1, <1>2 DEF Answered
<1>4. CASE blockdev_direct_IO
  <2>1. pc = "start"
    BY <1>4 DEF blockdev_direct_IO
  <2>2. bios = <<>>
    BY <2>1, <1>2 DEF Inv, Running, Placed, Cutting, Sending, Ending
  <2>3. UNCHANGED <<req, bios, hist>> /\ ((pc' = "done" /\ Len(outcome') = 1) \/ (Running' /\ UNCHANGED outcome))
    BY <1>1, <1>4, <2>1, <2>2, StartStep
  <2>4. pc' = "done" /\ Len(outcome') = 1 => Answered'
    BY <2>2, <2>3 DEF Answered, FailureReported, busy
  <2> QED
    BY <1>1, <1>3, <2>2, <2>3, <2>4, Unanswered DEF Inv
<1>5. CASE ~blockdev_direct_IO
  <2>1. pc # "start"
    BY <1>5 DEF Worker, next_segment, dio_get_page, end_segment, get_more_blocks,
         zero_start, queue_chunk, section_done, submit_page_section, cur_page_sent,
         dio_send_cur_page, dio_new_bio, dio_bio_reap, dio_bio_add_page, pad_end, send_last,
         submit_last, put_share, dio_await_completion
  <2>2. Running
    BY <1>2, <2>1 DEF Inv
  <2>3. CASE \/ next_segment \/ dio_get_page \/ end_segment \/ get_more_blocks
             \/ zero_start \/ queue_chunk \/ section_done \/ submit_page_section
             \/ cur_page_sent \/ pad_end \/ send_last
    <3>1. Running' /\ Steady
      BY <1>1, <2>2, <2>3, SegmentStep, PageStep, EndStep, BlocksStep, ZeroStep, DataStep,
         SectionDoneStep, SectionStep, SentStep, PadStep, LastStep
    <3> QED
      BY <1>1, <1>3, <3>1, Unanswered DEF Inv, Steady
  <2>4. CASE \/ dio_send_cur_page \/ dio_new_bio \/ dio_bio_reap \/ dio_bio_add_page
             \/ submit_last
    <3>1. Running' /\ UNCHANGED <<req, outcome>> /\ "masked" \in DOMAIN hist'
      BY <1>1, <2>2, <2>4, SendStep, NewBioStep, ReapStep, AddPageStep, FlushStep
    <3> QED
      BY <1>1, <1>3, <3>1, Unanswered DEF Inv
  <2>5. CASE put_share \/ dio_await_completion
    <3>1. Running' /\ Answered' /\ UNCHANGED <<req, hist>>
      BY <1>1, <1>3, <2>2, <2>5, PutStep, AwaitStep
    <3> QED
      BY <1>1, <3>1 DEF Inv
  <2> QED
    BY <1>5, <2>3, <2>4, <2>5 DEF Worker
<1> QED
  BY <1>4, <1>5

LEMMA BioStep ==
  ASSUME Inv, NEW b \in DOMAIN bios, Device(b) \/ bio_dirty_fn(b)
  PROVE  Inv'
<1>1. bios # <<>>
  OBVIOUS
<1>2. Running
  BY <1>1 DEF Inv
<1>3. ASSUME NEW n, NEW ok, bio_endio(b, n, ok)
      PROVE  Inv'
  <2>1. b \in busy
    BY <1>3 DEF bio_endio, InFlight, busy
  <2>2. outcome = <<>>
    BY <2>1 DEF Inv, Answered
  <2>3. CASE ~req.async
    <3>1. Running' /\ UNCHANGED <<req, outcome, hist>>
      BY <1>2, <1>3, <2>3, EndioStep
    <3> QED
      BY <2>2, <3>1, Unanswered DEF Inv
  <2>4. CASE req.async
    <3>1. Running' /\ Answered' /\ UNCHANGED <<req, hist>>
      BY <1>2, <1>3, <2>2, <2>4, EndaioStep
    <3> QED
      BY <3>1 DEF Inv
  <2> QED
    BY <2>3, <2>4
<1>4. ASSUME bio_dirty_fn(b)
      PROVE  Inv'
  <2>1. Running' /\ busy' = busy /\ UNCHANGED <<req, pc, outcome>> /\ "masked" \in DOMAIN hist'
    BY <1>2, <1>4, DirtyStep DEF Inv
  <2>2. req.async
    BY <1>2, <1>4 DEF bio_dirty_fn, Running, Bios
  <2>3. Answered'
    BY <2>1, <2>2 DEF Inv, Answered, FailureReported
  <2> QED
    BY <2>1, <2>3 DEF Inv
<1> QED
  BY <1>3, <1>4 DEF Device

(***************************************************************************)
(* The theorems                                                            *)
(***************************************************************************)
LEMMA InitInv ==
  ASSUME Init
  PROVE  Inv
BY DEF Init, Inv, Answered

LEMMA NextInv ==
  ASSUME Inv, [Next]_vars
  PROVE  Inv'
<1>1. ASSUME UNCHANGED <<req, pc, dio, bios, outcome, hist>> PROVE Inv'
  BY <1>1
  DEF Inv, Answered, FailureReported, busy, Running, Begun, Errors, Placed, Zeroed, Bios,
      Counted, share, ended, Noted, Failed, Late
<1>2. CASE Worker
  BY <1>2, WorkerStep
<1>3. ASSUME NEW b \in DOMAIN bios, Device(b) \/ bio_dirty_fn(b) PROVE Inv'
  BY <1>3, BioStep
<1>4. ASSUME NEW p, Writeback(p) PROVE Inv'
  BY <1>1, <1>4 DEF Writeback
<1>5. CASE UNCHANGED vars
  BY <1>1, <1>5 DEF vars
<1> QED
  BY <1>2, <1>3, <1>4, <1>5 DEF Next

\* The invariant holds for every request and every configuration of the device.
THEOREM DirectIOInvariant == Spec => []Inv
<1>1. Init => Inv
  BY InitInv
<1>2. Inv /\ [Next]_vars => Inv'
  BY NextInv
<1> QED
  BY <1>1, <1>2, PTL DEF Spec

\* A synchronous request does not succeed when one of its bios failed (dio_bio_complete,
\* dio_bio_reap, dio_await_completion), unless dio_bio_reap forgot the error.
THEOREM FailuresReturned == Spec => []FailureReported
<1>1. Inv => FailureReported
  BY DEF Inv, Answered, FailureReported
<1> QED
  BY <1>1, DirectIOInvariant, PTL

\* A request is answered once, and when it is the device is done with all of its bios and so
\* with the caller's buffer: whoever takes bio_count to zero is the last (finished_one_bio,
\* dio_await_completion).
AnsweredAtRest == outcome # <<>> => Len(outcome) = 1 /\ busy = {}
THEOREM AnsweredOnce == Spec => []AnsweredAtRest
<1>1. Inv => AnsweredAtRest
  BY DEF Inv, Answered, AnsweredAtRest
<1> QED
  BY <1>1, DirectIOInvariant, PTL

(***************************************************************************)
(* What was read into a page is not lost                                   *)
(*                                                                         *)
(* A page may be clean although the device has just filled it: pdflush     *)
(* wrote it back after dio_bio_submit dirtied it, or nobody has dirtied it *)
(* yet.  Then a bio that holds it will dirty it: one that is on bio_list,  *)
(* or one that is left to bio_dirty_fn with the place of the page.         *)
(***************************************************************************)
BioFields == {"chunks", "left", "ok", "clean", "state"}
MemFields == {"refs", "dirty", "fresh"}

WillDirty(p) ==
  \E b \in DOMAIN bios :
    \/ bios[b].state = "ended" /\ \E i \in DOMAIN bios[b].chunks : bios[b].chunks[i].page = p
    \/ bios[b].state = "dirty" /\ \E i \in bios[b].clean : bios[b].chunks[i].page = p

FreshInv ==
  /\ MemFields \subseteq DOMAIN mem
  /\ bios \in Seq(ToSet(bios))
  /\ \A b \in DOMAIN bios : BioFields \subseteq DOMAIN bios[b]
  /\ req.rw # "READ" => mem.fresh = {}
  /\ ZERO_PAGE \notin mem.fresh
  /\ \A p \in mem.fresh : p \in mem.dirty \/ WillDirty(p)

\* Only references change.
Pinning == /\ MemFields \subseteq DOMAIN mem'
           /\ mem'.dirty = mem.dirty /\ mem'.fresh = mem.fresh

LEMMA PinningKeeps ==
  ASSUME FreshInv, Pinning, UNCHANGED <<req, bios>>
  PROVE  FreshInv'
BY DEF FreshInv, Pinning, WillDirty

\* References are taken and dropped without anything else.
LEMMA RefsOnly ==
  ASSUME NEW m, MemFields \subseteq DOMAIN m
  PROVE  /\ \A p : /\ MemFields \subseteq DOMAIN page_cache_get(m, p)
                   /\ page_cache_get(m, p).dirty = m.dirty /\ page_cache_get(m, p).fresh = m.fresh
                   /\ MemFields \subseteq DOMAIN page_cache_release(m, p)
                   /\ page_cache_release(m, p).dirty = m.dirty
                   /\ page_cache_release(m, p).fresh = m.fresh
         /\ \A cs, I : /\ MemFields \subseteq DOMAIN put_pages(m, cs, I)
                       /\ put_pages(m, cs, I).dirty = m.dirty /\ put_pages(m, cs, I).fresh = m.fresh
         /\ \A d : /\ MemFields \subseteq DOMAIN dio_cleanup(m, d)
                   /\ dio_cleanup(m, d).dirty = m.dirty /\ dio_cleanup(m, d).fresh = m.fresh
BY DEF MemFields, page_cache_get, page_cache_release, put_pages, dio_cleanup

LEMMA LeavePins ==
  ASSUME MemFields \subseteq DOMAIN mem, NEW d, NEW m, NEW h, NEW e, Leave(d, m, h, e),
         MemFields \subseteq DOMAIN m, m.dirty = mem.dirty, m.fresh = mem.fresh
  PROVE  Pinning
BY RefsOnly DEF Leave, Pinning

\* What the worker does to the pages and the bios, step by step.
LEMMA WorkerPins ==
  ASSUME MemFields \subseteq DOMAIN mem, Worker
  PROVE  /\ UNCHANGED req
         /\ \/ Pinning /\ UNCHANGED bios
            \/ dio_bio_submit(dio)
            \/ \E r2 : dio_bio_complete(r2) /\ dio.bio_list # <<>> /\ pc \in {"reap", "await"}
<1> USE RefsOnly
<1>0. UNCHANGED mem => Pinning
  BY DEF Pinning
<1>1. CASE blockdev_direct_IO
  BY <1>0, <1>1 DEF blockdev_direct_IO
<1>2. CASE next_segment
  BY <1>0, <1>2 DEF next_segment
<1>3. CASE dio_get_page
  <2>1. CASE UNCHANGED mem
    BY <1>0, <1>3, <2>1 DEF dio_get_page
  <2>2. CASE \E e : Leave(dio, mem, hist, e)
    BY <1>3, <2>2, LeavePins DEF dio_get_page
  <2>3. CASE \E f : mem' = [mem EXCEPT !.refs = f]
    BY <1>3, <2>3 DEF dio_get_page, Pinning, MemFields
  <2> QED
    BY <1>3, <2>1, <2>2, <2>3 DEF dio_get_page
<1>4. CASE end_segment
  BY <1>4, LeavePins DEF end_segment
<1>5. CASE get_more_blocks
  <2> DEFINE m == page_cache_release(mem, dio.page)
  <2>1. UNCHANGED <<req, bios>>
    BY <1>5 DEF get_more_blocks
  <2>2. \/ UNCHANGED mem \/ \E d, e : Leave(d, m, hist, e)
        \/ \E d, n : Advance(d, n)
    BY <1>5 DEF get_more_blocks
  <2>3. ASSUME NEW d, NEW e, Leave(d, m, hist, e) PROVE Pinning
    BY <2>3, LeavePins
  <2>4. ASSUME NEW d, NEW n, Advance(d, n) PROVE Pinning
    BY <2>4 DEF Advance, Pinning
  <2> QED
    BY <1>0, <2>1, <2>2, <2>3, <2>4
<1>6. CASE zero_start
  BY <1>0, <1>6 DEF zero_start
<1>7. CASE queue_chunk
  BY <1>0, <1>7 DEF queue_chunk
<1>8. CASE section_done
  <2> DEFINE m == page_cache_release(mem, dio.page)
  <2>1. UNCHANGED <<req, bios>>
    BY <1>8 DEF section_done
  <2>2. \/ UNCHANGED mem \/ \E d, e : Leave(d, m, hist, e)
        \/ \E d, n : Advance(d, n)
    BY <1>8 DEF section_done
  <2>3. ASSUME NEW d, NEW e, Leave(d, m, hist, e) PROVE Pinning
    BY <2>3, LeavePins
  <2>4. ASSUME NEW d, NEW n, Advance(d, n) PROVE Pinning
    BY <2>4 DEF Advance, Pinning
  <2> QED
    BY <1>0, <2>1, <2>2, <2>3, <2>4
<1>9. CASE submit_page_section
  BY <1>0, <1>9 DEF submit_page_section, Pinning
<1>10. CASE cur_page_sent
  BY <1>10 DEF cur_page_sent, Pinning
<1>11. CASE dio_send_cur_page
  BY <1>0, <1>11 DEF dio_send_cur_page
<1>12. CASE dio_new_bio
  BY <1>0, <1>12 DEF dio_new_bio
<1>13. CASE dio_bio_reap
  BY <1>0, <1>13 DEF dio_bio_reap
<1>14. CASE dio_bio_add_page
  BY <1>14 DEF dio_bio_add_page, Pinning
<1>15. CASE pad_end
  BY <1>0, <1>15 DEF pad_end
<1>16. CASE send_last
  BY <1>0, <1>16 DEF send_last
<1>17. CASE submit_last
  BY <1>0, <1>17 DEF submit_last
<1>18. CASE put_share
  BY <1>0, <1>18 DEF put_share
<1>19. CASE dio_await_completion
  BY <1>0, <1>19 DEF dio_await_completion
<1> QED
  BY <1>1, <1>2, <1>3, <1>4, <1>5, <1>6, <1>7, <1>8, <1>9, <1>10, <1>11, <1>12, <1>13, <1>14,
     <1>15, <1>16, <1>17, <1>18, <1>19 DEF Worker

\* A bio of the list changes and keeps its fields; every other one is as it was.
LEMMA BiosElsewhere ==
  ASSUME bios \in Seq(ToSet(bios)), \A b \in DOMAIN bios : BioFields \subseteq DOMAIN bios[b],
         NEW b \in DOMAIN bios, NEW r, BioFields \subseteq DOMAIN r, bios' = [bios EXCEPT ![b] = r]
  PROVE  /\ bios' \in Seq(ToSet(bios')) /\ DOMAIN bios' = DOMAIN bios
         /\ bios'[b] = r /\ \A c \in DOMAIN bios \ {b} : bios'[c] = bios[c]
         /\ \A c \in DOMAIN bios' : BioFields \subseteq DOMAIN bios'[c]
<1>1. bios' \in Seq(ToSet(bios) \cup {r})
  OBVIOUS
<1>2. bios' \in Seq(ToSet(bios'))
  BY <1>1, OwnElements
<1> QED
  BY <1>2

LEMMA SubmitFresh ==
  ASSUME FreshInv, dio_bio_submit(dio), UNCHANGED req
  PROVE  FreshInv'
<1> DEFINE b == [chunks |-> dio.bio[1].chunks, left |-> ChunkSum(dio.bio[1].chunks), ok |-> TRUE,
                 clean |-> {}, state |-> "flight"]
<1>1. BioFields \subseteq DOMAIN b
  BY DEF BioFields
<1>2. bios' = Append(bios, b)
  BY DEF dio_bio_submit
<1>3. /\ MemFields \subseteq DOMAIN mem' /\ mem.dirty \subseteq mem'.dirty /\ mem'.fresh = mem.fresh
  BY DEF dio_bio_submit, bio_set_pages_dirty, set_dirty, FreshInv, MemFields
<1> HIDE DEF b
<1>4. bios' \in Seq(ToSet(bios) \cup {b})
  BY <1>2 DEF FreshInv
<1>5. /\ bios' \in Seq(ToSet(bios'))
      /\ \A c \in DOMAIN bios : c \in DOMAIN bios' /\ bios'[c] = bios[c]
      /\ \A c \in DOMAIN bios' : BioFields \subseteq DOMAIN bios'[c]
  <2>1. bios' \in Seq(ToSet(bios'))
    BY <1>4, OwnElements
  <2>2. bios \in Seq(ToSet(bios)) /\ \A c \in DOMAIN bios : BioFields \subseteq DOMAIN bios[c]
    BY DEF FreshInv
  <2>3. PICK n \in Nat : n = Len(bios) /\ DOMAIN bios = 1 .. n
    BY <2>2
  <2>4. /\ DOMAIN bios' = 1 .. n + 1 /\ bios'[n + 1] = b
        /\ \A c \in 1 .. n : bios'[c] = bios[c]
    BY <1>2, <2>2, <2>3
  <2>5. \A c \in 1 .. n + 1 : c = n + 1 \/ c \in 1 .. n
    OBVIOUS
  <2> QED
    BY <1>1, <2>1, <2>2, <2>3, <2>4, <2>5
<1>6. \A p : WillDirty(p) => WillDirty(p)'
  BY <1>5 DEF WillDirty
<1> QED
  BY <1>3, <1>5, <1>6 DEF FreshInv

\* dio_bio_complete dirties all pages of the bio when it was a read.
LEMMA CompleteFresh ==
  ASSUME FreshInv, NEW r2, dio_bio_complete(r2), Head(dio.bio_list) \in DOMAIN bios, UNCHANGED req,
         bios[Head(dio.bio_list)].state = "ended"
  PROVE  FreshInv'
<1>1. PICK b \in DOMAIN bios : b = Head(dio.bio_list)
  OBVIOUS
<1>2. /\ bios[b].state = "ended" /\ BioFields \subseteq DOMAIN bios[b]
      /\ bios' = [bios EXCEPT ![b].state = "put"] /\ mem' = release_pages(mem, bios[b])
  BY <1>1 DEF dio_bio_complete, FreshInv
<1>3. PICK r : r = [bios[b] EXCEPT !.state = "put"]
  OBVIOUS
<1>4. bios' = [bios EXCEPT ![b] = r] /\ BioFields \subseteq DOMAIN r
  BY <1>2, <1>3
<1>5. /\ bios' \in Seq(ToSet(bios')) /\ DOMAIN bios' = DOMAIN bios
      /\ bios'[b] = r /\ \A c \in DOMAIN bios \ {b} : bios'[c] = bios[c]
      /\ \A c \in DOMAIN bios' : BioFields \subseteq DOMAIN bios'[c]
  BY <1>4, BiosElsewhere DEF FreshInv
<1>6. CASE req.rw # "READ"
  <2>1. MemFields \subseteq DOMAIN mem' /\ mem'.fresh = {}
    BY <1>2, <1>6, RefsOnly DEF release_pages, FreshInv
  <2> QED
    BY <1>5, <1>6, <2>1 DEF FreshInv
<1>7. CASE req.rw = "READ"
  <2>1. PICK m : m = bio_set_pages_dirty(mem, bios[b])
    OBVIOUS
  <2>2. /\ MemFields \subseteq DOMAIN m /\ m.fresh = mem.fresh
        /\ m.dirty = mem.dirty \cup ({bios[b].chunks[i].page : i \in DOMAIN bios[b].chunks} \ {ZERO_PAGE})
    BY <2>1 DEF bio_set_pages_dirty, set_dirty, FreshInv, MemFields
  <2>3. MemFields \subseteq DOMAIN mem' /\ mem'.fresh = m.fresh /\ mem'.dirty = m.dirty
    BY <1>2, <1>7, <2>1, <2>2, RefsOnly DEF release_pages
  <2>4. ASSUME NEW p \in mem.fresh PROVE p \in mem'.dirty \/ WillDirty(p)'
    BY <1>2, <1>5, <2>2, <2>3, <2>4 DEF FreshInv, WillDirty
  <2> QED
    BY <1>5, <1>7, <2>2, <2>3, <2>4 DEF FreshInv
<1> QED
  BY <1>6, <1>7

\* The last part of a bio: its pages are fresh, and the bio is on its way to dirty them.
LEMMA EndioFresh ==
  ASSUME FreshInv, NEW b \in DOMAIN bios, NEW n, NEW ok, bio_endio(b, n, ok)
  PROVE  FreshInv'
<1>1. UNCHANGED req /\ bios[b].state = "flight" /\ BioFields \subseteq DOMAIN bios[b]
  BY DEF bio_endio, InFlight, FreshInv
<1>2. PICK done : done = [bios[b] EXCEPT !.left = @ - n, !.ok = @ /\ ok]
  OBVIOUS
<1>3. BioFields \subseteq DOMAIN done /\ done.chunks = bios[b].chunks /\ done.state = "flight"
  BY <1>1, <1>2 DEF BioFields
<1>4. PICK m : m = IF req.rw = "READ" THEN [mem EXCEPT !.fresh = @ \cup (BioPages(done) \ {ZERO_PAGE})] ELSE mem
  OBVIOUS
<1>5. /\ MemFields \subseteq DOMAIN m /\ m.dirty = mem.dirty
      /\ m.fresh = IF req.rw = "READ" THEN mem.fresh \cup (BioPages(done) \ {ZERO_PAGE}) ELSE {}
  BY <1>4 DEF FreshInv, MemFields
<1>6. \/ bios' = [bios EXCEPT ![b] = done] /\ UNCHANGED mem
      \/ bios' = [bios EXCEPT ![b] = [done EXCEPT !.state = "ended"]] /\ mem' = m
      \/ dio_bio_end_aio(dio, b, done, m)
  BY <1>2, <1>4 DEF bio_endio
<1>7. \A r : BioFields \subseteq DOMAIN r /\ bios' = [bios EXCEPT ![b] = r] =>
        /\ bios' \in Seq(ToSet(bios')) /\ DOMAIN bios' = DOMAIN bios
        /\ bios'[b] = r /\ \A c \in DOMAIN bios \ {b} : bios'[c] = bios[c]
        /\ \A c \in DOMAIN bios' : BioFields \subseteq DOMAIN bios'[c]
  BY BiosElsewhere DEF FreshInv
<1>8. CASE bios' = [bios EXCEPT ![b] = done] /\ UNCHANGED mem
  <2>1. /\ bios' \in Seq(ToSet(bios')) /\ DOMAIN bios' = DOMAIN bios
        /\ bios'[b] = done /\ \A c \in DOMAIN bios \ {b} : bios'[c] = bios[c]
        /\ \A c \in DOMAIN bios' : BioFields \subseteq DOMAIN bios'[c]
    BY <1>3, <1>7, <1>8
  <2>2. \A p : WillDirty(p) => WillDirty(p)'
    BY <1>1, <2>1 DEF WillDirty
  <2> QED
    BY <1>1, <1>8, <2>1, <2>2 DEF FreshInv
<1>9. CASE bios' = [bios EXCEPT ![b] = [done EXCEPT !.state = "ended"]] /\ mem' = m
  <2>1. PICK r : r = [done EXCEPT !.state = "ended"]
    OBVIOUS
  <2>2. BioFields \subseteq DOMAIN r /\ r.state = "ended" /\ r.chunks = bios[b].chunks
    BY <1>3, <2>1 DEF BioFields
  <2>3. /\ bios' \in Seq(ToSet(bios')) /\ DOMAIN bios' = DOMAIN bios
        /\ bios'[b] = r /\ \A c \in DOMAIN bios \ {b} : bios'[c] = bios[c]
        /\ \A c \in DOMAIN bios' : BioFields \subseteq DOMAIN bios'[c]
    BY <1>7, <1>9, <2>1, <2>2
  <2>4. \A p : WillDirty(p) \/ p \in BioPages(done) => WillDirty(p)'
    BY <1>1, <1>3, <2>2, <2>3 DEF WillDirty, BioPages
  <2> QED
    BY <1>1, <1>5, <1>9, <2>3, <2>4 DEF FreshInv
<1>10. CASE dio_bio_end_aio(dio, b, done, m)
  <2>0. PICK checked : checked = IF req.rw = "READ" THEN bio_check_pages_dirty(m, done)
                                 ELSE <<release_pages(m, done), {}>>
    OBVIOUS
  <2>9. PICK cs : cs = checked[2]
    OBVIOUS
  <2>12. PICK st : st = IF cs = {} THEN "put" ELSE "dirty"
    OBVIOUS
  <2>10. PICK r : r = [done EXCEPT !.clean = cs, !.state = st]
    OBVIOUS
  <2>11. bios' = [bios EXCEPT ![b] = r] /\ mem' = checked[1]
    BY <1>10, <2>0, <2>9, <2>10, <2>12 DEF dio_bio_end_aio
  <2>1. /\ MemFields \subseteq DOMAIN mem' /\ mem'.fresh = m.fresh
        /\ req.rw = "READ" => cs = Clean(m, done) /\ mem'.dirty = m.dirty
    <3>1. CASE req.rw = "READ"
      <4>1. checked[1] = put_pages(m, done.chunks, DOMAIN done.chunks \ Clean(m, done)) /\ cs = Clean(m, done)
        <5>1. PICK ms : ms = put_pages(m, done.chunks, DOMAIN done.chunks \ Clean(m, done))
          OBVIOUS
        <5>2. checked = <<ms, Clean(m, done)>>
          BY <2>0, <3>1, <5>1 DEF bio_check_pages_dirty
        <5> QED
          BY <2>9, <5>1, <5>2
      <4> QED
        BY <1>5, <2>11, <3>1, <4>1, RefsOnly
    <3>2. CASE req.rw # "READ"
      <4>1. checked[1] = put_pages(m, done.chunks, DOMAIN done.chunks)
        BY <2>0, <3>2 DEF release_pages
      <4> QED
        BY <1>5, <2>11, <3>2, <4>1, RefsOnly
    <3> QED
      BY <3>1, <3>2
  <2>2. /\ BioFields \subseteq DOMAIN r /\ r.chunks = bios[b].chunks /\ r.clean = cs
        /\ cs # {} => r.state = "dirty"
    BY <1>3, <2>10, <2>12 DEF BioFields
  <2>3. /\ bios' \in Seq(ToSet(bios')) /\ DOMAIN bios' = DOMAIN bios
        /\ bios'[b] = r /\ \A c \in DOMAIN bios \ {b} : bios'[c] = bios[c]
        /\ \A c \in DOMAIN bios' : BioFields \subseteq DOMAIN bios'[c]
    BY <1>7, <2>2, <2>11
  <2>4. CASE req.rw # "READ"
    BY <1>1, <1>5, <2>1, <2>3, <2>4 DEF FreshInv
  <2>5. CASE req.rw = "READ"
    <3>1. \A p : WillDirty(p) => WillDirty(p)'
      BY <1>1, <2>3 DEF WillDirty
    <3>2. ASSUME NEW p \in BioPages(done) \ {ZERO_PAGE}, p \notin mem'.dirty PROVE WillDirty(p)'
      <4>1. PICK i \in DOMAIN done.chunks : done.chunks[i].page = p
        BY <3>2 DEF BioPages
      <4>2. i \in cs
        BY <2>1, <2>5, <3>2, <4>1 DEF Clean
      <4> QED
        BY <1>3, <2>2, <2>3, <4>1, <4>2 DEF WillDirty
    <3> QED
      BY <1>1, <1>5, <2>1, <2>3, <2>5, <3>1, <3>2 DEF FreshInv
  <2> QED
    BY <2>4, <2>5
<1> QED
  BY <1>6, <1>8, <1>9, <1>10

LEMMA DirtyFresh ==
  ASSUME FreshInv, NEW b \in DOMAIN bios, bio_dirty_fn(b)
  PROVE  FreshInv'
<1>1. /\ UNCHANGED req /\ bios[b].state = "dirty" /\ BioFields \subseteq DOMAIN bios[b]
      /\ bios' = [bios EXCEPT ![b].state = "put"] /\ mem' = set_dirty(mem, bios[b], bios[b].clean)
  BY DEF bio_dirty_fn, FreshInv
<1>2. PICK r : r = [bios[b] EXCEPT !.state = "put"]
  OBVIOUS
<1>3. bios' = [bios EXCEPT ![b] = r] /\ BioFields \subseteq DOMAIN r
  BY <1>1, <1>2
<1>4. /\ bios' \in Seq(ToSet(bios')) /\ DOMAIN bios' = DOMAIN bios
      /\ bios'[b] = r /\ \A c \in DOMAIN bios \ {b} : bios'[c] = bios[c]
      /\ \A c \in DOMAIN bios' : BioFields \subseteq DOMAIN bios'[c]
  BY <1>3, BiosElsewhere DEF FreshInv
<1>5. /\ MemFields \subseteq DOMAIN mem' /\ mem'.fresh = mem.fresh
      /\ mem'.dirty = mem.dirty \cup ({bios[b].chunks[i].page : i \in bios[b].clean} \ {ZERO_PAGE})
  BY <1>1 DEF set_dirty, FreshInv, MemFields
<1>6. ASSUME NEW p \in mem.fresh PROVE p \in mem'.dirty \/ WillDirty(p)'
  BY <1>1, <1>4, <1>5, <1>6 DEF FreshInv, WillDirty
<1> QED
  BY <1>1, <1>4, <1>5, <1>6 DEF FreshInv

LEMMA NextFresh ==
  ASSUME Inv, FreshInv, [Next]_vars
  PROVE  FreshInv'
<1>1. CASE Worker
  <2>1. /\ UNCHANGED req
        /\ \/ Pinning /\ UNCHANGED bios
           \/ dio_bio_submit(dio)
           \/ \E r2 : dio_bio_complete(r2) /\ dio.bio_list # <<>> /\ pc \in {"reap", "await"}
    BY <1>1, WorkerPins DEF FreshInv
  <2>2. ASSUME NEW r2, dio_bio_complete(r2), dio.bio_list # <<>>, pc \in {"reap", "await"}
        PROVE  FreshInv'
    <3>1. Running
      BY <2>2 DEF Inv
    <3>2. Head(dio.bio_list) \in ended
      BY <2>2, <3>1, TailList DEF Running, Counted
    <3> QED
      BY <2>1, <2>2, <3>2, CompleteFresh DEF ended
  <2> QED
    BY <2>1, <2>2, PinningKeeps, SubmitFresh
<1>2. ASSUME NEW b \in DOMAIN bios, Device(b) \/ bio_dirty_fn(b) PROVE FreshInv'
  BY <1>2, EndioFresh, DirtyFresh DEF Device
<1>3. ASSUME NEW p, Writeback(p) PROVE FreshInv'
  <2>1. /\ UNCHANGED <<req, bios>> /\ MemFields \subseteq DOMAIN mem'
        /\ mem'.dirty = mem.dirty \ {p} /\ mem'.fresh = mem.fresh \ {p}
    BY <1>3 DEF Writeback, FreshInv, MemFields
  <2> QED
    BY <2>1 DEF FreshInv, WillDirty
<1>4. CASE UNCHANGED vars
  BY <1>4 DEF vars, FreshInv, WillDirty
<1> QED
  BY <1>1, <1>2, <1>3, <1>4 DEF Next

LEMMA InitFresh ==
  ASSUME Init
  PROVE  FreshInv
BY DEF Init, FreshInv, MemFields

\* Once the request and its bios are done with, every page the device read into is dirty,
\* whenever pdflush came between (bio_check_pages_dirty, bio_dirty_fn, dio_bio_complete).
THEOREM DataReachesDisk == Spec => []NoLostData
<1>1. Init => FreshInv
  BY InitFresh
<1>2. Inv /\ FreshInv /\ [Next]_vars => FreshInv'
  BY NextFresh
<1>3. FreshInv => NoLostData
  BY DEF FreshInv, NoLostData, AtRest, WillDirty
<1> QED
  BY <1>1, <1>2, <1>3, DirectIOInvariant, PTL DEF Spec

(***************************************************************************)
(* Page references                                                         *)
(*                                                                         *)
(* Whoever has a reference on a page of the buffer is accounted for: the   *)
(* pages queued, the page being cut up, the deferred chunk, the bio under  *)
(* assembly, the bios that have not been put, and the pages counted in     *)
(* kept.  Over the whole request the two sides stay equal.                 *)
(***************************************************************************)
Is(p, q) == IF p = q THEN 1 ELSE 0
Listed(s) == s \in Seq(ToSet(s))

\* The places of a bio's chunks whose pages it still has a reference on.
Live(r) ==
  IF r.state \in {"flight", "ended"} THEN DOMAIN r.chunks
  ELSE IF r.state = "dirty" THEN r.clean ELSE {}
Row(p, r) == {i \in Live(r) : r.chunks[i].page = p}
Pairs(p, bs, D) == UNION {{b} \X Row(p, bs[b]) : b \in D}
InBios(p) == Pairs(p, bios, DOMAIN bios)

\* The worker's references: on page p as part of d, and on the page it is cutting up.
InBio(p, d) == IF d.bio = NONE THEN 0 ELSE Uses(p, d.bio[1].chunks, DOMAIN d.bio[1].chunks)
OnCur(p, d) == IF d.cur = NONE THEN 0 ELSE Is(p, d.cur[1].page)
Queue(p, d) == Times(p, d.pages)
AtPage(l, d) ==
  \/ l \in {"chunk", "zero", "data", "zeroed", "queued"}
  \/ l \in {"section"} \cup Sending /\ d.after # "last" /\ d.back # "padded"
OnPage(p, l, d) == IF AtPage(l, d) THEN Is(p, d.page) ELSE 0
Total(p, l, d) == Queue(p, d) + InBio(p, d) + OnCur(p, d) + OnPage(p, l, d)

\* The worker is between the first segment and the last bio.
Working == pc \in Cutting \cup Sending \cup {"section", "padded", "last", "flush"}
Held(p) == IF Working THEN Total(p, pc, dio) ELSE 0

PageFields == {"pages", "page", "bio", "cur", "arg", "after", "back", "seg", "curr_page"}
ChunkFields == {"page", "off", "len", "block"}
OneChunk(c) == c = NONE \/ (1 \in DOMAIN c /\ ChunkFields \subseteq DOMAIN c[1])

DioShape(d) ==
  /\ PageFields \subseteq DOMAIN d
  /\ Listed(d.pages)
  /\ d.bio = NONE \/ (1 \in DOMAIN d.bio /\ "chunks" \in DOMAIN d.bio[1] /\ Listed(d.bio[1].chunks))
  /\ OneChunk(d.cur) /\ OneChunk(d.arg)
  /\ d.seg \in 0 .. Len(req.segs) /\ d.curr_page \in Nat

\* What there is where.
Present(l, d) ==
  /\ l = "page" \/ AtPage(l, d) \/ d.pages = <<>>
  /\ l = "page" \/ AtPage(l, d) => d.seg # 0
  /\ l \in Sending => d.cur # NONE
  /\ l = "section" \/ (l \in Sending /\ d.after # "last") => d.arg # NONE
  /\ l \in {"new", "reap"} => d.bio = NONE
  /\ l = "add" => d.bio # NONE
  /\ l = "flush" => d.cur = NONE

BiosListed ==
  \A b \in DOMAIN bios : Listed(bios[b].chunks) /\ bios[b].clean \subseteq DOMAIN bios[b].chunks

Balanced(p) ==
  IsFiniteSet(InBios(p)) /\ mem.refs[p] = hist.kept[p] + Cardinality(InBios(p)) + Held(p)

RefTypes ==
  /\ mem.refs \in [UserPages -> Int]
  /\ "kept" \in DOMAIN hist /\ hist.kept \in [UserPages -> Int]
  /\ BiosListed

RefInv ==
  pc # "BUG" => /\ RefTypes
                /\ Working => DioShape(dio) /\ Present(pc, dio)
                /\ \A p \in UserPages : Balanced(p)

LEMMA DisjointUnion ==
  ASSUME NEW S, NEW T, IsFiniteSet(S), IsFiniteSet(T), S \cap T = {}
  PROVE  IsFiniteSet(S \cup T) /\ Cardinality(S \cup T) = Cardinality(S) + Cardinality(T)
<1>1. /\ IsFiniteSet(S \cup T)
      /\ Cardinality(S \cup T) = Cardinality(S) + Cardinality(T) - Cardinality(S \cap T)
  BY FS_Union
<1>2. Cardinality(S \cap T) = 0 /\ Cardinality(S) \in Nat /\ Cardinality(T) \in Nat
  BY FS_EmptySet, FS_CardinalityType
<1> QED
  BY <1>1, <1>2

\* The pairs of one row.
LEMMA RowCount ==
  ASSUME NEW b, NEW R, IsFiniteSet(R)
  PROVE  IsFiniteSet({b} \X R) /\ Cardinality({b} \X R) = Cardinality(R)
<1>1. IsFiniteSet({b}) /\ Cardinality({b}) = 1
  BY FS_Singleton
<1>2. IsFiniteSet({b} \X R) /\ Cardinality({b} \X R) = Cardinality({b}) * Cardinality(R)
  BY <1>1, FS_Product
<1>3. PICK n \in Nat : n = Cardinality(R)
  BY FS_CardinalityType
<1>4. Cardinality({b} \X R) = 1 * n
  BY <1>1, <1>2, <1>3
<1> QED
  BY <1>2, <1>3, <1>4

LEMMA ListedFinite ==
  ASSUME NEW s, Listed(s), NEW I \in SUBSET DOMAIN s
  PROVE  IsFiniteSet(I) /\ Cardinality(I) \in Nat
<1>1. PICK n \in Nat : n = Len(s) /\ DOMAIN s = 1 .. n
  BY DEF Listed
<1>2. IsFiniteSet(1 .. n)
  BY FS_Interval
<1>3. IsFiniteSet(I)
  BY <1>1, <1>2, FS_Subset
<1> QED
  BY <1>3, FS_CardinalityType

LEMMA CountTypes ==
  ASSUME NEW s, Listed(s)
  PROVE  /\ \A p : Times(p, s) \in Nat
         /\ \A p, I : I \subseteq DOMAIN s => Uses(p, s, I) \in Nat
<1>1. ASSUME NEW p PROVE Times(p, s) \in Nat
  <2>1. {i \in DOMAIN s : s[i] = p} \in SUBSET DOMAIN s
    OBVIOUS
  <2> QED
    BY <2>1, ListedFinite DEF Times
<1>2. ASSUME NEW p, NEW I, I \subseteq DOMAIN s PROVE Uses(p, s, I) \in Nat
  <2>1. {i \in I : s[i].page = p} \in SUBSET DOMAIN s
    BY <1>2
  <2> QED
    BY <2>1, ListedFinite DEF Uses
<1> QED
  BY <1>1, <1>2

\* The uses at some places, and at the others.
LEMMA UsesSplit ==
  ASSUME NEW s, Listed(s), NEW p, NEW I \in SUBSET DOMAIN s
  PROVE  Uses(p, s, DOMAIN s) = Uses(p, s, I) + Uses(p, s, DOMAIN s \ I)
<1> DEFINE A == {i \in I : s[i].page = p}
           B == {i \in DOMAIN s \ I : s[i].page = p}
<1>1. IsFiniteSet(A) /\ IsFiniteSet(B)
  BY ListedFinite
<1>2. A \cap B = {} /\ {i \in DOMAIN s : s[i].page = p} = A \cup B
  OBVIOUS
<1> QED
  BY <1>1, <1>2, DisjointUnion DEF Uses

LEMMA EmptyCounts ==
  /\ Listed(<<>>)
  /\ \A p : Times(p, <<>>) = 0
  /\ \A p, s : Uses(p, s, {}) = 0
<1>1. Listed(<<>>)
  BY DEF Listed
<1>2. ASSUME NEW p PROVE Times(p, <<>>) = 0
  <2>1. {i \in DOMAIN <<>> : <<>>[i] = p} = {}
    OBVIOUS
  <2> QED
    BY <2>1, FS_EmptySet DEF Times
<1>3. ASSUME NEW p, NEW s PROVE Uses(p, s, {}) = 0
  <2>1. {i \in {} : s[i].page = p} = {}
    OBVIOUS
  <2> QED
    BY <2>1, FS_EmptySet DEF Uses
<1> QED
  BY <1>1, <1>2, <1>3

\* A chunk more in a bio.
LEMMA AppendUses ==
  ASSUME NEW s, Listed(s), NEW c, NEW p
  PROVE  /\ Listed(Append(s, c))
         /\ Uses(p, Append(s, c), DOMAIN Append(s, c)) = Uses(p, s, DOMAIN s) + Is(p, c.page)
<1>1. PICK n \in Nat : n = Len(s) /\ DOMAIN s = 1 .. n
  BY DEF Listed
<1>2. PICK t : t = Append(s, c)
  OBVIOUS
<1>3. /\ Listed(t) /\ DOMAIN t = 1 .. n + 1 /\ t[n + 1] = c
      /\ \A i \in 1 .. n : t[i] = s[i]
  <2>1. s \in Seq(ToSet(s) \cup {c})
    BY DEF Listed
  <2>2. t \in Seq(ToSet(s) \cup {c})
    BY <1>2, <2>1
  <2>3. Listed(t)
    BY <2>2, OwnElements DEF Listed
  <2> QED
    BY <1>1, <1>2, <2>1, <2>3
<1> DEFINE A == {i \in 1 .. n : s[i].page = p}
           B == {i \in 1 .. n + 1 : t[i].page = p}
<1>4. IsFiniteSet(A) /\ n + 1 \notin A
  BY <1>1, ListedFinite
<1>5. B = IF c.page = p THEN A \cup {n + 1} ELSE A
  <2>1. \A i : i \in 1 .. n + 1 <=> i \in 1 .. n \/ i = n + 1
    OBVIOUS
  <2> QED
    BY <1>3, <2>1
<1>6. Cardinality(B) = Cardinality(A) + Is(p, c.page)
  <2>1. Cardinality(A \cup {n + 1}) = Cardinality(A) + 1 /\ Cardinality(A) \in Nat
    BY <1>4, FS_AddElement, FS_CardinalityType
  <2>2. CASE c.page = p
    BY <1>5, <2>1, <2>2 DEF Is
  <2>3. CASE c.page # p
    <3>1. B = A /\ Is(p, c.page) = 0
      BY <1>5, <2>3 DEF Is
    <3> HIDE DEF A, B
    <3> QED
      BY <2>1, <3>1
  <2> QED
    BY <2>2, <2>3
<1>7. Uses(p, t, DOMAIN t) = Uses(p, s, DOMAIN s) + Is(p, c.page)
  <2>1. Uses(p, t, DOMAIN t) = Cardinality(B)
    BY <1>3 DEF Uses
  <2>2. Uses(p, s, DOMAIN s) = Cardinality(A)
    BY <1>1 DEF Uses
  <2> QED
    BY <1>6, <2>1, <2>2
<1> QED
  BY <1>2, <1>3, <1>7

\* The first page of the queue.
LEMMA HeadTimes ==
  ASSUME NEW s, Listed(s), s # <<>>, NEW p
  PROVE  Listed(Tail(s)) /\ Times(p, s) = Times(p, Tail(s)) + Is(p, Head(s))
<1>1. PICK n \in Nat : n = Len(s) /\ DOMAIN s = 1 .. n /\ n > 0
  BY DEF Listed
<1>2. PICK t : t = Tail(s)
  OBVIOUS
<1>3. /\ Listed(t) /\ DOMAIN t = 1 .. n - 1 /\ \A i \in 1 .. n - 1 : t[i] = s[i + 1]
      /\ Head(s) = s[1]
  <2>1. t \in Seq(ToSet(s))
    BY <1>2 DEF Listed
  <2>2. Listed(t)
    BY <2>1, OwnElements DEF Listed
  <2> QED
    BY <1>1, <1>2, <2>2 DEF Listed
<1> DEFINE T == {i \in 1 .. n - 1 : t[i] = p}
           S == {i \in 2 .. n : s[i] = p}
           U == {i \in 1 .. n : s[i] = p}
           f == [i \in T |-> i + 1]
<1>4. IsFiniteSet(T)
  BY <1>3, ListedFinite
<1>5. f \in Bijection(T, S)
  <2>1. f \in [T -> S]
    BY <1>1, <1>3
  <2>2. \A i, j \in T : f[i] = f[j] => i = j
    OBVIOUS
  <2>3. \A k \in S : \E i \in T : f[i] = k
    <3> SUFFICES ASSUME NEW k \in S PROVE k - 1 \in T /\ f[k - 1] = k
      OBVIOUS
    <3> QED
      BY <1>1, <1>3
  <2> QED
    BY <2>1, <2>2, <2>3 DEF Bijection, Injection, Surjection, IsInjective
<1>6. IsFiniteSet(S) /\ Cardinality(S) = Cardinality(T) /\ Cardinality(T) \in Nat
  BY <1>4, <1>5, FS_Bijection, FS_CardinalityType DEF ExistsBijection
<1>7. U = IF s[1] = p THEN S \cup {1} ELSE S
  <2>1. \A i : i \in 1 .. n <=> i \in 2 .. n \/ i = 1
    BY <1>1
  <2> QED
    BY <2>1
<1>8. Cardinality(S \cup {1}) = Cardinality(S) + 1
  <2>1. 1 \notin S
    OBVIOUS
  <2> HIDE DEF S
  <2> QED
    BY <1>6, <2>1, FS_AddElement
<1>9. Cardinality(U) = Cardinality(T) + Is(p, s[1])
  <2> HIDE DEF S, T, U
  <2>1. CASE s[1] = p
    BY <1>6, <1>7, <1>8, <2>1 DEF Is
  <2>2. CASE s[1] # p
    <3>1. U = S /\ Is(p, s[1]) = 0
      BY <1>7, <2>2 DEF Is
    <3> QED
      BY <1>6, <3>1
  <2> QED
    BY <2>1, <2>2
<1>10. Times(p, s) = Times(p, t) + Is(p, s[1])
  <2>1. Times(p, s) = Cardinality(U)
    BY <1>1 DEF Times
  <2>2. Times(p, t) = Cardinality(T)
    BY <1>3 DEF Times
  <2> QED
    BY <1>9, <2>1, <2>2
<1> QED
  BY <1>2, <1>3, <1>10

\* The zero page is not one of the user's.
LEMMA ZeroOutside ==
  ASSUME req \in Requests
  PROVE  ZERO_PAGE \notin UserPages
<1>1. req.segs \in Seq([first : Nat, len : Nat])
  BY DirectIOAssumption DEF Request
<1>2. \A g \in DOMAIN req.segs : g # 0
  BY <1>1
<1> QED
  BY <1>2 DEF UserPages, ZERO_PAGE

\* One place of a function that counts moves.
LEMMA CountMoves ==
  ASSUME NEW S, NEW f \in [S -> Int], NEW q
  PROVE  /\ [f EXCEPT ![q] = @ + 1] \in [S -> Int] /\ [f EXCEPT ![q] = @ - 1] \in [S -> Int]
         /\ \A p \in S : /\ [f EXCEPT ![q] = @ + 1][p] = f[p] + Is(p, q)
                        /\ [f EXCEPT ![q] = @ - 1][p] = f[p] - Is(p, q)
<1> DEFINE g == [f EXCEPT ![q] = @ + 1]
           h == [f EXCEPT ![q] = @ - 1]
<1>1. DOMAIN g = S /\ DOMAIN h = S
  OBVIOUS
<1>2. ASSUME NEW p \in S
      PROVE  g[p] = (IF p = q THEN f[p] + 1 ELSE f[p]) /\ h[p] = IF p = q THEN f[p] - 1 ELSE f[p]
  OBVIOUS
<1>3. ASSUME NEW p \in S
      PROVE  g[p] = f[p] + Is(p, q) /\ g[p] \in Int /\ h[p] = f[p] - Is(p, q) /\ h[p] \in Int
  <2>1. CASE p = q
    BY <1>2, <2>1 DEF Is
  <2>2. CASE p # q
    <3>1. g[p] = f[p] /\ h[p] = f[p]
      BY <1>2, <2>2
    <3> QED
      BY <2>2, <3>1 DEF Is
  <2> QED
    BY <2>1, <2>2
<1>4. g \in [S -> Int] /\ h \in [S -> Int]
  BY <1>1, <1>3
<1> QED
  BY <1>3, <1>4

\* What the operations on references do to the count of a page of the user.
LEMMA RefCounts ==
  ASSUME req \in Requests, NEW m, "refs" \in DOMAIN m, m.refs \in [UserPages -> Int]
  PROVE  /\ \A q : LET g == page_cache_get(m, q).refs
                       r == page_cache_release(m, q).refs
                   IN  /\ g \in [UserPages -> Int] /\ \A p \in UserPages : g[p] = m.refs[p] + Is(p, q)
                       /\ r \in [UserPages -> Int] /\ \A p \in UserPages : r[p] = m.refs[p] - Is(p, q)
         /\ \A cs : \A I \in SUBSET DOMAIN cs : Listed(cs) =>
              LET r == put_pages(m, cs, I).refs
              IN  r \in [UserPages -> Int] /\ \A p \in UserPages : r[p] = m.refs[p] - Uses(p, cs, I)
         /\ \A d : Listed(d.pages) =>
              LET r == dio_cleanup(m, d).refs
              IN  r \in [UserPages -> Int] /\ \A p \in UserPages : r[p] = m.refs[p] - Times(p, d.pages)
<1>1. ASSUME NEW q
      PROVE  LET g == page_cache_get(m, q).refs
                 r == page_cache_release(m, q).refs
             IN  /\ g \in [UserPages -> Int] /\ \A p \in UserPages : g[p] = m.refs[p] + Is(p, q)
                 /\ r \in [UserPages -> Int] /\ \A p \in UserPages : r[p] = m.refs[p] - Is(p, q)
  <2>1. CASE q = ZERO_PAGE
    BY <2>1, ZeroOutside DEF page_cache_get, page_cache_release, Is
  <2>2. CASE q # ZERO_PAGE
    <3>1. /\ page_cache_get(m, q).refs = [m.refs EXCEPT ![q] = @ + 1]
          /\ page_cache_release(m, q).refs = [m.refs EXCEPT ![q] = @ - 1]
      BY <2>2 DEF page_cache_get, page_cache_release
    <3>2. PICK R : R = m.refs /\ R \in [UserPages -> Int]
      OBVIOUS
    <3> QED
      BY <3>1, <3>2, CountMoves
  <2> QED
    BY <2>1, <2>2
<1>2. ASSUME NEW cs, NEW I \in SUBSET DOMAIN cs, Listed(cs)
      PROVE  LET r == put_pages(m, cs, I).refs
             IN  r \in [UserPages -> Int] /\ \A p \in UserPages : r[p] = m.refs[p] - Uses(p, cs, I)
  <2>1. put_pages(m, cs, I).refs = [p \in UserPages |-> m.refs[p] - Uses(p, cs, I)]
    BY DEF put_pages
  <2>2. \A p : Uses(p, cs, I) \in Int
    BY <1>2, CountTypes
  <2> QED
    BY <2>1, <2>2
<1>3. ASSUME NEW d, Listed(d.pages)
      PROVE  LET r == dio_cleanup(m, d).refs
             IN  r \in [UserPages -> Int] /\ \A p \in UserPages : r[p] = m.refs[p] - Times(p, d.pages)
  <2>1. dio_cleanup(m, d).refs = [p \in UserPages |-> m.refs[p] - Times(p, d.pages)]
    BY DEF dio_cleanup
  <2>2. \A p : Times(p, d.pages) \in Int
    BY <1>3, CountTypes
  <2> QED
    BY <2>1, <2>2
<1> QED
  BY <1>1, <1>2, <1>3

LEMMA HeldTypes ==
  ASSUME NEW d, DioShape(d), NEW p
  PROVE  /\ Queue(p, d) \in Nat /\ InBio(p, d) \in Nat /\ OnCur(p, d) \in Nat
         /\ \A l : OnPage(p, l, d) \in Nat /\ Total(p, l, d) \in Nat
<1>1. Queue(p, d) \in Nat
  BY CountTypes DEF DioShape, Queue
<1>2. InBio(p, d) \in Nat
  BY CountTypes DEF DioShape, InBio
<1>3. OnCur(p, d) \in Nat /\ \A l : OnPage(p, l, d) \in Nat
  BY DEF OnCur, OnPage, Is
<1> QED
  BY <1>1, <1>2, <1>3 DEF Total

\* A step of the worker that leaves the bios alone: what it adds to the counts, or takes, is
\* what it holds more, or less, itself.
Settled ==
  /\ mem'.refs \in [UserPages -> Int] /\ "kept" \in DOMAIN hist' /\ hist'.kept \in [UserPages -> Int]
  /\ DioShape(dio') /\ Present(pc', dio')
  /\ \A p \in UserPages :
       (mem'.refs[p] - mem.refs[p]) - (hist'.kept[p] - hist.kept[p])
         = Total(p, pc', dio') - Total(p, pc, dio)

LEMMA SettledKeeps ==
  ASSUME RefInv, Working, Working', UNCHANGED <<req, bios>>, Settled
  PROVE  RefInv'
<1>1. pc # "BUG"
  BY DEF Working, Cutting, Sending
<1>2. UserPages' = UserPages /\ \A p : InBios(p)' = InBios(p)
  BY DEF UserPages, InBios
<1>3. BiosListed'
  BY <1>1 DEF RefInv, RefTypes, BiosListed
<1>4. PICK d, l : d = dio' /\ l = pc'
  OBVIOUS
<1>5. DioShape(d) /\ Present(l, d)
  BY <1>4 DEF Settled
<1>6. (DioShape(dio) /\ Present(pc, dio))' /\ \A p : Total(p, pc, dio)' = Total(p, l, d)
  BY <1>4, <1>5 DEF DioShape, Listed, OneChunk, Present, AtPage, Total, Queue, InBio, OnCur, OnPage,
     Times, Uses, Is
<1>7. ASSUME NEW p \in UserPages PROVE Balanced(p)'
  <2>1. /\ IsFiniteSet(InBios(p)) /\ Cardinality(InBios(p)) \in Nat
        /\ mem.refs[p] = hist.kept[p] + Cardinality(InBios(p)) + Total(p, pc, dio)
        /\ mem.refs[p] \in Int /\ hist.kept[p] \in Int
    BY <1>1, FS_CardinalityType DEF RefInv, Balanced, Held, RefTypes
  <2>2. Total(p, pc, dio) \in Int /\ Total(p, l, d) \in Int
    <3>1. DioShape(dio)
      BY <1>1 DEF RefInv
    <3>2. Total(p, pc, dio) \in Nat /\ Total(p, l, d) \in Nat
      BY <1>5, <3>1, HeldTypes
    <3> QED
      BY <3>2
  <2>3. /\ mem'.refs[p] \in Int /\ hist'.kept[p] \in Int
        /\ (mem'.refs[p] - mem.refs[p]) - (hist'.kept[p] - hist.kept[p])
             = Total(p, l, d) - Total(p, pc, dio)
    BY <1>4 DEF Settled
  <2>4. mem'.refs[p] = hist'.kept[p] + Cardinality(InBios(p)) + Total(p, l, d)
    BY <2>1, <2>2, <2>3
  <2> QED
    BY <1>2, <1>6, <2>1, <2>4 DEF Balanced, Held
<1> QED
  BY <1>2, <1>3, <1>6, <1>7 DEF RefInv, RefTypes, Settled

\* The worker's pages are as they were, but for the length of the deferred chunk.
Carried(d, e) ==
  /\ PageFields \subseteq DOMAIN e /\ e.pages = d.pages /\ e.bio = d.bio
  /\ OneChunk(e.cur) /\ (e.cur = NONE <=> d.cur = NONE)
  /\ d.cur # NONE => e.cur[1].page = d.cur[1].page
  /\ OneChunk(e.arg)
  /\ e.seg \in 0 .. Len(req.segs) /\ e.curr_page \in Nat

LEMMA CarriedCounts ==
  ASSUME NEW d, NEW e, DioShape(d), Carried(d, e)
  PROVE  /\ DioShape(e)
         /\ \A p : Queue(p, e) = Queue(p, d) /\ InBio(p, e) = InBio(p, d) /\ OnCur(p, e) = OnCur(p, d)
<1>1. DioShape(e)
  BY DEF DioShape, Carried
<1> QED
  BY <1>1 DEF Carried, Queue, InBio, OnCur

\* What is known wherever the worker is.
LEMMA AtWork ==
  ASSUME Inv, RefInv, Working
  PROVE  /\ pc # "BUG" /\ Placed /\ req \in Requests
         /\ DioShape(dio) /\ Present(pc, dio) /\ RefTypes
<1>1. pc \notin {"BUG", "start", "done"}
  BY DEF Working, Cutting, Sending
<1> QED
  BY <1>1 DEF Inv, Running, RefInv

LEMMA BugRefs == pc' = "BUG" => RefInv'
BY DEF RefInv

\* A step that takes and drops no reference.
LEMMA QuietRefs ==
  ASSUME RefInv, Working, Working', UNCHANGED <<req, bios>>, mem'.refs = mem.refs,
         "kept" \in DOMAIN hist', hist'.kept = hist.kept,
         Carried(dio, dio'), Present(pc', dio'), AtPage(pc', dio') <=> AtPage(pc, dio),
         AtPage(pc, dio) => dio'.page = dio.page
  PROVE  RefInv'
<1>1. pc # "BUG" /\ DioShape(dio) /\ RefTypes
  BY DEF Working, Cutting, Sending, RefInv
<1>2. /\ DioShape(dio')
      /\ \A p : /\ Queue(p, dio') = Queue(p, dio) /\ InBio(p, dio') = InBio(p, dio)
                /\ OnCur(p, dio') = OnCur(p, dio)
  BY <1>1, CarriedCounts
<1>3. \A p : OnPage(p, pc', dio') = OnPage(p, pc, dio)
  BY DEF OnPage
<1>4. \A p : Total(p, pc', dio') = Total(p, pc, dio)
  BY <1>2, <1>3 DEF Total
<1>5. ASSUME NEW p \in UserPages
      PROVE  (mem'.refs[p] - mem.refs[p]) - (hist'.kept[p] - hist.kept[p])
               = Total(p, pc', dio') - Total(p, pc, dio)
  <2>1. Total(p, pc, dio) \in Nat /\ mem.refs[p] \in Int /\ hist.kept[p] \in Int
    BY <1>1, HeldTypes DEF RefTypes
  <2> QED
    BY <1>4, <2>1
<1>6. Settled
  BY <1>1, <1>2, <1>5 DEF Settled, RefTypes
<1> QED
  BY <1>6, SettledKeeps

LEMMA SegmentRefs ==
  ASSUME Inv, RefInv, next_segment
  PROVE  RefInv'
<1> USE DEF Working, Cutting, Sending
<1>1. Working /\ Working' /\ UNCHANGED <<req, bios, mem, hist>> /\ pc = "segment" /\ pc' \in {"page", "tail"}
  BY DEF next_segment, Goto
<1>2. DioShape(dio) /\ Present(pc, dio) /\ RefTypes
  BY <1>1, AtWork
<1>3. dio.pages = <<>>
  BY <1>1, <1>2 DEF Present, AtPage
<1>4. Carried(dio, dio') /\ (pc' = "page" => dio'.seg # 0)
  <2>1. Len(req.segs) \in Nat
    BY AtWork, <1>1, DirectIOAssumption DEF Request
  <2>2. PICK n \in Nat : n = dio.seg /\ n <= Len(req.segs)
    BY <1>2, <2>1 DEF DioShape
  <2>3. /\ PageFields \subseteq DOMAIN dio' /\ dio'.bio = dio.bio /\ dio'.cur = dio.cur
        /\ dio'.arg = dio.arg /\ dio'.pages = <<>>
        /\ \/ dio'.seg = n + 1 /\ n < Len(req.segs) /\ dio'.curr_page = 0
           \/ dio'.seg = n /\ pc' = "tail" /\ dio'.curr_page = dio.curr_page
    BY <1>2, <1>3, <2>2 DEF next_segment, Goto, DioShape, PageFields
  <2>4. dio'.seg \in 0 .. Len(req.segs) /\ dio'.curr_page \in Nat /\ (pc' = "page" => dio'.seg # 0)
    BY <1>1, <1>2, <2>1, <2>2, <2>3 DEF DioShape
  <2> QED
    BY <1>2, <1>3, <2>3, <2>4 DEF DioShape, Carried
<1>5. Present(pc', dio')
  BY <1>1, <1>3, <1>4 DEF Present, Carried, AtPage
<1>6. ~AtPage(pc, dio) /\ ~AtPage(pc', dio')
  BY <1>1 DEF AtPage
<1> QED
  BY <1>1, <1>2, <1>4, <1>5, <1>6, QuietRefs DEF RefTypes

LEMMA SectionCarries ==
  ASSUME NEW d, NEW e, NEW p, NEW o, NEW n, NEW b, NEW l, DioShape(d), Carried(d, e)
  PROVE  LET s == Section(e, p, o, n, b, l)
         IN  /\ Carried(d, s) /\ s.seg = e.seg
             /\ s.page = e.page /\ s.after = e.after /\ s.back = l /\ s.arg # NONE
BY DEF Section, DioShape, PageFields, Carried, OneChunk, ChunkFields, NONE

LEMMA ZeroRefs ==
  ASSUME Inv, RefInv, zero_start
  PROVE  RefInv'
<1> USE DEF Working, Cutting, Sending
<1>1. /\ Working /\ Working' /\ UNCHANGED <<req, bios, mem, hist>>
      /\ pc = "zero" /\ pc' \in {"section", "data"}
  BY DEF zero_start, Goto
<1>2. Placed /\ DioShape(dio) /\ Present(pc, dio) /\ RefTypes
  BY <1>1, AtWork
<1>3. /\ Carried(dio, dio') /\ dio'.page = dio.page /\ dio'.after = dio.after /\ dio'.seg = dio.seg
      /\ pc' = "section" => dio'.back = "zeroed" /\ dio'.arg # NONE
  <2>1. PICK d : d = [dio EXCEPT !.zero_done = TRUE]
    OBVIOUS
  <2>2. Carried(dio, dio) /\ Carried(dio, d) /\ d.page = dio.page /\ d.after = dio.after /\ d.seg = dio.seg
    BY <1>2, <2>1 DEF DioShape, PageFields, Carried
  <2>3. CASE pc' = "section"
    <3>1. \E n : dio' = Section(d, ZERO_PAGE, 0, n, dio.next_block, "zeroed")
      BY <2>1, <2>3 DEF zero_start, Goto
    <3> QED
      BY <1>2, <2>2, <3>1, SectionCarries
  <2>4. CASE pc' = "data"
    BY <2>1, <2>2, <2>4 DEF zero_start, Goto
  <2> QED
    BY <1>1, <2>3, <2>4
<1>4. dio.after # "last"
  BY <1>1, <1>2 DEF Placed
<1>5. AtPage(pc, dio) /\ AtPage(pc', dio')
  BY <1>1, <1>3, <1>4 DEF AtPage
<1>6. Present(pc', dio')
  BY <1>1, <1>2, <1>3, <1>5 DEF Present
<1> QED
  BY <1>1, <1>2, <1>3, <1>5, <1>6, QuietRefs DEF RefTypes

LEMMA DataRefs ==
  ASSUME Inv, RefInv, queue_chunk
  PROVE  RefInv'
<1> USE DEF Working, Cutting, Sending
<1>1. /\ Working /\ UNCHANGED <<req, bios, mem, hist>>
      /\ pc = "data" /\ pc' \in {"section", "BUG"}
  BY DEF queue_chunk, Goto
<1>2. Placed /\ DioShape(dio) /\ Present(pc, dio) /\ RefTypes
  BY <1>1, AtWork
<1>3. /\ Carried(dio, dio') /\ dio'.page = dio.page /\ dio'.after = dio.after /\ dio'.seg = dio.seg
      /\ dio'.back = "queued" /\ dio'.arg # NONE
  <2>1. PICK d : d = [dio EXCEPT !.boundary = dio.bh.boundary]
    OBVIOUS
  <2>2. Carried(dio, d) /\ d.page = dio.page /\ d.after = dio.after /\ d.seg = dio.seg
    BY <1>2, <2>1 DEF DioShape, PageFields, Carried
  <2>3. dio' = Section(d, dio.page, dio.at, chunk_blocks(dio), dio.next_block, "queued")
    BY <2>1 DEF queue_chunk
  <2> QED
    BY <1>2, <2>2, <2>3, SectionCarries
<1>4. dio.after # "last"
  BY <1>1, <1>2 DEF Placed
<1>5. CASE pc' = "section"
  <2>1. AtPage(pc, dio) /\ AtPage(pc', dio')
    BY <1>1, <1>3, <1>4, <1>5 DEF AtPage
  <2>2. Present(pc', dio')
    BY <1>2, <1>3, <1>5, <2>1 DEF Present
  <2> QED
    BY <1>1, <1>2, <1>3, <1>5, <2>1, <2>2, QuietRefs DEF RefTypes
<1> QED
  BY <1>1, <1>5, BugRefs

LEMMA PadRefs ==
  ASSUME Inv, RefInv, pad_end
  PROVE  RefInv'
<1> USE DEF Working, Cutting, Sending
<1>1. /\ Working /\ Working' /\ UNCHANGED <<req, bios, mem, hist>>
      /\ pc = "tail" /\ pc' \in {"section", "last"}
  BY DEF pad_end, Goto
<1>2. DioShape(dio) /\ Present(pc, dio) /\ RefTypes
  BY <1>1, AtWork
<1>3. dio.pages = <<>>
  BY <1>1, <1>2 DEF Present, AtPage
<1>4. /\ Carried(dio, dio')
      /\ pc' = "section" => dio'.back = "padded" /\ dio'.arg # NONE
  <2>1. PICK d : d = [dio EXCEPT !.zero_done = TRUE]
    OBVIOUS
  <2>2. Carried(dio, d)
    BY <1>2, <2>1 DEF DioShape, PageFields, Carried
  <2>3. CASE pc' = "section"
    <3>1. \E n : dio' = Section(d, ZERO_PAGE, 0, n, dio.next_block, "padded")
      BY <2>1, <2>3 DEF pad_end, Goto
    <3> QED
      BY <1>2, <2>2, <3>1, SectionCarries
  <2>4. CASE pc' = "last"
    BY <2>1, <2>2, <2>4 DEF pad_end, Goto
  <2> QED
    BY <1>1, <2>3, <2>4
<1>5. ~AtPage(pc, dio) /\ ~AtPage(pc', dio')
  BY <1>1, <1>4 DEF AtPage
<1>6. Present(pc', dio')
  BY <1>1, <1>3, <1>4, <1>5 DEF Present, Carried
<1> QED
  BY <1>1, <1>2, <1>4, <1>5, <1>6, QuietRefs DEF RefTypes

LEMMA LastRefs ==
  ASSUME Inv, RefInv, send_last
  PROVE  RefInv'
<1> USE DEF Working, Cutting, Sending
<1>1. /\ Working /\ Working' /\ UNCHANGED <<req, bios, mem, hist>>
      /\ pc = "last" /\ pc' \in {"send", "flush"}
  BY DEF send_last, Goto
<1>2. DioShape(dio) /\ Present(pc, dio) /\ RefTypes
  BY <1>1, AtWork
<1>3. dio.pages = <<>>
  BY <1>1, <1>2 DEF Present, AtPage
<1>4. /\ Carried(dio, dio')
      /\ pc' = "send" => dio'.after = "last" /\ dio'.cur # NONE
      /\ pc' = "flush" => dio'.cur = NONE
  BY <1>2 DEF send_last, Goto, DioShape, PageFields, Carried
<1>5. ~AtPage(pc, dio) /\ ~AtPage(pc', dio')
  BY <1>1, <1>4 DEF AtPage
<1>6. Present(pc', dio')
  BY <1>1, <1>3, <1>4, <1>5 DEF Present, Carried
<1> QED
  BY <1>1, <1>2, <1>4, <1>5, <1>6, QuietRefs DEF RefTypes

\* do_direct_IO is left: the queued pages are released, or kept for good.
LEMMA LeaveRefs ==
  ASSUME Inv, RefInv, Working, NEW d, NEW m, NEW e, Leave(d, m, hist, e), UNCHANGED <<req, bios>>,
         Carried(dio, d), "refs" \in DOMAIN m, m.refs \in [UserPages -> Int],
         \A p \in UserPages : m.refs[p] = mem.refs[p] - OnPage(p, pc, dio)
  PROVE  RefInv'
<1>1. DioShape(dio) /\ Present(pc, dio) /\ RefTypes /\ req \in Requests
  BY AtWork
<1>2. /\ DioShape(d)
      /\ \A p : Queue(p, d) = Queue(p, dio) /\ InBio(p, d) = InBio(p, dio) /\ OnCur(p, d) = OnCur(p, dio)
  BY <1>1, CarriedCounts
<1>3. pc' \in {"segment", "tail"} /\ Working' /\ ~AtPage(pc', dio')
  BY DEF Leave, Goto, Working, Cutting, Sending, AtPage
<1>4. /\ DioShape(dio') /\ dio'.pages = <<>> /\ dio'.bio = d.bio /\ dio'.cur = d.cur
  BY <1>2, EmptyCounts DEF Leave, DioShape, PageFields
<1>5. Present(pc', dio')
  BY <1>3, <1>4 DEF Present, Sending
<1>6. \A p : Total(p, pc', dio') = 0 + InBio(p, dio) + OnCur(p, dio) + 0
  BY <1>2, <1>3, <1>4, EmptyCounts DEF Total, Queue, InBio, OnCur, OnPage
<1>7. /\ mem'.refs \in [UserPages -> Int] /\ "kept" \in DOMAIN hist' /\ hist'.kept \in [UserPages -> Int]
      /\ \A p \in UserPages :
           \/ mem'.refs[p] = m.refs[p] /\ hist'.kept[p] = hist.kept[p] + Queue(p, d)
           \/ mem'.refs[p] = m.refs[p] - Queue(p, d) /\ hist'.kept[p] = hist.kept[p]
  <2>1. \A p : Times(p, d.pages) \in Nat /\ Queue(p, d) = Times(p, d.pages)
    BY <1>2, CountTypes DEF DioShape, Queue
  <2>2. CASE e = 0
    <3>1. mem' = m /\ hist' = [hist EXCEPT !.kept = [p \in UserPages |-> @[p] + Times(p, d.pages)]]
      BY <2>2 DEF Leave
    <3>2. "kept" \in DOMAIN hist' /\ hist'.kept = [p \in UserPages |-> hist.kept[p] + Times(p, d.pages)]
      BY <1>1, <3>1 DEF RefTypes
    <3>3. hist.kept \in [UserPages -> Int]
      BY <1>1 DEF RefTypes
    <3> QED
      BY <2>1, <3>1, <3>2, <3>3
  <2>3. CASE e # 0
    <3>1. mem' = dio_cleanup(m, d) /\ hist' = hist
      BY <2>3 DEF Leave
    <3>2. /\ mem'.refs \in [UserPages -> Int]
          /\ \A p \in UserPages : mem'.refs[p] = m.refs[p] - Times(p, d.pages)
      BY <1>1, <1>2, <3>1, RefCounts DEF DioShape
    <3> QED
      BY <1>1, <2>1, <3>1, <3>2 DEF RefTypes
  <2> QED
    BY <2>2, <2>3
<1>8. ASSUME NEW p \in UserPages
      PROVE  (mem'.refs[p] - mem.refs[p]) - (hist'.kept[p] - hist.kept[p])
               = Total(p, pc', dio') - Total(p, pc, dio)
  <2>1. /\ mem.refs[p] \in Int /\ hist.kept[p] \in Int /\ m.refs[p] = mem.refs[p] - OnPage(p, pc, dio)
        /\ Queue(p, dio) \in Nat /\ InBio(p, dio) \in Nat /\ OnCur(p, dio) \in Nat
        /\ OnPage(p, pc, dio) \in Nat
    BY <1>1, HeldTypes DEF RefTypes
  <2>2. Total(p, pc, dio) = Queue(p, dio) + InBio(p, dio) + OnCur(p, dio) + OnPage(p, pc, dio)
    BY DEF Total
  <2> QED
    BY <1>2, <1>6, <1>7, <2>1, <2>2
<1>9. Settled
  BY <1>4, <1>5, <1>7, <1>8 DEF Settled
<1> QED
  BY <1>3, <1>9, SettledKeeps

\* The position moves on: at the end of the page its reference is dropped.
LEMMA AdvanceRefs ==
  ASSUME Inv, RefInv, FreshInv, pc \in {"chunk", "queued"}, NEW d, NEW n, Advance(d, n),
         UNCHANGED <<req, bios>>, "kept" \in DOMAIN hist', hist'.kept = hist.kept,
         Carried(dio, d), d.page = dio.page, d.seg = dio.seg
  PROVE  RefInv'
<1>1. Working /\ AtPage(pc, dio)
  BY DEF Working, Cutting, AtPage
<1>2. DioShape(dio) /\ Present(pc, dio) /\ RefTypes /\ req \in Requests
  BY <1>1, AtWork
<1>3. PICK e : e = [d EXCEPT !.block_in_file = @ + n, !.at = @ + n]
  OBVIOUS
<1>4. /\ Carried(dio, dio') /\ dio'.page = dio.page /\ dio'.seg = dio.seg
      /\ \/ pc' = "BUG"
         \/ pc' = "chunk" /\ mem' = mem
         \/ pc' = "page" /\ mem' = page_cache_release(mem, dio.page)
  <2>1. Carried(dio, e) /\ e.page = dio.page /\ e.seg = dio.seg
    BY <1>3 DEF Carried, PageFields
  <2>2. /\ Carried(dio, [e EXCEPT !.at = 0])
        /\ [e EXCEPT !.at = 0].page = dio.page /\ [e EXCEPT !.at = 0].seg = dio.seg
    BY <2>1 DEF Carried, PageFields
  <2>3. dio' \in {e, [e EXCEPT !.at = 0]}
    BY <1>3 DEF Advance
  <2>4. \/ pc' = "BUG"
        \/ pc' = "chunk" /\ mem' = mem
        \/ pc' = "page" /\ mem' = page_cache_release(mem, dio.page)
    BY <1>3 DEF Advance, Goto
  <2> QED
    BY <2>1, <2>2, <2>3, <2>4
<1>5. CASE pc' = "BUG"
  BY <1>5, BugRefs
<1>6. CASE pc' = "chunk" /\ mem' = mem
  <2>1. Working' /\ AtPage(pc', dio') /\ Present(pc', dio')
    BY <1>1, <1>2, <1>4, <1>6 DEF Working, Cutting, Sending, AtPage, Present
  <2> QED
    BY <1>1, <1>4, <1>6, <2>1, QuietRefs
<1>7. CASE pc' = "page" /\ mem' = page_cache_release(mem, dio.page)
  <2>1. Working' /\ ~AtPage(pc', dio') /\ Present(pc', dio')
    BY <1>1, <1>2, <1>4, <1>7 DEF Working, Cutting, Sending, AtPage, Present
  <2>2. "refs" \in DOMAIN mem
    BY DEF FreshInv, MemFields
  <2>3. /\ mem'.refs \in [UserPages -> Int]
        /\ \A p \in UserPages : mem'.refs[p] = mem.refs[p] - Is(p, dio.page)
    BY <1>2, <1>7, <2>2, RefCounts DEF RefTypes
  <2>4. /\ DioShape(dio')
        /\ \A p : /\ Queue(p, dio') = Queue(p, dio) /\ InBio(p, dio') = InBio(p, dio)
                  /\ OnCur(p, dio') = OnCur(p, dio)
    BY <1>2, <1>4, CarriedCounts
  <2>5. \A p : OnPage(p, pc', dio') = 0 /\ OnPage(p, pc, dio) = Is(p, dio.page)
    BY <1>1, <2>1 DEF OnPage
  <2>6. ASSUME NEW p \in UserPages
        PROVE  (mem'.refs[p] - mem.refs[p]) - (hist'.kept[p] - hist.kept[p])
                 = Total(p, pc', dio') - Total(p, pc, dio)
    <3>1. /\ mem.refs[p] \in Int /\ hist.kept[p] \in Int
          /\ Queue(p, dio) \in Nat /\ InBio(p, dio) \in Nat /\ OnCur(p, dio) \in Nat
          /\ OnPage(p, pc, dio) \in Nat
      BY <1>2, HeldTypes DEF RefTypes
    <3>2. /\ Total(p, pc, dio) = Queue(p, dio) + InBio(p, dio) + OnCur(p, dio) + Is(p, dio.page)
          /\ Total(p, pc', dio') = Queue(p, dio) + InBio(p, dio) + OnCur(p, dio) + 0
      BY <2>4, <2>5 DEF Total
    <3> QED
      BY <2>3, <2>5, <3>1, <3>2
  <2>7. Settled
    BY <1>2, <2>1, <2>3, <2>4, <2>6 DEF Settled, RefTypes
  <2> QED
    BY <1>1, <2>1, <2>7, SettledKeeps
<1> QED
  BY <1>4, <1>5, <1>6, <1>7

\* The reference on the page at hand, dropped.
LEMMA PageDropped ==
  ASSUME Inv, RefInv, FreshInv, Working, AtPage(pc, dio), NEW m, m = page_cache_release(mem, dio.page)
  PROVE  /\ "refs" \in DOMAIN m /\ m.refs \in [UserPages -> Int]
         /\ \A p \in UserPages : m.refs[p] = mem.refs[p] - OnPage(p, pc, dio)
<1>1. RefTypes /\ req \in Requests /\ "refs" \in DOMAIN mem
  BY AtWork DEF FreshInv, MemFields
<1>2. "refs" \in DOMAIN m
  BY <1>1, RefsOnly DEF FreshInv, MemFields
<1>3. m.refs \in [UserPages -> Int] /\ \A p \in UserPages : m.refs[p] = mem.refs[p] - Is(p, dio.page)
  BY <1>1, RefCounts DEF RefTypes
<1> QED
  BY <1>2, <1>3 DEF OnPage

LEMMA EndRefs ==
  ASSUME Inv, RefInv, FreshInv, end_segment
  PROVE  RefInv'
<1>1. /\ Working /\ UNCHANGED <<req, bios>> /\ ~AtPage(pc, dio) /\ Leave(dio, mem, hist, 0)
  BY DEF end_segment, Working, Cutting, Sending, AtPage
<1>2. DioShape(dio) /\ RefTypes
  BY <1>1, AtWork
<1>3. Carried(dio, dio)
  BY <1>2 DEF DioShape, Carried
<1>4. "refs" \in DOMAIN mem /\ \A p \in UserPages : mem.refs[p] = mem.refs[p] - OnPage(p, pc, dio)
  BY <1>1, <1>2 DEF FreshInv, MemFields, OnPage, RefTypes
<1> QED
  BY <1>1, <1>2, <1>3, <1>4, LeaveRefs DEF RefTypes

LEMMA SectionDoneRefs ==
  ASSUME Inv, RefInv, FreshInv, section_done
  PROVE  RefInv'
<1>1. /\ Working /\ UNCHANGED <<req, bios>> /\ pc \in {"zeroed", "queued", "padded"}
  BY DEF section_done, Working, Cutting
<1>2. Placed /\ DioShape(dio) /\ Present(pc, dio) /\ RefTypes
  BY <1>1, AtWork
<1>3. Carried(dio, dio) /\ Carried(dio, Queued(dio)) /\ Queued(dio).seg = dio.seg /\ Queued(dio).page = dio.page
  BY <1>2 DEF DioShape, Carried, Queued, PageFields
<1>4. CASE pc # "queued"
  <2>1. /\ UNCHANGED <<mem, hist>> /\ dio' \in {dio, Queued(dio)}
        /\ pc' = IF pc = "zeroed" THEN "data" ELSE "last"
    BY <1>4 DEF section_done, Goto
  <2>2. Carried(dio, dio') /\ dio'.page = dio.page /\ dio'.seg = dio.seg
    BY <1>3, <2>1
  <2>3. Working' /\ (AtPage(pc', dio') <=> AtPage(pc, dio))
    BY <1>1, <1>4, <2>1 DEF Working, Cutting, Sending, AtPage
  <2>4. Present(pc', dio')
    BY <1>1, <1>2, <1>4, <2>1, <2>2, <2>3 DEF Present, Sending, Carried
  <2> QED
    BY <1>1, <1>2, <2>1, <2>2, <2>3, <2>4, QuietRefs DEF RefTypes
<1>5. CASE pc = "queued" /\ dio.ret2 # 0
  <2>1. PICK m : m = page_cache_release(mem, dio.page)
    OBVIOUS
  <2>2. Leave(dio, m, hist, dio.ret2)
    BY <1>5, <2>1 DEF section_done
  <2>3. AtPage(pc, dio)
    BY <1>5 DEF AtPage
  <2>4. /\ "refs" \in DOMAIN m /\ m.refs \in [UserPages -> Int]
        /\ \A p \in UserPages : m.refs[p] = mem.refs[p] - OnPage(p, pc, dio)
    BY <1>1, <2>1, <2>3, PageDropped
  <2> QED
    BY <1>1, <1>3, <2>2, <2>4, LeaveRefs
<1>6. CASE pc = "queued" /\ dio.ret2 = 0
  <2>1. PICK d : d = [Queued(dio) EXCEPT !.blocks_available = @ - dio.arg[1].len]
    OBVIOUS
  <2>2. Carried(dio, d) /\ d.page = dio.page /\ d.seg = dio.seg
    BY <1>3, <2>1 DEF Carried, PageFields
  <2>3. Advance(d, dio.arg[1].len) /\ UNCHANGED hist
    BY <1>6, <2>1 DEF section_done
  <2> QED
    BY <1>1, <1>2, <1>6, <2>2, <2>3, AdvanceRefs DEF RefTypes
<1> QED
  BY <1>1, <1>4, <1>5, <1>6

LEMMA BlocksRefs ==
  ASSUME Inv, RefInv, FreshInv, get_more_blocks
  PROVE  RefInv'
<1>1. Working /\ UNCHANGED <<req, bios>> /\ pc = "chunk" /\ AtPage(pc, dio)
  BY DEF get_more_blocks, Working, Cutting, AtPage
<1>2. DioShape(dio) /\ Present(pc, dio) /\ RefTypes
  BY <1>1, AtWork
<1>3. PICK hole : hole = [dio EXCEPT !.bh = [mapped |-> FALSE, new |-> FALSE, boundary |-> FALSE]]
  OBVIOUS
<1>4. Carried(dio, dio) /\ Carried(dio, hole) /\ hole.page = dio.page /\ hole.seg = dio.seg
  BY <1>2, <1>3 DEF DioShape, Carried, PageFields
<1>5. PICK m : m = page_cache_release(mem, dio.page)
  OBVIOUS
<1>6. /\ "refs" \in DOMAIN m /\ m.refs \in [UserPages -> Int]
      /\ \A p \in UserPages : m.refs[p] = mem.refs[p] - OnPage(p, pc, dio)
  BY <1>1, <1>5, PageDropped
<1>7. \/ pc' = "zero" /\ mem' = mem
         /\ \/ dio' = dio /\ hist' = hist
            \/ \E bh, f : dio' = map_blocks(dio, bh) /\ hist' \in {hist, [hist EXCEPT !.fresh_blocks = f]}
      \/ \E e : Leave(dio, m, hist, e) \/ Leave(hole, m, hist, e)
      \/ \E n, f : Advance(hole, n) /\ hist' = [hist EXCEPT !.filled = f]
  BY <1>3, <1>5 DEF get_more_blocks, Goto
<1>8. CASE pc' = "zero" /\ mem' = mem
           /\ \/ dio' = dio /\ hist' = hist
              \/ \E bh, f : dio' = map_blocks(dio, bh) /\ hist' \in {hist, [hist EXCEPT !.fresh_blocks = f]}
  <2>1. Carried(dio, dio') /\ dio'.page = dio.page /\ dio'.seg = dio.seg
    <3>1. CASE dio' = dio
      BY <1>4, <3>1
    <3>2. CASE \E bh : dio' = map_blocks(dio, bh)
      BY <1>2, <3>2 DEF map_blocks, DioShape, Carried, PageFields
    <3> QED
      BY <1>8, <3>1, <3>2
  <2>2. "kept" \in DOMAIN hist' /\ hist'.kept = hist.kept
    BY <1>2, <1>8 DEF RefTypes
  <2>3. Working' /\ AtPage(pc', dio') /\ Present(pc', dio')
    BY <1>1, <1>2, <1>8, <2>1 DEF Working, Cutting, Sending, AtPage, Present
  <2> QED
    BY <1>1, <1>8, <2>1, <2>2, <2>3, QuietRefs
<1>9. CASE \E e : Leave(dio, m, hist, e) \/ Leave(hole, m, hist, e)
  BY <1>1, <1>4, <1>6, <1>9, LeaveRefs
<1>10. CASE \E n, f : Advance(hole, n) /\ hist' = [hist EXCEPT !.filled = f]
  <2>1. "kept" \in DOMAIN hist' /\ hist'.kept = hist.kept
    BY <1>2, <1>10 DEF RefTypes
  <2> QED
    BY <1>1, <1>4, <1>10, <2>1, AdvanceRefs
<1> QED
  BY <1>7, <1>8, <1>9, <1>10

\* The worker takes page h and queues the pages of rest.
LEMMA TakeRefs ==
  ASSUME Inv, RefInv, pc = "page", UNCHANGED <<req, bios, hist>>, pc' = "chunk",
         NEW h, NEW rest, Listed(rest),
         PageFields \subseteq DOMAIN dio', dio'.page = h, dio'.pages = rest,
         dio'.bio = dio.bio, dio'.cur = dio.cur, dio'.arg = dio.arg, dio'.seg = dio.seg,
         dio'.curr_page \in Nat, mem'.refs \in [UserPages -> Int],
         \A p \in UserPages : mem'.refs[p] = mem.refs[p] + ((Times(p, rest) + Is(p, h)) - Queue(p, dio))
  PROVE  RefInv'
<1>1. Working /\ Working' /\ ~AtPage(pc, dio) /\ AtPage(pc', dio')
  BY DEF Working, Cutting, Sending, AtPage
<1>2. DioShape(dio) /\ Present(pc, dio) /\ RefTypes
  BY <1>1, AtWork
<1>3. DioShape(dio') /\ Present(pc', dio')
  BY <1>1, <1>2 DEF DioShape, Present, Sending
<1>4. ASSUME NEW p \in UserPages
      PROVE  (mem'.refs[p] - mem.refs[p]) - (hist'.kept[p] - hist.kept[p])
               = Total(p, pc', dio') - Total(p, pc, dio)
  <2>1. /\ mem.refs[p] \in Int /\ hist.kept[p] \in Int /\ hist'.kept[p] = hist.kept[p]
        /\ Queue(p, dio) \in Nat /\ InBio(p, dio) \in Nat /\ OnCur(p, dio) \in Nat
    BY <1>2, HeldTypes DEF RefTypes
  <2>2. Total(p, pc, dio) = Queue(p, dio) + InBio(p, dio) + OnCur(p, dio) + 0
    BY <1>1 DEF Total, OnPage
  <2>3. Total(p, pc', dio') = Times(p, rest) + InBio(p, dio) + OnCur(p, dio) + Is(p, h)
    BY <1>1 DEF Total, OnPage, Queue, InBio, OnCur
  <2>4. Times(p, rest) \in Nat /\ Is(p, h) \in Nat
    BY CountTypes DEF Is
  <2>5. mem'.refs[p] = mem.refs[p] + ((Times(p, rest) + Is(p, h)) - Queue(p, dio))
    OBVIOUS
  <2> QED
    BY <2>1, <2>2, <2>3, <2>4, <2>5
<1>5. Settled
  BY <1>2, <1>3, <1>4 DEF Settled, RefTypes
<1> QED
  BY <1>1, <1>5, SettledKeeps

LEMMA ElementAt ==
  ASSUME NEW S, NEW s \in Seq(S), NEW i \in DOMAIN s
  PROVE  s[i] \in S
OBVIOUS

LEMMA PinnedListed ==
  ASSUME NEW r, NEW s, NEW from \in Nat, NEW n \in Int
  PROVE  Listed(get_user_pages(r, s, from, n))
<1> DEFINE bad(k) == r.bad # NONE /\ r.bad[1] = s /\ k >= r.bad[2]
           good == {k \in from .. from + n - 1 : \A j \in from .. k : ~bad(j)}
<1>1. PICK c \in Nat : c = Cardinality(good)
  <2>1. IsFiniteSet(from .. from + n - 1)
    BY FS_Interval
  <2>2. IsFiniteSet(good)
    BY <2>1, FS_Subset
  <2> HIDE DEF good
  <2> QED
    BY <2>2, FS_CardinalityType
<1>2. get_user_pages(r, s, from, n) \in {<<>>, [i \in 1 .. c |-> <<s, from + i - 1>>]}
  BY <1>1 DEF get_user_pages
<1> HIDE DEF good, bad
<1>3. PICK f : f = [i \in 1 .. c |-> <<s, from + i - 1>>]
  OBVIOUS
<1>4. f \in Seq({s} \X Int)
  BY <1>3
<1>5. Listed(f)
  BY <1>4, OwnElements DEF Listed
<1> QED
  BY <1>2, <1>3, <1>5, EmptyCounts

LEMMA PageRefs ==
  ASSUME Inv, RefInv, FreshInv, dio_get_page
  PROVE  RefInv'
<1>1. Working /\ UNCHANGED <<req, bios>> /\ pc = "page" /\ ~AtPage(pc, dio)
  BY DEF dio_get_page, Working, Cutting, Sending, AtPage
<1>2. DioShape(dio) /\ Present(pc, dio) /\ RefTypes /\ req \in Requests
  BY <1>1, AtWork
<1>3. PICK n : n = Min({nr_pages(req.segs[dio.seg]) - dio.curr_page, DIO_PAGES})
  OBVIOUS
<1>4. n \in Int
  <2>1. dio.seg \in DOMAIN req.segs /\ req.segs \in Seq([first : Nat, len : Nat])
    BY <1>1, <1>2, DirectIOAssumption DEF Request, DioShape, Present
  <2>2. PICK g : g = req.segs[dio.seg] /\ g.first \in Nat /\ g.len \in Nat
    <3>1. req.segs[dio.seg] \in [first : Nat, len : Nat]
      BY <2>1, ElementAt
    <3> QED
      BY <3>1
  <2>3. nr_pages(g) \in Int
    BY <2>2, DirectIOAssumption DEF nr_pages
  <2>4. PICK a \in Int : a = nr_pages(g) - dio.curr_page
    BY <1>2, <2>3 DEF DioShape
  <2>5. PICK b \in Int : b = DIO_PAGES
    BY DirectIOAssumption
  <2>6. \E x \in {a, b} : \A y \in {a, b} : x <= y
    OBVIOUS
  <2>7. Min({a, b}) \in {a, b}
    BY <2>6 DEF Min
  <2> QED
    BY <1>3, <2>2, <2>4, <2>5, <2>7
<1>5. PICK got : got = get_user_pages(req, dio.seg, dio.curr_page, n)
  OBVIOUS
<1>6. Listed(got)
  BY <1>2, <1>4, <1>5, PinnedListed DEF DioShape
<1>7. \/ /\ dio.pages # <<>> /\ dio' = [dio EXCEPT !.page = Head(dio.pages), !.pages = Tail(@)]
         /\ pc' = "chunk" /\ UNCHANGED <<mem, hist>>
      \/ /\ dio.pages = <<>> /\ got # <<>>
         /\ dio' = [dio EXCEPT !.curr_page = @ + Len(got), !.page = Head(got), !.pages = Tail(got)]
         /\ mem' = [mem EXCEPT !.refs = [p \in UserPages |-> @[p] + Times(p, got)]]
         /\ pc' = "chunk" /\ UNCHANGED hist
      \/ /\ dio.pages = <<>> /\ dio' = [dio EXCEPT !.page_errors = -EFAULT, !.page = ZERO_PAGE]
         /\ pc' \in {"BUG", "chunk"} /\ UNCHANGED <<mem, hist>>
      \/ pc' = "BUG"
      \/ Leave(dio, mem, hist, -EFAULT)
  BY <1>3, <1>5 DEF dio_get_page, Goto
<1>8. CASE /\ dio.pages # <<>> /\ dio' = [dio EXCEPT !.page = Head(dio.pages), !.pages = Tail(@)]
           /\ pc' = "chunk" /\ UNCHANGED <<mem, hist>>
  <2>1. PICK h, q : h = Head(dio.pages) /\ q = Tail(dio.pages)
    OBVIOUS
  <2>4. Listed(q) /\ \A p : Times(p, dio.pages) = Times(p, q) + Is(p, h)
    BY <1>2, <1>8, <2>1, HeadTimes DEF DioShape
  <2>2. /\ PageFields \subseteq DOMAIN dio' /\ dio'.page = h /\ dio'.pages = q
        /\ dio'.bio = dio.bio /\ dio'.cur = dio.cur /\ dio'.arg = dio.arg /\ dio'.seg = dio.seg
        /\ dio'.curr_page \in Nat
    BY <1>2, <1>8, <2>1 DEF DioShape, PageFields
  <2>3. ASSUME NEW p \in UserPages
        PROVE  mem'.refs[p] = mem.refs[p] + ((Times(p, q) + Is(p, h)) - Queue(p, dio))
    <3>1. Times(p, q) + Is(p, h) = Queue(p, dio) /\ Queue(p, dio) \in Nat /\ mem.refs[p] \in Int
      BY <1>2, <2>4, HeldTypes DEF Queue, RefTypes
    <3> QED
      BY <1>8, <3>1
  <2> QED
    BY <1>1, <1>2, <1>8, <2>2, <2>3, <2>4, TakeRefs DEF RefTypes
<1>9. CASE /\ dio.pages = <<>> /\ got # <<>>
           /\ dio' = [dio EXCEPT !.curr_page = @ + Len(got), !.page = Head(got), !.pages = Tail(got)]
           /\ mem' = [mem EXCEPT !.refs = [p \in UserPages |-> @[p] + Times(p, got)]]
           /\ pc' = "chunk" /\ UNCHANGED hist
  <2>1. Len(got) \in Nat /\ dio.curr_page \in Nat
    BY <1>2, <1>6 DEF Listed, DioShape
  <2>2. PICK h, q : h = Head(got) /\ q = Tail(got)
    OBVIOUS
  <2>3. Listed(q) /\ \A p : Times(p, got) = Times(p, q) + Is(p, h)
    BY <1>6, <1>9, <2>2, HeadTimes
  <2>4. /\ PageFields \subseteq DOMAIN dio' /\ dio'.page = h /\ dio'.pages = q
        /\ dio'.bio = dio.bio /\ dio'.cur = dio.cur /\ dio'.arg = dio.arg /\ dio'.seg = dio.seg
        /\ dio'.curr_page = dio.curr_page + Len(got)
    BY <1>2, <1>9, <2>2 DEF DioShape, PageFields
  <2>5. mem'.refs = [p \in UserPages |-> mem.refs[p] + Times(p, got)]
    BY <1>9 DEF FreshInv, MemFields
  <2>6. \A p : Times(p, got) \in Nat /\ Queue(p, dio) = 0
    BY <1>6, <1>9, CountTypes, EmptyCounts DEF Queue
  <2>7. mem'.refs \in [UserPages -> Int]
    BY <1>2, <2>5, <2>6 DEF RefTypes
  <2>8. ASSUME NEW p \in UserPages
        PROVE  mem'.refs[p] = mem.refs[p] + ((Times(p, q) + Is(p, h)) - Queue(p, dio))
    <3>1. /\ mem'.refs[p] = mem.refs[p] + Times(p, got) /\ Times(p, got) \in Nat
          /\ Times(p, got) = Times(p, q) + Is(p, h) /\ Queue(p, dio) = 0
      BY <2>3, <2>5, <2>6
    <3> QED
      BY <3>1
  <2>9. dio'.curr_page \in Nat
    BY <2>1, <2>4
  <2> QED
    BY <1>1, <1>9, <2>3, <2>4, <2>7, <2>8, <2>9, TakeRefs
<1>10. CASE /\ dio.pages = <<>> /\ dio' = [dio EXCEPT !.page_errors = -EFAULT, !.page = ZERO_PAGE]
            /\ pc' \in {"BUG", "chunk"} /\ UNCHANGED <<mem, hist>>
  <2>1. CASE pc' = "BUG"
    BY <2>1, BugRefs
  <2>2. CASE pc' = "chunk"
    <3>1. /\ Carried(dio, dio') /\ dio'.seg = dio.seg /\ dio'.page = ZERO_PAGE
      BY <1>2, <1>10 DEF DioShape, Carried, PageFields
    <3>2. /\ DioShape(dio')
          /\ \A p : /\ Queue(p, dio') = Queue(p, dio) /\ InBio(p, dio') = InBio(p, dio)
                    /\ OnCur(p, dio') = OnCur(p, dio)
      BY <1>2, <3>1, CarriedCounts
    <3>3. Working' /\ AtPage(pc', dio') /\ Present(pc', dio')
      BY <1>1, <1>2, <2>2, <3>1 DEF Working, Cutting, Sending, AtPage, Present
    <3>4. \A p \in UserPages : OnPage(p, pc', dio') = 0 /\ OnPage(p, pc, dio) = 0
      BY <1>1, <1>2, <3>1, ZeroOutside DEF OnPage, Is
    <3>5. ASSUME NEW p \in UserPages
          PROVE  (mem'.refs[p] - mem.refs[p]) - (hist'.kept[p] - hist.kept[p])
                   = Total(p, pc', dio') - Total(p, pc, dio)
      <4>1. /\ mem.refs[p] \in Int /\ hist.kept[p] \in Int /\ Total(p, pc, dio) \in Nat
        BY <1>2, HeldTypes DEF RefTypes
      <4>2. Total(p, pc', dio') = Total(p, pc, dio)
        BY <3>2, <3>4 DEF Total
      <4> QED
        BY <1>10, <4>1, <4>2
    <3>6. Settled
      BY <1>2, <1>10, <3>2, <3>3, <3>5 DEF Settled, RefTypes
    <3> QED
      BY <1>1, <3>3, <3>6, SettledKeeps
  <2> QED
    BY <1>10, <2>1, <2>2
<1>11. CASE Leave(dio, mem, hist, -EFAULT)
  <2>1. Carried(dio, dio)
    BY <1>2 DEF DioShape, Carried
  <2>2. "refs" \in DOMAIN mem /\ \A p \in UserPages : mem.refs[p] = mem.refs[p] - OnPage(p, pc, dio)
    BY <1>1, <1>2 DEF FreshInv, MemFields, OnPage, RefTypes
  <2> QED
    BY <1>1, <1>2, <1>11, <2>1, <2>2, LeaveRefs DEF RefTypes
<1> QED
  BY <1>7, <1>8, <1>9, <1>10, <1>11, BugRefs

\* The deferred chunk or the bio under assembly changes, and the references with them.
LEMMA HandRefs ==
  ASSUME Inv, RefInv, Working, Working', UNCHANGED <<req, bios, hist>>,
         DioShape(dio'), Present(pc', dio'), dio'.pages = dio.pages, dio'.page = dio.page,
         AtPage(pc', dio') <=> AtPage(pc, dio), mem'.refs \in [UserPages -> Int],
         \A p \in UserPages : mem'.refs[p] = mem.refs[p] + (InBio(p, dio') - InBio(p, dio))
                                             + (OnCur(p, dio') - OnCur(p, dio))
  PROVE  RefInv'
<1>1. DioShape(dio) /\ RefTypes
  BY AtWork
<1>2. ASSUME NEW p \in UserPages
      PROVE  (mem'.refs[p] - mem.refs[p]) - (hist'.kept[p] - hist.kept[p])
               = Total(p, pc', dio') - Total(p, pc, dio)
  <2>1. /\ mem.refs[p] \in Int /\ hist.kept[p] \in Int /\ hist'.kept[p] = hist.kept[p]
        /\ Queue(p, dio) \in Nat /\ InBio(p, dio) \in Nat /\ OnCur(p, dio) \in Nat
        /\ OnPage(p, pc, dio) \in Nat
    BY <1>1, HeldTypes DEF RefTypes
  <2>2. InBio(p, dio') \in Nat /\ OnCur(p, dio') \in Nat
    BY HeldTypes
  <2>3. Total(p, pc, dio) = Queue(p, dio) + InBio(p, dio) + OnCur(p, dio) + OnPage(p, pc, dio)
    BY DEF Total
  <2>4. Total(p, pc', dio') = Queue(p, dio) + InBio(p, dio') + OnCur(p, dio') + OnPage(p, pc, dio)
    BY DEF Total, OnPage, Queue
  <2>5. mem'.refs[p] = mem.refs[p] + (InBio(p, dio') - InBio(p, dio)) + (OnCur(p, dio') - OnCur(p, dio))
    OBVIOUS
  <2> QED
    BY <2>1, <2>2, <2>3, <2>4, <2>5
<1>3. Settled
  BY <1>1, <1>2 DEF Settled, RefTypes
<1> QED
  BY <1>3, SettledKeeps

LEMMA GrownChunk ==
  ASSUME NEW c, OneChunk(c), c # NONE, NEW n, NEW e, e = [c EXCEPT ![1].len = n]
  PROVE  OneChunk(e) /\ e # NONE /\ e[1].page = c[1].page
<1>1. 1 \in DOMAIN e /\ e[1] = [c[1] EXCEPT !.len = n]
  BY DEF OneChunk
<1> QED
  BY <1>1 DEF OneChunk, ChunkFields, NONE

LEMMA SectionRefs ==
  ASSUME Inv, RefInv, FreshInv, submit_page_section
  PROVE  RefInv'
<1>1. Working /\ UNCHANGED <<req, bios, hist>> /\ pc = "section"
  BY DEF submit_page_section, Working
<1>2. DioShape(dio) /\ Present(pc, dio) /\ RefTypes /\ req \in Requests /\ Placed
  BY <1>1, AtWork
<1>3. /\ dio.after # "last" /\ dio.back \in {"zeroed", "queued", "padded"}
      /\ dio.back = "zeroed" => dio.cur = NONE
      /\ dio.arg # NONE /\ OneChunk(dio.arg) /\ OneChunk(dio.cur) /\ PageFields \subseteq DOMAIN dio
  BY <1>1, <1>2 DEF Placed, Present, DioShape
<1>4. CASE UNCHANGED mem /\ dio.cur # NONE /\ pc' \in {"send", dio.back}
           /\ \/ dio' = [dio EXCEPT !.cur[1].len = @ + dio.arg[1].len, !.after = "grown", !.ret2 = 0]
              \/ dio' = [dio EXCEPT !.after = "deferred"]
  <2>1. /\ PageFields \subseteq DOMAIN dio' /\ dio'.pages = dio.pages /\ dio'.bio = dio.bio
        /\ dio'.arg = dio.arg /\ dio'.seg = dio.seg /\ dio'.curr_page = dio.curr_page
        /\ dio'.page = dio.page /\ dio'.back = dio.back /\ dio'.after # "last"
    BY <1>3, <1>4 DEF PageFields
  <2>2. OneChunk(dio'.cur) /\ dio'.cur # NONE /\ dio'.cur[1].page = dio.cur[1].page
    <3>1. CASE dio' = [dio EXCEPT !.after = "deferred"]
      BY <1>3, <1>4, <3>1 DEF PageFields
    <3>2. CASE dio' = [dio EXCEPT !.cur[1].len = @ + dio.arg[1].len, !.after = "grown", !.ret2 = 0]
      <4>1. PICK c, n : c = dio.cur /\ n = dio.cur[1].len + dio.arg[1].len
        OBVIOUS
      <4>2. dio'.cur = [c EXCEPT ![1].len = n]
        BY <1>3, <3>2, <4>1 DEF PageFields
      <4> QED
        BY <1>3, <1>4, <4>1, <4>2, GrownChunk
    <3> QED
      BY <1>4, <3>1, <3>2
  <2>3. Carried(dio, dio')
    BY <1>2, <1>3, <1>4, <2>1, <2>2 DEF Carried, DioShape
  <2>4. Working' /\ (AtPage(pc', dio') <=> AtPage(pc, dio))
    BY <1>1, <1>3, <1>4, <2>1 DEF Working, Cutting, Sending, AtPage
  <2>5. Present(pc', dio')
    BY <1>1, <1>2, <1>3, <1>4, <2>1, <2>2, <2>4 DEF Present, Sending
  <2> QED
    BY <1>1, <1>2, <1>4, <2>1, <2>3, <2>4, <2>5, QuietRefs DEF RefTypes
<1>5. CASE dio.cur = NONE /\ pc' = dio.back /\ dio' = [dio EXCEPT !.cur = dio.arg, !.ret2 = 0]
           /\ mem' = page_cache_get(mem, dio.arg[1].page)
  <2>1. /\ PageFields \subseteq DOMAIN dio' /\ dio'.pages = dio.pages /\ dio'.bio = dio.bio
        /\ dio'.arg = dio.arg /\ dio'.seg = dio.seg /\ dio'.curr_page = dio.curr_page
        /\ dio'.page = dio.page /\ dio'.cur = dio.arg
    BY <1>3, <1>5 DEF PageFields
  <2>2. DioShape(dio')
    BY <1>2, <2>1 DEF DioShape
  <2>3. Working' /\ (AtPage(pc', dio') <=> AtPage(pc, dio))
    BY <1>1, <1>3, <1>5 DEF Working, Cutting, Sending, AtPage
  <2>4. Present(pc', dio')
    BY <1>1, <1>2, <1>3, <1>5, <2>1, <2>3 DEF Present, Sending
  <2>5. "refs" \in DOMAIN mem
    BY DEF FreshInv, MemFields
  <2>6. /\ mem'.refs \in [UserPages -> Int]
        /\ \A p \in UserPages : mem'.refs[p] = mem.refs[p] + Is(p, dio.arg[1].page)
    BY <1>2, <1>5, <2>5, RefCounts DEF RefTypes
  <2>7. ASSUME NEW p \in UserPages
        PROVE  mem'.refs[p] = mem.refs[p] + (InBio(p, dio') - InBio(p, dio))
                              + (OnCur(p, dio') - OnCur(p, dio))
    <3>1. OnCur(p, dio) = 0 /\ OnCur(p, dio') = Is(p, dio.arg[1].page) /\ InBio(p, dio') = InBio(p, dio)
      BY <1>3, <1>5, <2>1 DEF OnCur, InBio
    <3>2. InBio(p, dio) \in Nat /\ Is(p, dio.arg[1].page) \in Nat /\ mem.refs[p] \in Int
      BY <1>2, HeldTypes DEF Is, RefTypes
    <3> QED
      BY <2>6, <3>1, <3>2
  <2> QED
    BY <1>1, <2>1, <2>2, <2>3, <2>4, <2>6, <2>7, HandRefs
<1> QED
  BY <1>4, <1>5 DEF submit_page_section, Goto, extends_cur

LEMMA SentRefs ==
  ASSUME Inv, RefInv, FreshInv, cur_page_sent
  PROVE  RefInv'
<1>1. Working /\ UNCHANGED <<req, bios, hist>> /\ pc = "sent"
  BY DEF cur_page_sent, Working, Sending
<1>2. DioShape(dio) /\ Present(pc, dio) /\ RefTypes /\ req \in Requests /\ Placed
  BY <1>1, AtWork
<1>3. /\ dio.after = "last" \/ dio.back \in {"queued", "padded"}
      /\ dio.after # "last" => dio.arg # NONE
      /\ OneChunk(dio.arg) /\ dio.cur # NONE /\ PageFields \subseteq DOMAIN dio
  BY <1>1, <1>2 DEF Placed, Present, DioShape, Sending
<1>4. PICK keep \in BOOLEAN : keep = (dio.after = "deferred" /\ dio.ret2 = 0)
  OBVIOUS
<1>5. PICK m : m = page_cache_release(mem, dio.cur[1].page)
  OBVIOUS
<1>6. PICK c : c = IF keep THEN dio.arg ELSE NONE
  OBVIOUS
<1>7. /\ PageFields \subseteq DOMAIN dio' /\ dio'.pages = dio.pages /\ dio'.bio = dio.bio
      /\ dio'.arg = dio.arg /\ dio'.seg = dio.seg /\ dio'.curr_page = dio.curr_page
      /\ dio'.page = dio.page /\ dio'.cur = c /\ dio'.after = dio.after /\ dio'.back = dio.back
  <2>1. dio'.cur = IF keep THEN dio.arg ELSE NONE
    BY <1>3, <1>4 DEF cur_page_sent, PageFields
  <2>2. /\ PageFields \subseteq DOMAIN dio' /\ dio'.pages = dio.pages /\ dio'.bio = dio.bio
        /\ dio'.arg = dio.arg /\ dio'.seg = dio.seg /\ dio'.curr_page = dio.curr_page
        /\ dio'.page = dio.page /\ dio'.after = dio.after /\ dio'.back = dio.back
    BY <1>3 DEF cur_page_sent, PageFields
  <2> QED
    BY <1>6, <2>1, <2>2
<1>8. /\ mem' = IF keep THEN page_cache_get(m, dio.arg[1].page) ELSE m
      /\ pc' = IF dio.after = "last" THEN "flush" ELSE dio.back
  BY <1>4, <1>5 DEF cur_page_sent, Goto
<1>9. DioShape(dio')
  BY <1>2, <1>3, <1>6, <1>7 DEF DioShape, OneChunk
<1>10. Working' /\ (AtPage(pc', dio') <=> AtPage(pc, dio))
  BY <1>1, <1>3, <1>8 DEF Working, Cutting, Sending, AtPage
<1>11. Present(pc', dio')
  BY <1>1, <1>2, <1>3, <1>4, <1>6, <1>7, <1>8, <1>10 DEF Present, Sending
<1>12. /\ "refs" \in DOMAIN m /\ m.refs \in [UserPages -> Int]
       /\ \A p \in UserPages : m.refs[p] = mem.refs[p] - Is(p, dio.cur[1].page)
  <2>1. "refs" \in DOMAIN mem
    BY DEF FreshInv, MemFields
  <2>2. "refs" \in DOMAIN m
    BY <1>5, RefsOnly DEF FreshInv, MemFields
  <2> QED
    BY <1>2, <1>5, <2>1, <2>2, RefCounts DEF RefTypes
<1>13. /\ mem'.refs \in [UserPages -> Int]
       /\ \A p \in UserPages : mem'.refs[p] = m.refs[p] + OnCur(p, dio')
  <2>1. CASE keep
    <3>1. /\ mem'.refs \in [UserPages -> Int]
          /\ \A p \in UserPages : mem'.refs[p] = m.refs[p] + Is(p, dio.arg[1].page)
      BY <1>2, <1>8, <1>12, <2>1, RefCounts
    <3>2. c # NONE /\ c = dio.arg
      BY <1>3, <1>4, <1>6, <2>1
    <3> QED
      BY <1>7, <3>1, <3>2 DEF OnCur
  <2>2. CASE ~keep
    <3>1. \A p \in UserPages : m.refs[p] = m.refs[p] + 0
      BY <1>12
    <3> QED
      BY <1>6, <1>7, <1>8, <1>12, <2>2, <3>1 DEF OnCur
  <2> QED
    BY <2>1, <2>2
<1>14. ASSUME NEW p \in UserPages
       PROVE  mem'.refs[p] = mem.refs[p] + (InBio(p, dio') - InBio(p, dio))
                             + (OnCur(p, dio') - OnCur(p, dio))
  <2>1. OnCur(p, dio) = Is(p, dio.cur[1].page) /\ InBio(p, dio') = InBio(p, dio)
    BY <1>3, <1>7 DEF OnCur, InBio
  <2>2. InBio(p, dio) \in Nat /\ OnCur(p, dio) \in Nat /\ OnCur(p, dio') \in Nat /\ mem.refs[p] \in Int
    BY <1>2, <1>9, HeldTypes DEF RefTypes
  <2> QED
    BY <1>12, <1>13, <2>1, <2>2
<1> QED
  BY <1>1, <1>7, <1>9, <1>10, <1>11, <1>13, <1>14, HandRefs

\* dio_bio_alloc: the new bio is empty.
LEMMA AllocRefs ==
  ASSUME Inv, RefInv, pc \in {"new", "reap"}, UNCHANGED <<req, bios, mem, hist>>, pc' \in {"BUG", "add"},
         NEW d, d.pages = dio.pages, d.page = dio.page, d.cur = dio.cur, d.arg = dio.arg,
         d.seg = dio.seg, d.curr_page = dio.curr_page, d.after = dio.after, d.back = dio.back,
         PageFields \subseteq DOMAIN d, dio' = dio_bio_alloc(d)
  PROVE  RefInv'
<1>1. Working
  BY DEF Working, Sending
<1>2. DioShape(dio) /\ Present(pc, dio) /\ RefTypes
  BY <1>1, AtWork
<1>3. PICK v : dio'.bio = <<[chunks |-> <<>>, max_vecs |-> v]>>
  BY DEF dio_bio_alloc, PageFields
<1>4. /\ PageFields \subseteq DOMAIN dio' /\ dio'.pages = dio.pages /\ dio'.cur = dio.cur
      /\ dio'.arg = dio.arg /\ dio'.seg = dio.seg /\ dio'.curr_page = dio.curr_page
      /\ dio'.page = dio.page /\ dio'.after = dio.after /\ dio'.back = dio.back
  BY DEF dio_bio_alloc, PageFields
<1>5. dio'.bio # NONE /\ 1 \in DOMAIN dio'.bio /\ "chunks" \in DOMAIN dio'.bio[1] /\ dio'.bio[1].chunks = <<>>
  BY <1>3 DEF NONE
<1>6. DioShape(dio')
  BY <1>2, <1>4, <1>5, EmptyCounts DEF DioShape
<1>7. CASE pc' = "BUG"
  BY <1>7, BugRefs
<1>8. CASE pc' = "add"
  <2>1. Working' /\ (AtPage(pc', dio') <=> AtPage(pc, dio))
    BY <1>4, <1>8 DEF Working, Cutting, Sending, AtPage
  <2>2. Present(pc', dio')
    BY <1>2, <1>4, <1>5, <1>8, <2>1 DEF Present, Sending
  <2>3. ASSUME NEW p \in UserPages
        PROVE  mem'.refs[p] = mem.refs[p] + (InBio(p, dio') - InBio(p, dio))
                              + (OnCur(p, dio') - OnCur(p, dio))
    <3>1. OnCur(p, dio') = OnCur(p, dio) /\ OnCur(p, dio) \in Nat /\ mem.refs[p] \in Int
      BY <1>2, <1>4, HeldTypes DEF OnCur, RefTypes
    <3>2. InBio(p, dio) = 0
      BY <1>2 DEF InBio, Present
    <3>3. DOMAIN <<>> = {}
      OBVIOUS
    <3>4. InBio(p, dio') = 0
      BY <1>5, <3>3, EmptyCounts DEF InBio
    <3> QED
      BY <3>1, <3>2, <3>4
  <2> QED
    BY <1>1, <1>2, <1>4, <1>6, <2>1, <2>2, <2>3, HandRefs DEF RefTypes
<1> QED
  BY <1>7, <1>8

LEMMA NewBioRefs ==
  ASSUME Inv, RefInv, dio_new_bio
  PROVE  RefInv'
<1>1. Working /\ pc = "new" /\ UNCHANGED <<req, bios, mem, hist>>
  BY DEF dio_new_bio, Working, Sending
<1>2. DioShape(dio) /\ Present(pc, dio) /\ RefTypes
  BY <1>1, AtWork
<1>3. CASE dio.reap >= ReapLimit
  <2>1. dio' = [dio EXCEPT !.ret2 = 0] /\ pc' = "reap"
    BY <1>3 DEF dio_new_bio, Goto
  <2>2. /\ Carried(dio, dio') /\ dio'.page = dio.page /\ dio'.seg = dio.seg /\ dio'.cur = dio.cur
        /\ dio'.arg = dio.arg /\ dio'.after = dio.after /\ dio'.back = dio.back
    BY <1>2, <2>1 DEF DioShape, Carried, PageFields
  <2>3. Working' /\ (AtPage(pc', dio') <=> AtPage(pc, dio))
    BY <1>1, <2>1, <2>2 DEF Working, Cutting, Sending, AtPage
  <2>4. Present(pc', dio')
    BY <1>1, <1>2, <2>1, <2>2, <2>3 DEF Present, Sending, Carried
  <2> QED
    BY <1>1, <1>2, <2>2, <2>3, <2>4, QuietRefs DEF RefTypes
<1>4. CASE ~(dio.reap >= ReapLimit)
  <2>1. PICK d : d = [dio EXCEPT !.reap = @ + 1]
    OBVIOUS
  <2>2. pc' \in {"BUG", "add"} /\ dio' = dio_bio_alloc(d)
    BY <1>4, <2>1 DEF dio_new_bio, Goto
  <2>3. /\ PageFields \subseteq DOMAIN d /\ d.pages = dio.pages /\ d.page = dio.page /\ d.cur = dio.cur
        /\ d.arg = dio.arg /\ d.seg = dio.seg /\ d.curr_page = dio.curr_page
        /\ d.after = dio.after /\ d.back = dio.back
    BY <1>2, <2>1 DEF DioShape, PageFields
  <2> QED
    BY <1>1, <2>2, <2>3, AllocRefs
<1> QED
  BY <1>3, <1>4

\* The reaping loop is left.
LEMMA ReapedRefs ==
  ASSUME Inv, RefInv, dio_bio_reap, dio.bio_list = <<>>
  PROVE  RefInv'
<1>1. Working /\ pc = "reap" /\ UNCHANGED <<req, bios, mem, hist>>
  BY DEF dio_bio_reap, Working, Sending
<1>2. DioShape(dio) /\ Present(pc, dio) /\ RefTypes
  BY <1>1, AtWork
<1>3. PICK d : d = [dio EXCEPT !.reap = 0]
  OBVIOUS
<1>4. /\ PageFields \subseteq DOMAIN d /\ d.pages = dio.pages /\ d.page = dio.page /\ d.cur = dio.cur
      /\ d.arg = dio.arg /\ d.seg = dio.seg /\ d.curr_page = dio.curr_page /\ d.bio = dio.bio
      /\ d.after = dio.after /\ d.back = dio.back
  BY <1>2, <1>3 DEF DioShape, PageFields
<1>5. \/ pc' = "sent" /\ dio' = d
      \/ pc' \in {"BUG", "add"} /\ dio' = dio_bio_alloc(d)
  BY <1>3 DEF dio_bio_reap, Goto
<1>6. CASE pc' = "sent" /\ dio' = d
  <2>1. Carried(dio, dio')
    BY <1>2, <1>4, <1>6 DEF DioShape, Carried
  <2>2. Working' /\ (AtPage(pc', dio') <=> AtPage(pc, dio))
    BY <1>1, <1>4, <1>6 DEF Working, Cutting, Sending, AtPage
  <2>3. Present(pc', dio')
    BY <1>1, <1>2, <1>4, <1>6, <2>2 DEF Present, Sending
  <2> QED
    BY <1>1, <1>2, <1>4, <1>6, <2>1, <2>2, <2>3, QuietRefs DEF RefTypes
<1>7. CASE pc' \in {"BUG", "add"} /\ dio' = dio_bio_alloc(d)
  BY <1>1, <1>4, <1>7, AllocRefs
<1> QED
  BY <1>5, <1>6, <1>7

\* cur joins the bio under assembly.
LEMMA JoinRefs ==
  ASSUME Inv, RefInv, FreshInv, dio_bio_add_page, bio_add_page(dio.bio[1], dio.cur[1])
  PROVE  RefInv'
<1>1. /\ Working /\ pc = "add" /\ pc' = "sent" /\ UNCHANGED <<req, bios, hist>>
      /\ mem' = page_cache_get(mem, dio.cur[1].page)
      /\ dio' = [dio EXCEPT !.bio[1].chunks = Append(@, dio.cur[1]), !.pages_in_io = @ - 1,
                            !.final_in_bio = dio.cur[1].block + dio.cur[1].len, !.ret2 = 0]
  BY DEF dio_bio_add_page, Working, Sending, Goto
<1>2. DioShape(dio) /\ Present(pc, dio) /\ RefTypes /\ req \in Requests
  BY <1>1, AtWork
<1>3. dio.bio # NONE /\ 1 \in DOMAIN dio.bio /\ "chunks" \in DOMAIN dio.bio[1] /\ Listed(dio.bio[1].chunks)
  BY <1>1, <1>2 DEF DioShape, Present
<1>4. PICK s, c : s = dio.bio[1].chunks /\ c = dio.cur[1]
  OBVIOUS
<1>5. PICK u : u = Append(s, c)
  OBVIOUS
<1>6. /\ PageFields \subseteq DOMAIN dio' /\ dio'.pages = dio.pages /\ dio'.cur = dio.cur
      /\ dio'.arg = dio.arg /\ dio'.seg = dio.seg /\ dio'.curr_page = dio.curr_page
      /\ dio'.page = dio.page /\ dio'.after = dio.after /\ dio'.back = dio.back
      /\ dio'.bio = [dio.bio EXCEPT ![1].chunks = Append(@, dio.cur[1])]
  BY <1>1, <1>2 DEF DioShape, PageFields
<1>7. /\ dio'.bio # NONE /\ 1 \in DOMAIN dio'.bio /\ "chunks" \in DOMAIN dio'.bio[1]
      /\ dio'.bio[1].chunks = u
  <2>1. dio'.bio = [dio.bio EXCEPT ![1].chunks = u]
    BY <1>4, <1>5, <1>6
  <2>2. 1 \in DOMAIN dio'.bio /\ dio'.bio[1] = [dio.bio[1] EXCEPT !.chunks = u]
    BY <1>3, <2>1
  <2> QED
    BY <1>3, <2>2 DEF NONE
<1>8. Listed(u) /\ \A p : Uses(p, u, DOMAIN u) = Uses(p, s, DOMAIN s) + Is(p, c.page)
  BY <1>3, <1>4, <1>5, AppendUses
<1>9. DioShape(dio')
  BY <1>2, <1>6, <1>7, <1>8 DEF DioShape
<1>10. Working' /\ (AtPage(pc', dio') <=> AtPage(pc, dio))
  BY <1>1, <1>6 DEF Working, Cutting, Sending, AtPage
<1>11. Present(pc', dio')
  BY <1>1, <1>2, <1>6, <1>10 DEF Present, Sending
<1>12. /\ mem'.refs \in [UserPages -> Int]
       /\ \A p \in UserPages : mem'.refs[p] = mem.refs[p] + Is(p, c.page)
  <2>1. "refs" \in DOMAIN mem
    BY DEF FreshInv, MemFields
  <2> QED
    BY <1>1, <1>2, <1>4, <2>1, RefCounts DEF RefTypes
<1>13. ASSUME NEW p \in UserPages
       PROVE  mem'.refs[p] = mem.refs[p] + (InBio(p, dio') - InBio(p, dio))
                             + (OnCur(p, dio') - OnCur(p, dio))
  <2>1. /\ OnCur(p, dio') = OnCur(p, dio) /\ OnCur(p, dio) \in Nat /\ InBio(p, dio) \in Nat
        /\ mem.refs[p] \in Int /\ Is(p, c.page) \in Nat
    BY <1>2, <1>6, HeldTypes DEF OnCur, RefTypes, Is
  <2>2. InBio(p, dio') = InBio(p, dio) + Is(p, c.page)
    BY <1>3, <1>4, <1>7, <1>8 DEF InBio
  <2>3. mem'.refs[p] = mem.refs[p] + Is(p, c.page)
    BY <1>12
  <2> QED
    BY <2>1, <2>2, <2>3
<1> QED
  BY <1>1, <1>6, <1>9, <1>10, <1>11, <1>12, <1>13, HandRefs

\* The bio under assembly can take cur, or there is none.
LEMMA SendRefs ==
  ASSUME Inv, RefInv, dio_send_cur_page, ~must_submit(dio)
  PROVE  RefInv'
<1>1. /\ Working /\ pc = "send" /\ UNCHANGED <<req, bios, hist, dio, mem>>
      /\ pc' = IF dio.bio = NONE THEN "new" ELSE "add"
  BY DEF dio_send_cur_page, Working, Sending, Goto
<1>2. DioShape(dio) /\ Present(pc, dio) /\ RefTypes
  BY <1>1, AtWork
<1>3. Carried(dio, dio')
  BY <1>1, <1>2 DEF DioShape, Carried
<1>4. Working' /\ (AtPage(pc', dio') <=> AtPage(pc, dio))
  BY <1>1 DEF Working, Cutting, Sending, AtPage
<1>5. Present(pc', dio')
  BY <1>1, <1>2, <1>4 DEF Present, Sending
<1> QED
  BY <1>1, <1>2, <1>3, <1>4, <1>5, QuietRefs DEF RefTypes

\* Steps that change a bio.  What a bio still has a reference on moves with its state.
LiveUses(p, r) == Uses(p, r.chunks, Live(r))

LEMMA LiveFinite ==
  ASSUME NEW r, NEW p, Listed(r.chunks), r.clean \subseteq DOMAIN r.chunks
  PROVE  /\ Live(r) \subseteq DOMAIN r.chunks /\ Row(p, r) \subseteq Nat /\ IsFiniteSet(Row(p, r))
         /\ LiveUses(p, r) = Cardinality(Row(p, r)) /\ LiveUses(p, r) \in Nat
<1>1. PICK n \in Nat : DOMAIN r.chunks = 1 .. n
  BY DEF Listed
<1>2. Live(r) \subseteq DOMAIN r.chunks
  BY DEF Live
<1>3. Row(p, r) \in SUBSET DOMAIN r.chunks /\ Row(p, r) \subseteq Nat
  BY <1>1, <1>2 DEF Row
<1>4. LiveUses(p, r) = Cardinality(Row(p, r))
  BY DEF LiveUses, Uses, Row
<1> QED
  BY <1>2, <1>3, <1>4, ListedFinite

\* Part X of a set is exchanged for Y.
Parted(I, Rest, X) == I = Rest \cup X /\ Rest \cap X = {}

LEMMA PartCount ==
  ASSUME NEW I, NEW Rest, NEW X, Parted(I, Rest, X), IsFiniteSet(Rest), IsFiniteSet(X)
  PROVE  IsFiniteSet(I) /\ Cardinality(I) = Cardinality(Rest) + Cardinality(X)
<1>1. I = Rest \cup X /\ Rest \cap X = {}
  BY DEF Parted
<1>2. IsFiniteSet(Rest \cup X) /\ Cardinality(Rest \cup X) = Cardinality(Rest) + Cardinality(X)
  BY <1>1, DisjointUnion
<1> QED
  BY <1>1, <1>2

LEMMA Parting ==
  ASSUME NEW I, NEW J, NEW Rest, NEW X, NEW Y, Parted(I, Rest, X), Parted(J, Rest, Y),
         IsFiniteSet(I), IsFiniteSet(Y)
  PROVE  IsFiniteSet(J) /\ Cardinality(J) = (Cardinality(I) - Cardinality(X)) + Cardinality(Y)
<1>1. IsFiniteSet(Rest) /\ IsFiniteSet(X)
  <2>1. Rest \subseteq I /\ X \subseteq I
    BY DEF Parted
  <2> QED
    BY <2>1, FS_Subset
<1>2. Cardinality(I) = Cardinality(Rest) + Cardinality(X)
  BY <1>1, PartCount
<1>3. IsFiniteSet(J) /\ Cardinality(J) = Cardinality(Rest) + Cardinality(Y)
  BY <1>1, PartCount
<1>4. Cardinality(Rest) \in Nat /\ Cardinality(X) \in Nat /\ Cardinality(Y) \in Nat
  BY <1>1, FS_CardinalityType
<1> QED
  BY <1>2, <1>3, <1>4

\* Bio b is changed or added.
LEMMA RowMoves ==
  ASSUME BiosListed, NEW b \in Nat, NEW r, Listed(r.chunks), r.clean \subseteq DOMAIN r.chunks,
         DOMAIN bios' = DOMAIN bios \cup {b}, bios'[b] = r,
         \A c \in DOMAIN bios \ {b} : bios'[c] = bios[c],
         NEW p, IsFiniteSet(InBios(p)), NEW u, u = IF b \in DOMAIN bios THEN LiveUses(p, bios[b]) ELSE 0
  PROVE  /\ IsFiniteSet(InBios(p)') /\ u \in Nat /\ LiveUses(p, r) \in Nat
         /\ Cardinality(InBios(p)') = (Cardinality(InBios(p)) - u) + LiveUses(p, r)
<1>1. PICK X : X = IF b \in DOMAIN bios THEN {b} \X Row(p, bios[b]) ELSE {}
  OBVIOUS
<1>2. u = Cardinality(X) /\ u \in Nat
  <2>1. CASE b \in DOMAIN bios
    <3>1. Listed(bios[b].chunks) /\ bios[b].clean \subseteq DOMAIN bios[b].chunks
      BY <2>1 DEF BiosListed
    <3>2. /\ IsFiniteSet(Row(p, bios[b])) /\ LiveUses(p, bios[b]) = Cardinality(Row(p, bios[b]))
          /\ LiveUses(p, bios[b]) \in Nat
      BY <3>1, LiveFinite
    <3>3. Cardinality({b} \X Row(p, bios[b])) = Cardinality(Row(p, bios[b]))
      BY <3>2, RowCount
    <3> QED
      BY <1>1, <2>1, <3>2, <3>3
  <2>2. CASE b \notin DOMAIN bios
    BY <1>1, <2>2, FS_EmptySet
  <2> QED
    BY <2>1, <2>2
<1>3. PICK Y : Y = {b} \X Row(p, r)
  OBVIOUS
<1>4. IsFiniteSet(Y) /\ LiveUses(p, r) = Cardinality(Y) /\ LiveUses(p, r) \in Nat
  <2>1. IsFiniteSet(Row(p, r)) /\ LiveUses(p, r) = Cardinality(Row(p, r)) /\ LiveUses(p, r) \in Nat
    BY LiveFinite
  <2>2. IsFiniteSet({b} \X Row(p, r)) /\ Cardinality({b} \X Row(p, r)) = Cardinality(Row(p, r))
    BY <2>1, RowCount
  <2> QED
    BY <1>3, <2>1, <2>2
<1>5. PICK Rest : Rest = Pairs(p, bios, DOMAIN bios \ {b})
  OBVIOUS
<1>6. PICK I, J : I = InBios(p) /\ J = InBios(p)'
  OBVIOUS
<1>7. Parted(I, Rest, X)
  BY <1>1, <1>5, <1>6 DEF InBios, Pairs, Parted
<1>8. Parted(J, Rest, Y)
  <2>1. PICK bs : bs = bios'
    OBVIOUS
  <2>2. J = Pairs(p, bs, DOMAIN bios \cup {b})
    BY <1>6, <2>1 DEF InBios, Pairs, Row, Live
  <2>3. Rest = Pairs(p, bs, DOMAIN bios \ {b})
    BY <1>5, <2>1 DEF Pairs
  <2> QED
    BY <1>3, <2>1, <2>2, <2>3 DEF Pairs, Parted
<1>9. IsFiniteSet(J) /\ Cardinality(J) = (Cardinality(I) - Cardinality(X)) + Cardinality(Y)
  <2>1. IsFiniteSet(I) /\ IsFiniteSet(Y)
    BY <1>4, <1>6
  <2> QED
    BY <1>7, <1>8, <2>1, Parting
<1> QED
  BY <1>2, <1>4, <1>6, <1>9

WorkerShape == Working => DioShape(dio) /\ Present(pc, dio)

LEMMA RowKeeps ==
  ASSUME RefInv, pc # "BUG", UNCHANGED req, NEW b \in Nat, NEW r, Listed(r.chunks),
         r.clean \subseteq DOMAIN r.chunks, DOMAIN bios' = DOMAIN bios \cup {b}, bios'[b] = r,
         \A c \in DOMAIN bios \ {b} : bios'[c] = bios[c],
         mem'.refs \in [UserPages -> Int], "kept" \in DOMAIN hist', hist'.kept \in [UserPages -> Int],
         WorkerShape',
         \A p \in UserPages :
           /\ Held(p) \in Int /\ Held(p)' \in Int
           /\ (mem'.refs[p] - mem.refs[p]) - (hist'.kept[p] - hist.kept[p])
                = (LiveUses(p, r) - (IF b \in DOMAIN bios THEN LiveUses(p, bios[b]) ELSE 0))
                  + (Held(p)' - Held(p))
  PROVE  RefInv'
<1>1. RefTypes /\ BiosListed
  BY DEF RefInv, RefTypes
<1>2. UserPages' = UserPages
  BY DEF UserPages
<1>3. BiosListed'
  BY <1>1 DEF BiosListed, Listed
<1>4. ASSUME NEW p \in UserPages PROVE Balanced(p)'
  <2>1. PICK u : u = IF b \in DOMAIN bios THEN LiveUses(p, bios[b]) ELSE 0
    OBVIOUS
  <2>2. /\ IsFiniteSet(InBios(p)) /\ Cardinality(InBios(p)) \in Nat
        /\ mem.refs[p] = hist.kept[p] + Cardinality(InBios(p)) + Held(p)
        /\ mem.refs[p] \in Int /\ hist.kept[p] \in Int
    BY <1>1, FS_CardinalityType DEF RefInv, Balanced, RefTypes
  <2>3. /\ IsFiniteSet(InBios(p)') /\ u \in Nat /\ LiveUses(p, r) \in Nat
        /\ Cardinality(InBios(p)') = (Cardinality(InBios(p)) - u) + LiveUses(p, r)
    BY <1>1, <2>1, <2>2, RowMoves
  <2>4. /\ mem'.refs[p] \in Int /\ hist'.kept[p] \in Int /\ Held(p) \in Int /\ Held(p)' \in Int
        /\ (mem'.refs[p] - mem.refs[p]) - (hist'.kept[p] - hist.kept[p])
             = (LiveUses(p, r) - u) + (Held(p)' - Held(p))
    BY <2>1, Zenon
  <2>5. PICK n, n1, l : n = Cardinality(InBios(p)) /\ n1 = Cardinality(InBios(p)') /\ l = LiveUses(p, r)
    OBVIOUS
  <2>6. PICK h, h1, k, k1, m, m1 : /\ h = Held(p) /\ h1 = Held(p)' /\ k = hist.kept[p] /\ k1 = hist'.kept[p]
                                   /\ m = mem.refs[p] /\ m1 = mem'.refs[p]
    OBVIOUS
  <2>7. /\ n \in Nat /\ u \in Nat /\ l \in Nat /\ n1 = (n - u) + l /\ m = k + n + h
        /\ h \in Int /\ h1 \in Int /\ k \in Int /\ k1 \in Int /\ m \in Int /\ m1 \in Int
        /\ (m1 - m) - (k1 - k) = (l - u) + (h1 - h)
    BY <2>2, <2>3, <2>4, <2>5, <2>6, Zenon
  <2>8. m1 = k1 + n1 + h1
    BY <2>7
  <2> QED
    BY <2>3, <2>5, <2>6, <2>8 DEF Balanced
<1> QED
  BY <1>2, <1>3, <1>4 DEF RefInv, RefTypes, WorkerShape

LEMMA HeldPrimed ==
  ASSUME UNCHANGED req, DioShape(dio'), Present(pc', dio')
  PROVE  WorkerShape' /\ \A p : Total(p, pc, dio)' = Total(p, pc', dio')
<1>1. PICK d, l : d = dio' /\ l = pc'
  OBVIOUS
<1>2. DioShape(d) /\ Present(l, d)
  BY <1>1
<1> QED
  BY <1>1, <1>2 DEF WorkerShape, DioShape, Listed, OneChunk, Present, AtPage, Total, Queue, InBio, OnCur,
     OnPage, Times, Uses, Is

SamePages(d, e) ==
  /\ PageFields \subseteq DOMAIN e /\ e.pages = d.pages /\ e.page = d.page /\ e.bio = d.bio
  /\ e.cur = d.cur /\ e.arg = d.arg /\ e.after = d.after /\ e.back = d.back /\ e.seg = d.seg
  /\ e.curr_page = d.curr_page

\* A step that is none of the worker's references' business.
LEMMA HoldsOn ==
  ASSUME RefInv, pc # "BUG", UNCHANGED req,
         \/ Working /\ pc' = pc /\ SamePages(dio, dio')
         \/ ~Working /\ ~Working'
  PROVE  WorkerShape' /\ \A p : Held(p)' = Held(p) /\ Held(p) \in Nat
<1>1. CASE Working /\ pc' = pc /\ SamePages(dio, dio')
  <2>1. DioShape(dio) /\ Present(pc, dio)
    BY <1>1 DEF RefInv
  <2>2. DioShape(dio')
    BY <1>1, <2>1 DEF DioShape, SamePages
  <2>3. AtPage(pc', dio') <=> AtPage(pc, dio)
    BY <1>1 DEF AtPage, SamePages
  <2>4. Present(pc', dio')
    BY <1>1, <2>1, <2>3 DEF Present, SamePages
  <2>5. \A p : Total(p, pc', dio') = Total(p, pc, dio)
    BY <1>1, <2>3 DEF Total, Queue, InBio, OnCur, OnPage, SamePages
  <2>6. WorkerShape' /\ \A p : Total(p, pc, dio)' = Total(p, pc', dio')
    BY <2>2, <2>4, HeldPrimed
  <2>7. Working'
    BY <1>1 DEF Working
  <2>8. \A p : Total(p, pc, dio) \in Nat
    BY <2>1, HeldTypes
  <2> QED
    BY <1>1, <2>5, <2>6, <2>7, <2>8 DEF Held
<1>2. CASE ~Working /\ ~Working'
  BY <1>2 DEF WorkerShape, Held
<1> QED
  BY <1>1, <1>2

\* A step without any reference.
LEMMA NoneMove ==
  ASSUME RefInv, pc # "BUG", UNCHANGED <<req, bios>>, mem'.refs = mem.refs, "kept" \in DOMAIN hist',
         hist'.kept = hist.kept, WorkerShape', \A p : Held(p)' = Held(p)
  PROVE  RefInv'
<1>1. UserPages' = UserPages /\ \A p : InBios(p)' = InBios(p)
  BY DEF UserPages, InBios
<1>2. BiosListed'
  BY DEF RefInv, RefTypes, BiosListed
<1>3. \A p \in UserPages : Balanced(p)'
  BY <1>1 DEF RefInv, Balanced
<1> QED
  BY <1>1, <1>2, <1>3 DEF RefInv, RefTypes, WorkerShape

\* The worker hands what its bio holds over to a bio in flight.
LEMMA GivenUp ==
  ASSUME Inv, RefInv, Working, dio.bio # NONE, UNCHANGED req,
         PageFields \subseteq DOMAIN dio', dio'.bio = NONE, dio'.pages = dio.pages, dio'.page = dio.page,
         dio'.cur = dio.cur, dio'.arg = dio.arg, dio'.after = dio.after, dio'.back = dio.back,
         dio'.seg = dio.seg, dio'.curr_page = dio.curr_page,
         \/ pc \in {"send", "add"} /\ pc' = "new"
         \/ pc = "flush" /\ pc' = "put"
  PROVE  /\ WorkerShape'
         /\ \A p : /\ Held(p) \in Nat /\ Held(p)' \in Nat /\ InBio(p, dio) \in Nat
                   /\ Held(p) = Held(p)' + InBio(p, dio)
<1>1. DioShape(dio) /\ Present(pc, dio)
  BY AtWork
<1>2. \A p : /\ Held(p) = Total(p, pc, dio)
             /\ Total(p, pc, dio) = Queue(p, dio) + InBio(p, dio) + OnCur(p, dio) + OnPage(p, pc, dio)
             /\ Queue(p, dio) \in Nat /\ InBio(p, dio) \in Nat /\ OnCur(p, dio) \in Nat
             /\ OnPage(p, pc, dio) \in Nat
  BY <1>1, HeldTypes DEF Held, Total
<1>3. CASE pc \in {"send", "add"} /\ pc' = "new"
  <2>1. DioShape(dio')
    BY <1>1 DEF DioShape
  <2>2. AtPage(pc', dio') <=> AtPage(pc, dio)
    BY <1>3 DEF AtPage, Sending
  <2>3. Present(pc', dio')
    BY <1>1, <1>3, <2>2 DEF Present, Sending
  <2>4. WorkerShape' /\ \A p : Total(p, pc, dio)' = Total(p, pc', dio')
    BY <2>1, <2>3, HeldPrimed
  <2>5. Working'
    BY <1>3 DEF Working, Sending
  <2>6. \A p : /\ Held(p)' = Total(p, pc', dio')
               /\ Total(p, pc', dio') = Queue(p, dio') + InBio(p, dio') + OnCur(p, dio') + OnPage(p, pc', dio')
    BY <2>4, <2>5 DEF Held, Total
  <2>7. \A p : /\ Queue(p, dio') = Queue(p, dio) /\ InBio(p, dio') = 0 /\ OnCur(p, dio') = OnCur(p, dio)
               /\ OnPage(p, pc', dio') = OnPage(p, pc, dio)
    BY <2>2 DEF Queue, InBio, OnCur, OnPage
  <2>8. ASSUME NEW p
        PROVE  /\ Held(p) \in Nat /\ Held(p)' \in Nat /\ InBio(p, dio) \in Nat
               /\ Held(p) = Held(p)' + InBio(p, dio)
    <3>1. PICK q, i, c, g : q = Queue(p, dio) /\ i = InBio(p, dio) /\ c = OnCur(p, dio) /\ g = OnPage(p, pc, dio)
      OBVIOUS
    <3>2. q \in Nat /\ i \in Nat /\ c \in Nat /\ g \in Nat /\ Held(p) = q + i + c + g /\ Held(p)' = q + 0 + c + g
      BY <1>2, <2>6, <2>7, <3>1
    <3> QED
      BY <3>1, <3>2
  <2> QED
    BY <2>4, <2>8
<1>4. CASE pc = "flush" /\ pc' = "put"
  <2>1. ~Working' /\ ~AtPage(pc, dio)
    BY <1>4 DEF Working, AtPage, Cutting, Sending
  <2>2. dio.cur = NONE /\ dio.pages = <<>>
    BY <1>1, <1>4, <2>1 DEF Present
  <2>3. \A p : Queue(p, dio) = 0 /\ OnCur(p, dio) = 0 /\ OnPage(p, pc, dio) = 0
    BY <2>1, <2>2, EmptyCounts DEF Queue, OnCur, OnPage
  <2>4. \A p : Held(p)' = 0
    BY <2>1 DEF Held
  <2>5. WorkerShape'
    BY <2>1 DEF WorkerShape
  <2> QED
    BY <1>2, <2>3, <2>4, <2>5
<1> QED
  BY <1>3, <1>4

\* Another bio in the list.
LEMMA BioAppended ==
  ASSUME bios \in Seq(ToSet(bios)), NEW r, bios' = Append(bios, r), NEW b, b = Len(bios) + 1
  PROVE  /\ b \in Nat /\ b \notin DOMAIN bios /\ DOMAIN bios' = DOMAIN bios \cup {b} /\ bios'[b] = r
         /\ \A c \in DOMAIN bios \ {b} : bios'[c] = bios[c]
<1>1. PICK n \in Nat : n = Len(bios) /\ DOMAIN bios = 1 .. n
  OBVIOUS
<1>2. bios' \in Seq(ToSet(bios) \cup {r}) /\ Len(bios') = n + 1
  BY <1>1
<1>3. DOMAIN bios' = 1 .. n + 1
  BY <1>2
<1>4. bios'[n + 1] = r /\ \A c \in 1 .. n : bios'[c] = bios[c]
  BY <1>1
<1>5. \A c : c \in 1 .. n + 1 <=> c \in 1 .. n \/ c = n + 1
  OBVIOUS
<1>6. n + 1 \notin 1 .. n
  OBVIOUS
<1> QED
  BY <1>1, <1>3, <1>4, <1>5, <1>6

LEMMA SubmitRefs ==
  ASSUME Inv, RefInv, FreshInv, Working, dio_bio_submit(dio), dio.bio # NONE, UNCHANGED <<req, hist>>,
         \/ pc \in {"send", "add"} /\ pc' = "new"
         \/ pc = "flush" /\ pc' = "put"
  PROVE  RefInv'
<1>1. pc # "BUG" /\ DioShape(dio) /\ RefTypes
  BY AtWork
<1>2. PICK cs : cs = dio.bio[1].chunks /\ Listed(cs)
  BY <1>1 DEF DioShape
<1>3. PICK r : r = [chunks |-> cs, left |-> ChunkSum(cs), ok |-> TRUE, clean |-> {}, state |-> "flight"]
  OBVIOUS
<1>4. /\ Listed(r.chunks) /\ r.clean \subseteq DOMAIN r.chunks
      /\ r.chunks = cs /\ Live(r) = DOMAIN cs
  BY <1>2, <1>3 DEF Live
<1>5. PICK b : b = Len(bios) + 1
  OBVIOUS
<1>6. /\ b \in Nat /\ b \notin DOMAIN bios /\ DOMAIN bios' = DOMAIN bios \cup {b} /\ bios'[b] = r
      /\ \A c \in DOMAIN bios \ {b} : bios'[c] = bios[c]
  <2>1. bios' = Append(bios, r)
    BY <1>2, <1>3 DEF dio_bio_submit
  <2>2. bios \in Seq(ToSet(bios))
    BY DEF FreshInv
  <2> QED
    BY <1>5, <2>1, <2>2, BioAppended
<1>7. mem'.refs = mem.refs
  BY DEF dio_bio_submit, bio_set_pages_dirty, set_dirty, FreshInv, MemFields
<1>8. /\ WorkerShape'
      /\ \A p : /\ Held(p) \in Nat /\ Held(p)' \in Nat /\ InBio(p, dio) \in Nat
                /\ Held(p) = Held(p)' + InBio(p, dio)
  <2>1. PICK d : d = dio'
    OBVIOUS
  <2>2. /\ PageFields \subseteq DOMAIN d /\ d.bio = NONE /\ d.pages = dio.pages /\ d.page = dio.page
        /\ d.cur = dio.cur /\ d.arg = dio.arg /\ d.after = dio.after /\ d.back = dio.back
        /\ d.seg = dio.seg /\ d.curr_page = dio.curr_page
    BY <1>1, <2>1 DEF dio_bio_submit, DioShape, PageFields
  <2> QED
    BY <2>1, <2>2, GivenUp
<1>9. ASSUME NEW p \in UserPages
      PROVE  /\ Held(p) \in Int /\ Held(p)' \in Int
             /\ (mem'.refs[p] - mem.refs[p]) - (hist'.kept[p] - hist.kept[p])
                  = (LiveUses(p, r) - (IF b \in DOMAIN bios THEN LiveUses(p, bios[b]) ELSE 0))
                    + (Held(p)' - Held(p))
  <2>1. LiveUses(p, r) = InBio(p, dio)
    BY <1>2, <1>4 DEF LiveUses, InBio
  <2>2. PICK h, h1, i, k, m : h = Held(p) /\ h1 = Held(p)' /\ i = InBio(p, dio) /\ k = hist.kept[p] /\ m = mem.refs[p]
    OBVIOUS
  <2>3. h \in Nat /\ h1 \in Nat /\ i \in Nat /\ h = h1 + i /\ k \in Int /\ m \in Int
    BY <1>1, <1>8, <2>2 DEF RefTypes
  <2>4. (m - m) - (k - k) = (i - 0) + (h1 - h)
    BY <2>3
  <2>5. hist'.kept[p] = k /\ mem'.refs[p] = m
    BY <1>7, <2>2
  <2> QED
    BY <1>6, <2>1, <2>2, <2>3, <2>4, <2>5
<1>10. UNCHANGED req
  OBVIOUS
<1>11. /\ mem'.refs \in [UserPages -> Int] /\ "kept" \in DOMAIN hist' /\ hist'.kept \in [UserPages -> Int]
  BY <1>1, <1>7 DEF RefTypes
<1> QED
  BY <1>1, <1>4, <1>6, <1>8, <1>9, <1>10, <1>11, RowKeeps

\* Bio b is changed, and the worker holds what it held.
LEMMA RowStep ==
  ASSUME RefInv, FreshInv, pc # "BUG", UNCHANGED req, NEW b \in DOMAIN bios, NEW r,
         BioFields \subseteq DOMAIN r, bios' = [bios EXCEPT ![b] = r],
         r.chunks = bios[b].chunks, r.clean \subseteq DOMAIN r.chunks,
         mem'.refs \in [UserPages -> Int], "kept" \in DOMAIN hist', hist'.kept \in [UserPages -> Int],
         WorkerShape', \A p : Held(p)' = Held(p) /\ Held(p) \in Nat,
         \A p \in UserPages :
           (mem'.refs[p] - mem.refs[p]) - (hist'.kept[p] - hist.kept[p]) = LiveUses(p, r) - LiveUses(p, bios[b])
  PROVE  RefInv'
<1>1. bios \in Seq(ToSet(bios)) /\ \A c \in DOMAIN bios : BioFields \subseteq DOMAIN bios[c]
  BY DEF FreshInv
<1>2. b \in Nat
  BY <1>1
<1>3. /\ DOMAIN bios' = DOMAIN bios /\ bios'[b] = r
      /\ \A c \in DOMAIN bios \ {b} : bios'[c] = bios[c]
  BY <1>1, BiosElsewhere
<1>4. DOMAIN bios' = DOMAIN bios \cup {b}
  BY <1>3
<1>5. BiosListed
  BY DEF RefInv, RefTypes
<1>6. Listed(bios[b].chunks) /\ bios[b].clean \subseteq DOMAIN bios[b].chunks /\ Listed(r.chunks)
  BY <1>5 DEF BiosListed
<1>7. ASSUME NEW p \in UserPages
      PROVE  /\ Held(p) \in Int /\ Held(p)' \in Int
             /\ (mem'.refs[p] - mem.refs[p]) - (hist'.kept[p] - hist.kept[p])
                  = (LiveUses(p, r) - (IF b \in DOMAIN bios THEN LiveUses(p, bios[b]) ELSE 0))
                    + (Held(p)' - Held(p))
  <2>1. PICK h, u, v : h = Held(p) /\ u = LiveUses(p, bios[b]) /\ v = LiveUses(p, r)
    OBVIOUS
  <2>2. h \in Nat /\ u \in Nat /\ v \in Nat /\ Held(p)' = h
    BY <1>6, <2>1, LiveFinite
  <2>3. v - u = (v - u) + (h - h)
    BY <2>2
  <2> QED
    BY <2>1, <2>2, <2>3
<1>8. UNCHANGED req
  OBVIOUS
<1> QED
  BY <1>2, <1>3, <1>4, <1>6, <1>7, <1>8, RowKeeps

LEMMA ReleaseCounts ==
  ASSUME req \in Requests, NEW m, "refs" \in DOMAIN m, m.refs \in [UserPages -> Int],
         NEW r, Listed(r.chunks)
  PROVE  /\ release_pages(m, r).refs \in [UserPages -> Int]
         /\ \A p \in UserPages : release_pages(m, r).refs[p] = m.refs[p] - Uses(p, r.chunks, DOMAIN r.chunks)
<1>1. PICK g : g = IF req.rw = "READ" THEN bio_set_pages_dirty(m, r) ELSE m
  OBVIOUS
<1>2. "refs" \in DOMAIN g /\ g.refs = m.refs
  BY <1>1 DEF bio_set_pages_dirty, set_dirty
<1>3. release_pages(m, r) = put_pages(g, r.chunks, DOMAIN r.chunks)
  BY <1>1 DEF release_pages
<1>4. DOMAIN r.chunks \in SUBSET DOMAIN r.chunks
  OBVIOUS
<1>5. \A cs : \A I \in SUBSET DOMAIN cs : Listed(cs) =>
        /\ put_pages(g, cs, I).refs \in [UserPages -> Int]
        /\ \A p \in UserPages : put_pages(g, cs, I).refs[p] = g.refs[p] - Uses(p, cs, I)
  BY <1>2, RefCounts
<1> QED
  BY <1>2, <1>3, <1>4, <1>5

\* dio_bio_complete.
LEMMA CompleteRefs ==
  ASSUME Inv, RefInv, FreshInv, NEW r2, dio_bio_complete(r2), dio.bio_list # <<>>,
         pc \in {"reap", "await"}, UNCHANGED <<req, pc>>, "kept" \in DOMAIN hist', hist'.kept = hist.kept
  PROVE  RefInv'
<1>1. pc # "BUG" /\ RefTypes /\ req \in Requests /\ Running
  BY DEF RefInv, Inv
<1>2. Head(dio.bio_list) \in ended
  <2>1. dio.bio_list \in List(Nat) /\ ToSet(dio.bio_list) = ended
    BY <1>1 DEF Running, Counted
  <2> QED
    BY <2>1, TailList
<1>3. PICK b : b = Head(dio.bio_list)
  OBVIOUS
<1>4. /\ b \in DOMAIN bios /\ bios[b].state = "ended" /\ BioFields \subseteq DOMAIN bios[b]
      /\ bios' = [bios EXCEPT ![b].state = "put"] /\ mem' = release_pages(mem, bios[b])
  BY <1>2, <1>3 DEF dio_bio_complete, FreshInv, ended
<1>5. PICK r : r = [bios[b] EXCEPT !.state = "put"]
  OBVIOUS
<1>6. /\ bios' = [bios EXCEPT ![b] = r] /\ BioFields \subseteq DOMAIN r /\ r.state = "put"
      /\ r.chunks = bios[b].chunks /\ r.clean = bios[b].clean
  BY <1>4, <1>5 DEF BioFields
<1>7. Listed(bios[b].chunks) /\ bios[b].clean \subseteq DOMAIN bios[b].chunks
  BY <1>1, <1>4 DEF RefTypes, BiosListed
<1>8. "refs" \in DOMAIN mem /\ mem.refs \in [UserPages -> Int] /\ hist.kept \in [UserPages -> Int]
  BY <1>1 DEF FreshInv, MemFields, RefTypes
<1>9. /\ mem'.refs \in [UserPages -> Int]
      /\ \A p \in UserPages : mem'.refs[p] = mem.refs[p] - Uses(p, bios[b].chunks, DOMAIN bios[b].chunks)
  BY <1>1, <1>4, <1>7, <1>8, ReleaseCounts
<1>10. ASSUME NEW p \in UserPages
       PROVE  (mem'.refs[p] - mem.refs[p]) - (hist'.kept[p] - hist.kept[p]) = LiveUses(p, r) - LiveUses(p, bios[b])
  <2>1. LiveUses(p, r) = 0
    BY <1>6, EmptyCounts DEF LiveUses, Live
  <2>2. PICK u, m, k : u = LiveUses(p, bios[b]) /\ m = mem.refs[p] /\ k = hist.kept[p]
    OBVIOUS
  <2>3. u \in Nat /\ u = Uses(p, bios[b].chunks, DOMAIN bios[b].chunks) /\ m \in Int /\ k \in Int
    <3>1. LiveUses(p, bios[b]) \in Nat
      BY <1>7, LiveFinite
    <3>2. LiveUses(p, bios[b]) = Uses(p, bios[b].chunks, DOMAIN bios[b].chunks)
      BY <1>4 DEF LiveUses, Live
    <3> QED
      BY <1>8, <2>2, <3>1, <3>2
  <2>4. mem'.refs[p] = m - u /\ hist'.kept[p] = k
    BY <1>9, <2>2, <2>3
  <2>5. ((m - u) - m) - (k - k) = 0 - u
    BY <2>3
  <2> QED
    BY <2>1, <2>2, <2>4, <2>5
<1>11. WorkerShape' /\ \A p : Held(p)' = Held(p) /\ Held(p) \in Nat
  <2>1. CASE pc = "reap"
    <3>1. Working /\ DioShape(dio)
      BY <2>1, AtWork DEF Working, Sending
    <3>2. SamePages(dio, dio')
      <4>1. PICK d : d = dio'
        OBVIOUS
      <4>2. SamePages(dio, d)
        BY <3>1, <4>1 DEF dio_bio_complete, completed, SamePages, DioShape, PageFields
      <4> QED
        BY <4>1, <4>2
    <3> QED
      BY <1>1, <3>1, <3>2, HoldsOn
  <2>2. CASE pc = "await"
    <3>1. ~Working /\ ~Working'
      BY <2>2 DEF Working, Cutting, Sending
    <3> QED
      BY <1>1, <3>1, HoldsOn
  <2> QED
    BY <2>1, <2>2
<1>12. UNCHANGED req /\ "kept" \in DOMAIN hist' /\ hist'.kept \in [UserPages -> Int]
  BY <1>8
<1>13. r.clean \subseteq DOMAIN r.chunks
  BY <1>6, <1>7
<1>14. mem'.refs \in [UserPages -> Int] /\ b \in DOMAIN bios /\ pc # "BUG"
  BY <1>1, <1>4, <1>9
<1> QED
  BY <1>6, <1>10, <1>11, <1>12, <1>13, <1>14, RowStep

\* A step of the device or the work queue leaves the worker's fields alone.
LEMMA OthersHold ==
  ASSUME Inv, RefInv, pc # "BUG", UNCHANGED req, Working => dio' = dio \/ SamePages(dio, dio'),
         pc' = pc \/ (pc = "asleep" /\ pc' = "await")
  PROVE  WorkerShape' /\ \A p : Held(p)' = Held(p) /\ Held(p) \in Nat
<1>1. CASE Working
  <2>1. DioShape(dio) /\ pc' = pc
    BY <1>1, AtWork DEF Working, Cutting, Sending
  <2>2. SamePages(dio, dio')
    <3>1. SamePages(dio, dio)
      BY <2>1 DEF SamePages, DioShape
    <3>2. PICK d : d = dio'
      OBVIOUS
    <3>3. d = dio \/ SamePages(dio, d)
      BY <1>1, <3>2
    <3>4. SamePages(dio, d)
      BY <3>1, <3>3
    <3> QED
      BY <3>2, <3>4
  <2> QED
    BY <1>1, <2>1, <2>2, HoldsOn
<1>2. CASE ~Working
  <2>1. ~Working'
    BY <1>2 DEF Working, Cutting, Sending
  <2> QED
    BY <1>2, <2>1, HoldsOn
<1> QED
  BY <1>1, <1>2

\* bio_dirty_fn gives nothing back: the references it leaves are the ones kept.
LEMMA DirtyRefs ==
  ASSUME Inv, RefInv, FreshInv, pc # "BUG", NEW b \in DOMAIN bios, bio_dirty_fn(b)
  PROVE  RefInv'
<1>1. /\ UNCHANGED <<req, pc, dio>> /\ bios[b].state = "dirty" /\ BioFields \subseteq DOMAIN bios[b]
      /\ bios' = [bios EXCEPT ![b].state = "put"] /\ mem' = set_dirty(mem, bios[b], bios[b].clean)
      /\ hist' = [hist EXCEPT !.kept = [p \in UserPages |-> @[p] + Uses(p, bios[b].chunks, bios[b].clean)]]
  BY DEF bio_dirty_fn, FreshInv
<1>2. RefTypes
  BY DEF RefInv
<1>3. Listed(bios[b].chunks) /\ bios[b].clean \subseteq DOMAIN bios[b].chunks
  BY <1>2 DEF RefTypes, BiosListed
<1>4. PICK r : r = [bios[b] EXCEPT !.state = "put"]
  OBVIOUS
<1>5. /\ bios' = [bios EXCEPT ![b] = r] /\ BioFields \subseteq DOMAIN r /\ r.state = "put"
      /\ r.chunks = bios[b].chunks /\ r.clean = bios[b].clean
  BY <1>1, <1>4 DEF BioFields
<1>6. r.clean \subseteq DOMAIN r.chunks
  BY <1>3, <1>5
<1>7. mem'.refs = mem.refs /\ mem'.refs \in [UserPages -> Int]
  BY <1>1, <1>2 DEF set_dirty, FreshInv, MemFields, RefTypes
<1>8. \A p \in UserPages : /\ LiveUses(p, bios[b]) \in Nat /\ LiveUses(p, r) = 0
                           /\ Uses(p, bios[b].chunks, bios[b].clean) = LiveUses(p, bios[b])
  <2>1. \A p : LiveUses(p, bios[b]) \in Nat
    BY <1>3, LiveFinite
  <2>2. Live(bios[b]) = bios[b].clean /\ Live(r) = {}
    BY <1>1, <1>5 DEF Live
  <2> QED
    BY <2>1, <2>2, EmptyCounts DEF LiveUses
<1>9. /\ "kept" \in DOMAIN hist' /\ hist'.kept \in [UserPages -> Int]
      /\ \A p \in UserPages : hist'.kept[p] = hist.kept[p] + LiveUses(p, bios[b])
  <2>1. "kept" \in DOMAIN hist /\ hist.kept \in [UserPages -> Int]
    BY <1>2 DEF RefTypes
  <2>2. PICK K : K = [p \in UserPages |-> hist.kept[p] + Uses(p, bios[b].chunks, bios[b].clean)]
    OBVIOUS
  <2>3. "kept" \in DOMAIN hist' /\ hist'.kept = K
    BY <1>1, <2>1, <2>2
  <2> QED
    BY <1>8, <2>1, <2>2, <2>3
<1>10. ASSUME NEW p \in UserPages
       PROVE  (mem'.refs[p] - mem.refs[p]) - (hist'.kept[p] - hist.kept[p]) = LiveUses(p, r) - LiveUses(p, bios[b])
  <2>1. PICK u, m, k : u = LiveUses(p, bios[b]) /\ m = mem.refs[p] /\ k = hist.kept[p]
    OBVIOUS
  <2>2. u \in Nat /\ m \in Int /\ k \in Int
    BY <1>2, <1>8, <2>1 DEF RefTypes
  <2>3. mem'.refs[p] = m /\ hist'.kept[p] = k + u /\ LiveUses(p, r) = 0
    BY <1>7, <1>8, <1>9, <2>1
  <2>4. (m - m) - ((k + u) - k) = 0 - u
    BY <2>2
  <2> QED
    BY <2>1, <2>3, <2>4
<1>11. WorkerShape' /\ \A p : Held(p)' = Held(p) /\ Held(p) \in Nat
  BY <1>1, OthersHold
<1>12. UNCHANGED req
  BY <1>1
<1> QED
  BY <1>5, <1>6, <1>7, <1>9, <1>10, <1>11, <1>12, RowStep

\* What dio_bio_end_aio leaves of a bio, and how many references it gives back.
GivesBack(b, done) ==
  \E r : /\ bios' = [bios EXCEPT ![b] = r] /\ BioFields \subseteq DOMAIN r
         /\ r.chunks = done.chunks /\ r.clean \subseteq DOMAIN r.chunks
         /\ mem'.refs \in [UserPages -> Int]
         /\ \A p \in UserPages :
              /\ LiveUses(p, r) \in Nat /\ LiveUses(p, done) \in Nat
              /\ mem'.refs[p] = mem.refs[p] - (LiveUses(p, done) - LiveUses(p, r))

LEMMA EndaioCounts ==
  ASSUME Inv, FreshInv, RefTypes, NEW m, "refs" \in DOMAIN m, m.refs = mem.refs, NEW done,
         Listed(done.chunks), done.state = "flight", BioFields \subseteq DOMAIN done,
         NEW b, dio_bio_end_aio(dio, b, done, m)
  PROVE  GivesBack(b, done)
<1>1. PICK cs, m1 :
        /\ <<m1, cs>> = IF req.rw = "READ" THEN bio_check_pages_dirty(m, done) ELSE <<release_pages(m, done), {}>>
  BY DEF bio_check_pages_dirty
<1>2. PICK st : st = IF cs = {} THEN "put" ELSE "dirty"
  OBVIOUS
<1>3. PICK r : r = [done EXCEPT !.clean = cs, !.state = st]
  OBVIOUS
<1>4. bios' = [bios EXCEPT ![b] = r] /\ mem' = m1
  <2>1. PICK checked : checked = IF req.rw = "READ" THEN bio_check_pages_dirty(m, done)
                                 ELSE <<release_pages(m, done), {}>>
    OBVIOUS
  <2>2. checked[1] = m1 /\ checked[2] = cs
    BY <1>1, <2>1
  <2>3. /\ mem' = checked[1]
        /\ bios' = [bios EXCEPT ![b] = [done EXCEPT !.clean = checked[2],
                                                   !.state = IF checked[2] = {} THEN "put" ELSE "dirty"]]
    BY <2>1 DEF dio_bio_end_aio
  <2> QED
    BY <1>2, <1>3, <2>2, <2>3
<1>6. /\ BioFields \subseteq DOMAIN r /\ r.chunks = done.chunks /\ r.clean = cs
      /\ cs # {} => r.state = "dirty"
      /\ cs = {} => r.state = "put"
  BY <1>2, <1>3 DEF BioFields
<1>7. Live(r) = cs /\ Live(done) = DOMAIN done.chunks
  BY <1>6 DEF Live
<1>8. m.refs \in [UserPages -> Int] /\ req \in Requests
  BY DEF RefTypes, Inv
<1>9. /\ cs \in SUBSET DOMAIN done.chunks /\ m1.refs \in [UserPages -> Int]
      /\ \A p \in UserPages : m1.refs[p] = m.refs[p] - Uses(p, done.chunks, DOMAIN done.chunks \ cs)
  <2>1. CASE req.rw = "READ"
    <3>1. cs = Clean(m, done) /\ m1 = put_pages(m, done.chunks, DOMAIN done.chunks \ Clean(m, done))
      BY <1>1, <2>1 DEF bio_check_pages_dirty
    <3>2. cs \in SUBSET DOMAIN done.chunks /\ DOMAIN done.chunks \ cs \in SUBSET DOMAIN done.chunks
      BY <3>1 DEF Clean
    <3>3. \A qs : \A I \in SUBSET DOMAIN qs : Listed(qs) =>
            /\ put_pages(m, qs, I).refs \in [UserPages -> Int]
            /\ \A p \in UserPages : put_pages(m, qs, I).refs[p] = m.refs[p] - Uses(p, qs, I)
      BY <1>8, RefCounts
    <3>4. m1 = put_pages(m, done.chunks, DOMAIN done.chunks \ cs)
      BY <3>1
    <3> QED
      BY <3>2, <3>3, <3>4
  <2>2. CASE req.rw # "READ"
    <3>1. cs = {} /\ m1 = release_pages(m, done)
      BY <1>1, <2>2
    <3>2. /\ release_pages(m, done).refs \in [UserPages -> Int]
          /\ \A p \in UserPages : release_pages(m, done).refs[p] = m.refs[p] - Uses(p, done.chunks, DOMAIN done.chunks)
      BY <1>8, ReleaseCounts
    <3>3. DOMAIN done.chunks \ cs = DOMAIN done.chunks
      BY <3>1
    <3> QED
      BY <3>1, <3>2, <3>3
  <2> QED
    BY <2>1, <2>2
<1>10. ASSUME NEW p \in UserPages
       PROVE  /\ LiveUses(p, r) \in Nat /\ LiveUses(p, done) \in Nat
              /\ mem'.refs[p] = mem.refs[p] - (LiveUses(p, done) - LiveUses(p, r))
  <2>1. LiveUses(p, r) = Uses(p, done.chunks, cs) /\ LiveUses(p, done) = Uses(p, done.chunks, DOMAIN done.chunks)
    BY <1>6, <1>7 DEF LiveUses
  <2>2. PICK a, u, v, k : /\ a = Uses(p, done.chunks, DOMAIN done.chunks) /\ u = Uses(p, done.chunks, cs)
                          /\ v = Uses(p, done.chunks, DOMAIN done.chunks \ cs) /\ k = mem.refs[p]
    OBVIOUS
  <2>3. a \in Nat /\ u \in Nat /\ v \in Nat
    <3>1. /\ DOMAIN done.chunks \subseteq DOMAIN done.chunks /\ cs \subseteq DOMAIN done.chunks
          /\ DOMAIN done.chunks \ cs \subseteq DOMAIN done.chunks
      BY <1>9
    <3>2. \A I : I \subseteq DOMAIN done.chunks => Uses(p, done.chunks, I) \in Nat
      BY CountTypes
    <3> QED
      BY <2>2, <3>1, <3>2
  <2>4. a = u + v
    BY <1>9, <2>2, UsesSplit
  <2>5. k \in Int /\ mem'.refs[p] = k - v
    BY <1>4, <1>8, <1>9, <2>2
  <2>6. k - v = k - (a - u)
    BY <2>3, <2>4, <2>5
  <2> QED
    BY <2>1, <2>2, <2>3, <2>5, <2>6
<1>11. r.clean \subseteq DOMAIN r.chunks /\ mem'.refs \in [UserPages -> Int]
  BY <1>4, <1>6, <1>9
<1> QED
  BY <1>4, <1>6, <1>10, <1>11 DEF GivesBack

LEMMA EndioRefs ==
  ASSUME Inv, RefInv, FreshInv, pc # "BUG", NEW b \in DOMAIN bios, NEW n, NEW ok, bio_endio(b, n, ok)
  PROVE  RefInv'
<1>1. UNCHANGED <<req, hist>> /\ bios[b].state = "flight" /\ BioFields \subseteq DOMAIN bios[b]
  BY DEF bio_endio, InFlight, FreshInv
<1>2. RefTypes /\ Running
  BY DEF RefInv, Inv
<1>3. Listed(bios[b].chunks) /\ bios[b].clean \subseteq DOMAIN bios[b].chunks
  BY <1>2 DEF RefTypes, BiosListed
<1>4. PICK done : done = [bios[b] EXCEPT !.left = @ - n, !.ok = @ /\ ok]
  OBVIOUS
<1>5. /\ BioFields \subseteq DOMAIN done /\ done.chunks = bios[b].chunks /\ done.state = "flight"
      /\ done.clean = bios[b].clean
  BY <1>1, <1>4 DEF BioFields
<1>6. PICK m : m = IF req.rw = "READ" THEN [mem EXCEPT !.fresh = @ \cup (BioPages(done) \ {ZERO_PAGE})] ELSE mem
  OBVIOUS
<1>7. "refs" \in DOMAIN m /\ m.refs = mem.refs
  BY <1>6 DEF FreshInv, MemFields
<1>8. \A p : LiveUses(p, bios[b]) \in Nat
  BY <1>3, LiveFinite
<1>9. \A p \in UserPages : mem.refs[p] \in Int /\ hist.kept[p] \in Int
  BY <1>2 DEF RefTypes
<1>10. /\ mem.refs \in [UserPages -> Int] /\ "kept" \in DOMAIN hist' /\ hist'.kept \in [UserPages -> Int]
       /\ hist' = hist
  BY <1>1, <1>2 DEF RefTypes
<1>11. \/ bios' = [bios EXCEPT ![b] = done] /\ UNCHANGED <<pc, dio, mem>>
       \/ /\ bios' = [bios EXCEPT ![b] = [done EXCEPT !.state = "ended"]] /\ mem' = m
          /\ dio_bio_end_io(dio, b)
       \/ dio_bio_end_aio(dio, b, done, m)
  BY <1>4, <1>6 DEF bio_endio
<1>12. ASSUME NEW r, bios' = [bios EXCEPT ![b] = r], BioFields \subseteq DOMAIN r,
              r.chunks = bios[b].chunks, r.clean = bios[b].clean, r.state \in {"flight", "ended"},
              mem'.refs = mem.refs, WorkerShape', \A p : Held(p)' = Held(p) /\ Held(p) \in Nat
       PROVE  RefInv'
  <2>1. r.clean \subseteq DOMAIN r.chunks
    BY <1>3, <1>12
  <2>2. \A p : LiveUses(p, r) = LiveUses(p, bios[b])
    BY <1>1, <1>12 DEF LiveUses, Live
  <2>3. ASSUME NEW p \in UserPages
        PROVE  (mem'.refs[p] - mem.refs[p]) - (hist'.kept[p] - hist.kept[p])
                 = LiveUses(p, r) - LiveUses(p, bios[b])
    <3>1. PICK u, k, j : u = LiveUses(p, bios[b]) /\ k = mem.refs[p] /\ j = hist.kept[p]
      OBVIOUS
    <3>2. u \in Nat /\ k \in Int /\ j \in Int
      BY <1>8, <1>9, <3>1
    <3>3. (k - k) - (j - j) = u - u
      BY <3>2
    <3>4. mem'.refs[p] = k /\ hist'.kept[p] = j /\ LiveUses(p, r) = u
      BY <1>10, <1>12, <2>2, <3>1
    <3> QED
      BY <3>1, <3>3, <3>4
  <2>4. UNCHANGED req /\ mem'.refs \in [UserPages -> Int]
    BY <1>1, <1>10, <1>12
  <2> QED
    BY <1>10, <1>12, <2>1, <2>3, <2>4, RowStep
<1>13. CASE bios' = [bios EXCEPT ![b] = done] /\ UNCHANGED <<pc, dio, mem>>
  <2>1. WorkerShape' /\ \A p : Held(p)' = Held(p) /\ Held(p) \in Nat
    BY <1>1, <1>13, OthersHold
  <2> QED
    BY <1>5, <1>12, <1>13, <2>1
<1>14. CASE /\ bios' = [bios EXCEPT ![b] = [done EXCEPT !.state = "ended"]] /\ mem' = m
            /\ dio_bio_end_io(dio, b)
  <2>1. PICK r : r = [done EXCEPT !.state = "ended"]
    OBVIOUS
  <2>2. /\ BioFields \subseteq DOMAIN r /\ r.state = "ended" /\ r.chunks = bios[b].chunks
        /\ r.clean = bios[b].clean
    BY <1>5, <2>1 DEF BioFields
  <2>3. PICK d : d = dio'
    OBVIOUS
  <2>4. pc' = pc \/ (pc = "asleep" /\ pc' = "await")
    <3>1. dio.waiter => pc = "asleep"
      BY <1>2 DEF Running, Placed
    <3>2. PICK e : e = [dio EXCEPT !.bio_list = <<b>> \o @, !.bios_in_flight = @ - 1]
      OBVIOUS
    <3>3. e.waiter = dio.waiter
      BY <1>2, <3>2 DEF Running, Begun, Fields
    <3>4. pc' = IF e.waiter /\ e.bios_in_flight = 0 THEN "await" ELSE pc
      BY <1>14, <3>2 DEF dio_bio_end_io
    <3> QED
      BY <3>1, <3>3, <3>4
  <2>5. Working => SamePages(dio, d)
    <3>1. SUFFICES ASSUME Working PROVE SamePages(dio, d)
      OBVIOUS
    <3>2. DioShape(dio)
      BY <3>1, AtWork
    <3> QED
      BY <1>14, <2>3, <3>2 DEF dio_bio_end_io, SamePages, DioShape, PageFields
  <2>6. WorkerShape' /\ \A p : Held(p)' = Held(p) /\ Held(p) \in Nat
    BY <1>1, <2>3, <2>4, <2>5, OthersHold
  <2>7. bios' = [bios EXCEPT ![b] = r] /\ mem'.refs = mem.refs
    BY <1>7, <1>14, <2>1
  <2> QED
    BY <1>12, <2>2, <2>6, <2>7
<1>15. CASE dio_bio_end_aio(dio, b, done, m)
  <2>1. GivesBack(b, done)
    <3>1. Listed(done.chunks) /\ done.state = "flight" /\ "refs" \in DOMAIN m /\ m.refs = mem.refs
      BY <1>3, <1>5, <1>7
    <3> QED
      BY <1>2, <1>5, <1>15, <3>1, EndaioCounts
  <2>2. PICK r :
          /\ bios' = [bios EXCEPT ![b] = r] /\ BioFields \subseteq DOMAIN r
          /\ r.chunks = done.chunks /\ r.clean \subseteq DOMAIN r.chunks
          /\ mem'.refs \in [UserPages -> Int]
          /\ \A p \in UserPages :
               /\ LiveUses(p, r) \in Nat /\ LiveUses(p, done) \in Nat
               /\ mem'.refs[p] = mem.refs[p] - (LiveUses(p, done) - LiveUses(p, r))
    BY <2>1 DEF GivesBack
  <2>3. \A p : LiveUses(p, done) = LiveUses(p, bios[b])
    BY <1>1, <1>5 DEF LiveUses, Live
  <2>4. ASSUME NEW p \in UserPages
        PROVE  (mem'.refs[p] - mem.refs[p]) - (hist'.kept[p] - hist.kept[p])
                 = LiveUses(p, r) - LiveUses(p, bios[b])
    <3>1. PICK u, v, k, j : /\ u = LiveUses(p, bios[b]) /\ v = LiveUses(p, r)
                            /\ k = mem.refs[p] /\ j = hist.kept[p]
      OBVIOUS
    <3>2. u \in Nat /\ v \in Nat /\ k \in Int /\ j \in Int
      BY <1>8, <1>9, <2>2, <3>1
    <3>3. ((k - (u - v)) - k) - (j - j) = v - u
      BY <3>2
    <3>4. mem'.refs[p] = k - (u - v) /\ hist'.kept[p] = j
      BY <1>10, <2>2, <2>3, <3>1
    <3> QED
      BY <3>1, <3>3, <3>4
  <2>5. WorkerShape' /\ \A p : Held(p)' = Held(p) /\ Held(p) \in Nat
    <3>1. PICK d : d = dio'
      OBVIOUS
    <3>2. Working => SamePages(dio, d)
      <4>1. SUFFICES ASSUME Working PROVE SamePages(dio, d)
        OBVIOUS
      <4>2. DioShape(dio)
        BY <4>1, AtWork
      <4> QED
        BY <1>15, <3>1, <4>2 DEF dio_bio_end_aio, completed, SamePages, DioShape, PageFields
    <3>3. pc' = pc
      BY <1>15 DEF dio_bio_end_aio
    <3> QED
      BY <1>1, <3>1, <3>2, <3>3, OthersHold
  <2>6. UNCHANGED req /\ r.chunks = bios[b].chunks
    BY <1>1, <1>5, <2>2
  <2> QED
    BY <1>10, <2>2, <2>4, <2>5, <2>6, RowStep
<1> QED
  BY <1>11, <1>13, <1>14, <1>15

(***************************************************************************)
(* The rest of the steps                                                   *)
(***************************************************************************)
\* A step outside the worker's part, without any reference.
LEMMA IdleRefs ==
  ASSUME RefInv, pc # "BUG", ~Working, ~Working', UNCHANGED <<req, bios, hist>>, mem'.refs = mem.refs
  PROVE  RefInv'
<1>1. WorkerShape' /\ \A p : Held(p)' = Held(p)
  BY HoldsOn
<1>2. "kept" \in DOMAIN hist' /\ hist'.kept = hist.kept
  BY DEF RefInv, RefTypes
<1> QED
  BY <1>1, <1>2, NoneMove

LEMMA SendStepRefs ==
  ASSUME Inv, RefInv, FreshInv, dio_send_cur_page
  PROVE  RefInv'
<1>1. CASE must_submit(dio)
  <2>1. /\ pc = "send" /\ pc' = "new" /\ dio_bio_submit(dio) /\ dio.bio # NONE
        /\ UNCHANGED <<req, hist>>
    BY <1>1 DEF dio_send_cur_page, must_submit, Goto
  <2>2. Working
    BY <2>1 DEF Working, Sending
  <2> QED
    BY <2>1, <2>2, SubmitRefs
<1> QED
  BY <1>1, SendRefs

LEMMA AddStepRefs ==
  ASSUME Inv, RefInv, FreshInv, dio_bio_add_page
  PROVE  RefInv'
<1>1. CASE ~bio_add_page(dio.bio[1], dio.cur[1])
  <2>1. /\ pc = "add" /\ pc' \in {"new", "BUG"} /\ dio_bio_submit(dio) /\ UNCHANGED <<req, hist>>
    BY <1>1 DEF dio_bio_add_page, Goto
  <2>2. Working
    BY <2>1 DEF Working, Sending
  <2>3. dio.bio # NONE
    BY <2>1, <2>2, AtWork DEF Present
  <2> QED
    BY <2>1, <2>2, <2>3, SubmitRefs, BugRefs
<1> QED
  BY <1>1, JoinRefs

LEMMA FlushRefs ==
  ASSUME Inv, RefInv, FreshInv, submit_last
  PROVE  RefInv'
<1>1. pc = "flush" /\ pc' = "put" /\ UNCHANGED <<req, hist>>
  BY DEF submit_last, Goto
<1>2. Working /\ ~Working'
  BY <1>1 DEF Working, Cutting, Sending
<1>3. CASE dio.bio # NONE
  BY <1>1, <1>2, <1>3, SubmitRefs DEF submit_last
<1>4. CASE dio.bio = NONE
  <2>1. UNCHANGED <<bios, mem>>
    BY <1>4 DEF submit_last
  <2>2. DioShape(dio) /\ Present(pc, dio) /\ RefTypes /\ pc # "BUG"
    BY <1>2, AtWork
  <2>3. ~AtPage(pc, dio)
    BY <1>1 DEF AtPage, Sending
  <2>4. dio.cur = NONE /\ dio.pages = <<>>
    BY <1>1, <2>2, <2>3 DEF Present
  <2>5. \A p : Queue(p, dio) = 0 /\ InBio(p, dio) = 0 /\ OnCur(p, dio) = 0 /\ OnPage(p, pc, dio) = 0
    BY <1>4, <2>3, <2>4, EmptyCounts DEF Queue, InBio, OnCur, OnPage
  <2>6. \A p : Total(p, pc, dio) = 0
    BY <2>5 DEF Total
  <2>7. \A p : Held(p) = 0 /\ Held(p)' = 0
    BY <1>2, <2>6 DEF Held
  <2>8. WorkerShape'
    BY <1>2 DEF WorkerShape
  <2>9. "kept" \in DOMAIN hist' /\ hist'.kept = hist.kept /\ mem'.refs = mem.refs /\ UNCHANGED <<req, bios>>
    BY <1>1, <2>1, <2>2 DEF RefTypes
  <2>10. \A p : Held(p)' = Held(p)
    BY <2>7
  <2> QED
    BY <2>2, <2>8, <2>9, <2>10, NoneMove
<1> QED
  BY <1>3, <1>4

LEMMA ReapRefs ==
  ASSUME Inv, RefInv, FreshInv, dio_bio_reap
  PROVE  RefInv'
<1>1. CASE dio.bio_list # <<>>
  <2>1. /\ pc = "reap" /\ UNCHANGED <<req, pc>> /\ dio_bio_complete(ret_of_first)
        /\ hist' = [hist EXCEPT !.masked = @ \/ (dio.ret2 # 0 /\ bios[Head(dio.bio_list)].ok)]
    BY <1>1 DEF dio_bio_reap
  <2>2. "kept" \in DOMAIN hist
    BY <2>1 DEF RefInv, RefTypes
  <2>3. "kept" \in DOMAIN hist' /\ hist'.kept = hist.kept
    BY <2>1, <2>2
  <2>4. PICK r2 : r2 = ret_of_first
    OBVIOUS
  <2> QED
    BY <1>1, <2>1, <2>3, <2>4, CompleteRefs
<1> QED
  BY <1>1, ReapedRefs

LEMMA PutRefs ==
  ASSUME RefInv, put_share
  PROVE  RefInv'
<1>1. pc = "put" /\ pc' \in {"done", "await"} /\ UNCHANGED <<req, bios, mem, hist>>
  BY DEF put_share, Goto
<1> QED
  BY <1>1, IdleRefs DEF Working, Cutting, Sending

LEMMA AwaitRefs ==
  ASSUME Inv, RefInv, FreshInv, dio_await_completion
  PROVE  RefInv'
<1>1. pc = "await" /\ UNCHANGED <<req, hist>>
  BY DEF dio_await_completion
<1>2. \/ pc' \in {"done", "asleep"} /\ UNCHANGED <<bios, mem>>
      \/ /\ dio.bio_list # <<>> /\ UNCHANGED pc
         /\ dio_bio_complete(IF dio.ret2 = 0 THEN ret_of_first ELSE dio.ret2)
  BY DEF dio_await_completion, Goto
<1>3. CASE pc' \in {"done", "asleep"} /\ UNCHANGED <<bios, mem>>
  BY <1>1, <1>3, IdleRefs DEF Working, Cutting, Sending
<1>4. CASE /\ dio.bio_list # <<>> /\ UNCHANGED pc
           /\ dio_bio_complete(IF dio.ret2 = 0 THEN ret_of_first ELSE dio.ret2)
  <2>1. "kept" \in DOMAIN hist' /\ hist'.kept = hist.kept
    BY <1>1 DEF RefInv, RefTypes
  <2>2. PICK r2 : r2 = IF dio.ret2 = 0 THEN ret_of_first ELSE dio.ret2
    OBVIOUS
  <2> QED
    BY <1>1, <1>4, <2>1, <2>2, CompleteRefs
<1> QED
  BY <1>2, <1>3, <1>4

LEMMA StartRefs ==
  ASSUME Inv, RefInv, blockdev_direct_IO
  PROVE  RefInv'
<1>1. pc = "start" /\ UNCHANGED <<req, bios, mem, hist>>
  BY DEF blockdev_direct_IO
<1>2. ~Working /\ pc # "BUG"
  BY <1>1 DEF Working, Cutting, Sending
<1>3. CASE pc' = "done"
  BY <1>1, <1>2, <1>3, IdleRefs DEF Working, Cutting, Sending
<1>4. CASE pc' = "segment" /\ \E new \in BOOLEAN : dio' = new_dio(blkbits(req)[1], new)
  <2>1. PICK bs, new : dio' = new_dio(bs, new)
    BY <1>4
  <2>2. PICK d : d = dio'
    OBVIOUS
  <2>3. /\ PageFields \subseteq DOMAIN d /\ d.pages = <<>> /\ d.bio = NONE /\ d.cur = NONE /\ d.arg = NONE
        /\ d.seg = 0 /\ d.curr_page = 0
    <3>1. /\ PageFields \subseteq DOMAIN dio' /\ dio'.pages = <<>> /\ dio'.bio = NONE /\ dio'.cur = NONE
          /\ dio'.arg = NONE /\ dio'.seg = 0 /\ dio'.curr_page = 0
      BY <2>1 DEF new_dio, PageFields
    <3> QED
      BY <2>2, <3>1
  <2>4. Len(req.segs) \in Nat
    BY DirectIOAssumption DEF Inv, Request
  <2>5. DioShape(d)
    BY <2>3, <2>4, EmptyCounts DEF DioShape, OneChunk
  <2>6. ~AtPage("segment", d)
    BY DEF AtPage, Sending
  <2>7. Present("segment", d)
    BY <2>3, <2>6 DEF Present, Sending
  <2>8. dio' = d /\ pc' = "segment"
    BY <1>4, <2>2
  <2>9. WorkerShape' /\ \A p : Total(p, pc, dio)' = Total(p, pc', dio')
    BY <1>1, <2>5, <2>7, <2>8, HeldPrimed
  <2>10. \A p : Queue(p, d) = 0 /\ InBio(p, d) = 0 /\ OnCur(p, d) = 0 /\ OnPage(p, "segment", d) = 0
    BY <2>3, <2>6, EmptyCounts DEF Queue, InBio, OnCur, OnPage
  <2>11. \A p : Total(p, pc', dio') = 0
    BY <2>8, <2>10 DEF Total
  <2>12. \A p : Held(p)' = Held(p)
    BY <1>2, <2>9, <2>11 DEF Held
  <2>13. "kept" \in DOMAIN hist' /\ hist'.kept = hist.kept /\ mem'.refs = mem.refs /\ UNCHANGED <<req, bios>>
    BY <1>1, <1>2 DEF RefInv, RefTypes
  <2> QED
    BY <1>2, <2>9, <2>12, <2>13, NoneMove
<1> QED
  BY <1>3, <1>4 DEF blockdev_direct_IO, Refuse, Goto

LEMMA WritebackRefs ==
  ASSUME Inv, RefInv, FreshInv, pc # "BUG", NEW p, Writeback(p)
  PROVE  RefInv'
<1>1. UNCHANGED <<req, pc, dio, bios, hist>> /\ mem'.refs = mem.refs
  BY DEF Writeback, FreshInv, MemFields
<1>2. WorkerShape' /\ \A q : Held(q)' = Held(q) /\ Held(q) \in Nat
  BY <1>1, OthersHold
<1>3. "kept" \in DOMAIN hist' /\ hist'.kept = hist.kept
  BY <1>1 DEF RefInv, RefTypes
<1> QED
  BY <1>1, <1>2, <1>3, NoneMove

\* After a BUG_ON the worker is gone.
LEMMA BugStays ==
  ASSUME Inv, pc = "BUG", Next
  PROVE  pc' = "BUG"
<1>1. ~Worker
  <2>1. ~blockdev_direct_IO /\ ~next_segment /\ ~dio_get_page /\ ~end_segment /\ ~get_more_blocks
    BY DEF blockdev_direct_IO, next_segment, dio_get_page, end_segment, get_more_blocks
  <2>2. ~zero_start /\ ~queue_chunk /\ ~section_done /\ ~submit_page_section /\ ~cur_page_sent
    BY DEF zero_start, queue_chunk, section_done, submit_page_section, cur_page_sent
  <2>3. ~dio_send_cur_page /\ ~dio_new_bio /\ ~dio_bio_reap /\ ~dio_bio_add_page
    BY DEF dio_send_cur_page, dio_new_bio, dio_bio_reap, dio_bio_add_page
  <2>4. ~pad_end /\ ~send_last /\ ~submit_last /\ ~put_share /\ ~dio_await_completion
    BY DEF pad_end, send_last, submit_last, put_share, dio_await_completion
  <2> QED
    BY <2>1, <2>2, <2>3, <2>4 DEF Worker
<1>2. Running
  BY DEF Inv
<1>3. ASSUME NEW b \in DOMAIN bios, NEW n, NEW ok, bio_endio(b, n, ok)
      PROVE  pc' = "BUG"
  <2>1. pc' = pc \/ dio_bio_end_io(dio, b)
    BY <1>3 DEF bio_endio, dio_bio_end_aio
  <2>2. CASE dio_bio_end_io(dio, b)
    <3>1. PICK e : e = [dio EXCEPT !.bio_list = <<b>> \o @, !.bios_in_flight = @ - 1]
      OBVIOUS
    <3>2. e.waiter = dio.waiter /\ ~dio.waiter
      BY <1>2, <3>1 DEF Running, Begun, Fields, Placed
    <3>3. pc' = IF e.waiter /\ e.bios_in_flight = 0 THEN "await" ELSE pc
      BY <2>2, <3>1 DEF dio_bio_end_io
    <3> QED
      BY <3>2, <3>3
  <2> QED
    BY <2>1, <2>2
<1>4. ASSUME NEW b, bio_dirty_fn(b) PROVE pc' = "BUG"
  BY <1>4 DEF bio_dirty_fn
<1>5. ASSUME NEW p, Writeback(p) PROVE pc' = "BUG"
  BY <1>5 DEF Writeback
<1> QED
  BY <1>1, <1>3, <1>4, <1>5 DEF Next, Device

LEMMA NextRefs ==
  ASSUME Inv, FreshInv, RefInv, [Next]_vars
  PROVE  RefInv'
<1>1. CASE Next /\ pc = "BUG"
  BY <1>1, BugStays, BugRefs
<1>2. CASE Worker
  BY <1>2, StartRefs, SegmentRefs, PageRefs, EndRefs, BlocksRefs, ZeroRefs, DataRefs, SectionDoneRefs,
     SectionRefs, SentRefs, SendStepRefs, NewBioRefs, ReapRefs, AddStepRefs, PadRefs, LastRefs, FlushRefs,
     PutRefs, AwaitRefs DEF Worker
<1>3. ASSUME NEW b \in DOMAIN bios, Device(b) \/ bio_dirty_fn(b), pc # "BUG" PROVE RefInv'
  BY <1>3, EndioRefs, DirtyRefs DEF Device
<1>4. ASSUME NEW p, Writeback(p), pc # "BUG" PROVE RefInv'
  BY <1>4, WritebackRefs
<1>5. CASE UNCHANGED vars
  <2>1. UNCHANGED <<req, pc, dio, bios, mem, hist>>
    BY <1>5 DEF vars
  <2>2. CASE pc = "BUG"
    BY <2>1, <2>2, BugRefs
  <2>3. CASE pc # "BUG"
    <3>1. WorkerShape' /\ \A p : Held(p)' = Held(p) /\ Held(p) \in Nat
      BY <2>1, <2>3, OthersHold
    <3>2. "kept" \in DOMAIN hist' /\ hist'.kept = hist.kept
      BY <2>1, <2>3 DEF RefInv, RefTypes
    <3> QED
      BY <2>1, <2>3, <3>1, <3>2, NoneMove
  <2> QED
    BY <2>2, <2>3
<1> QED
  BY <1>1, <1>2, <1>3, <1>4, <1>5 DEF Next

LEMMA InitRefs ==
  ASSUME Init
  PROVE  RefInv
<1>1. pc = "start" /\ bios = <<>> /\ req \in Requests
  BY DEF Init
<1>2. ~Working
  BY <1>1 DEF Working, Cutting, Sending
<1>3. /\ mem.refs = [p \in UserPages |-> 0] /\ "kept" \in DOMAIN hist
      /\ hist.kept = [p \in UserPages |-> 0]
  BY DEF Init
<1>4. RefTypes
  BY <1>1, <1>3 DEF RefTypes, BiosListed
<1>5. \A p : InBios(p) = {} /\ Held(p) = 0
  BY <1>1, <1>2 DEF InBios, Pairs, Held
<1>6. IsFiniteSet({}) /\ Cardinality({}) = 0
  BY FS_EmptySet
<1>7. ASSUME NEW p \in UserPages PROVE Balanced(p)
  <2>1. mem.refs[p] = 0 /\ hist.kept[p] = 0
    BY <1>3
  <2>2. 0 = 0 + 0 + 0
    OBVIOUS
  <2> QED
    BY <1>5, <1>6, <2>1, <2>2 DEF Balanced
<1> QED
  BY <1>2, <1>4, <1>7 DEF RefInv

\* At the end nothing has a reference any more but what counts as kept.
LEMMA RestReleases ==
  ASSUME RefInv
  PROVE  PagesReleased
<1>1. SUFFICES ASSUME AtRest PROVE mem.refs = hist.kept
  BY DEF PagesReleased
<1>2. pc = "done" /\ \A b \in DOMAIN bios : bios[b].state = "put"
  BY <1>1 DEF AtRest
<1>3. ~Working
  BY <1>2 DEF Working, Cutting, Sending
<1>4. /\ mem.refs \in [UserPages -> Int] /\ hist.kept \in [UserPages -> Int]
      /\ \A p \in UserPages : Balanced(p)
  BY <1>2 DEF RefInv, RefTypes
<1>5. \A p : Held(p) = 0
  BY <1>3 DEF Held
<1>6. \A p : InBios(p) = {}
  BY <1>2 DEF InBios, Pairs, Row, Live
<1>7. ASSUME NEW p \in UserPages PROVE mem.refs[p] = hist.kept[p]
  <2>1. mem.refs[p] = hist.kept[p] + Cardinality(InBios(p)) + Held(p)
    BY <1>4 DEF Balanced
  <2>2. Cardinality(InBios(p)) = 0 /\ Held(p) = 0
    BY <1>5, <1>6, FS_EmptySet
  <2>3. PICK k : k = hist.kept[p] /\ k \in Int
    BY <1>4
  <2>4. k + 0 + 0 = k
    BY <2>3
  <2> QED
    BY <2>1, <2>2, <2>3, <2>4
<1> QED
  BY <1>4, <1>7

\* References on the user's pages are taken and dropped in pairs on every path through the
\* worker, the completion handlers and bio_dirty_fn, whatever the request and however the
\* device's completions fall: when the request and its bios are done with, the pages still
\* pinned are exactly those counted in kept.
THEOREM ReferencesBalanced == Spec => []PagesReleased
<1>1. Init => Inv /\ FreshInv /\ RefInv
  BY InitInv, InitFresh, InitRefs
<1>2. (Inv /\ FreshInv /\ RefInv) /\ [Next]_vars => (Inv /\ FreshInv /\ RefInv)'
  BY NextInv, NextFresh, NextRefs
<1>3. Inv /\ FreshInv /\ RefInv => PagesReleased
  BY RestReleases
<1> QED
  BY <1>1, <1>2, <1>3, PTL DEF Spec

=============================================================================
