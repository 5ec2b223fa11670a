------------------------------ MODULE DirectIO ------------------------------
(***************************************************************************)
(* fs/direct-io.c and the parts of fs/bio.c it uses: one O_DIRECT request, *)
(* from blockdev_direct_IO to its completion.  The worker pins the pages   *)
(* of the user, maps blocks of the file, cuts the request into bios and    *)
(* submits them; the device ends bios at any time.  A synchronous request  *)
(* collects them from a list, an asynchronous one is completed by whoever  *)
(* takes bio_count to zero.                                                *)
(*                                                                         *)
(* Positions and lengths are in hard sectors.  dio.bs is 1 << blkbits, the *)
(* unit the request is aligned to: a file system block or a sector.        *)
(***************************************************************************)
EXTENDS Integers, Sequences, SequencesExt, FiniteSets, FiniteSetsExt

CONSTANTS
  Requests,      \* the requests to start from, see Request
  PageSectors,   \* sectors in a page
  InodeBlk,      \* sectors in a block of the file system, 1 << i_blkbits
  DIO_PAGES,     \* pages pinned at a time (64)
  NrVecs,        \* bio_get_nr_vecs: pages the device takes in one bio
  MaxSectors,    \* q->max_sectors
  ReapLimit,     \* calls of dio_bio_reap between two that look (64)
  SectorBytes    \* bytes of a sector; more than any errno

NONE == <<>>
ZERO_PAGE == <<0, 0>>
EIO == 5
ENOMEM == 12
EFAULT == 14
EINVAL == 22

\* A page <<seg, k>> is page k of the buffer of segment seg.  map[b] is the place of
\* block b of the file on disk; for a hole it is where a write would allocate it.  From
\* page bad on, the buffer is not mapped.
Request ==
  [rw : {"READ", "WRITE"}, async : BOOLEAN, bdev : BOOLEAN, offset : Nat, odd : BOOLEAN,
   segs : Seq([first : Nat, len : Nat]), map : Seq([disk : Nat, hole : BOOLEAN]), i_size : Nat,
   bad : {NONE} \cup (Nat \X Nat)]

ASSUME DirectIOAssumption ==
  /\ Requests \subseteq Request
  /\ PageSectors \in Nat \ {0} /\ InodeBlk \in 1 .. PageSectors
  /\ DIO_PAGES \in Nat \ {0} /\ NrVecs \in Nat \ {0} /\ ReapLimit \in Nat
  \* blk_queue_max_sectors leaves room for a page
  /\ MaxSectors \in Nat /\ MaxSectors >= PageSectors
  /\ SectorBytes \in Nat /\ SectorBytes > EINVAL

VARIABLES
  req,       \* the request
  pc,        \* where the worker is
  dio,       \* struct dio, the worker's locals included
  bios,      \* every bio submitted, in order: chunks, left (bi_size), ok (BIO_UPTODATE),
             \* clean (places of the pages left to bio_dirty_fn), state
  mem,       \* page references, dirty bits, pages of the buffer with data no one has
             \* written back
  outcome,   \* what the caller was told
  hist       \* what properties look at: filled, fresh_blocks, kept, masked

vars == <<req, pc, dio, bios, mem, outcome, hist>>

(***************************************************************************)
(* The request                                                             *)
(***************************************************************************)
SegLen(r, s) == r.segs[s].len
SegStart(r, s) == r.offset + MapThenSumSet(LAMBDA i : SegLen(r, i), 1 .. s - 1)
Asked(r) == r.offset .. SegStart(r, Len(r.segs) + 1) - 1
\* Where sector f of the file is on disk; nowhere past the last block.
Disk(r, f) == IF f \div InodeBlk < Len(r.map)
              THEN (r.map[(f \div InodeBlk) + 1].disk * InodeBlk) + (f % InodeBlk) ELSE -InodeBlk

\* The unit of alignment: the file system's block if the request allows it, or else the
\* device's sector; <<>> when not even that will do (odd) or the device is unknown.
Aligned(r, n) == /\ ~r.odd /\ r.offset % n = 0
                 /\ \A s \in DOMAIN r.segs : r.segs[s].first % n = 0 /\ r.segs[s].len % n = 0
blkbits(r) ==
  IF Aligned(r, InodeBlk) THEN <<InodeBlk>> ELSE IF r.bdev /\ Aligned(r, 1) THEN <<1>> ELSE <<>>

\* Pages the segment touches.  Without the first page bytes may be less than zero, and the
\* sum of the code wraps around to the same quotient.
nr_pages(g) ==
  IF g.first % PageSectors = 0 THEN (g.len + PageSectors - 1) \div PageSectors
  ELSE 1 + (g.len - (PageSectors - g.first) + PageSectors - 1) \div PageSectors
\* The pages of the user's buffer.
UserPages == UNION {{s} \X (0 .. nr_pages(req.segs[s]) - 1) : s \in DOMAIN req.segs}

(***************************************************************************)
(* Pages                                                                   *)
(***************************************************************************)
\* ZERO_PAGE is reserved: get and release leave it alone.
page_cache_get(m, p) == IF p = ZERO_PAGE THEN m ELSE [m EXCEPT !.refs[p] = @ + 1]
page_cache_release(m, p) == IF p = ZERO_PAGE THEN m ELSE [m EXCEPT !.refs[p] = @ - 1]

\* How often page p is in the list ps, and among the chunks of cs at the places I.
Times(p, ps) == Cardinality({i \in DOMAIN ps : ps[i] = p})
Uses(p, cs, I) == Cardinality({i \in I : cs[i].page = p})

BioPages(b) == {b.chunks[i].page : i \in DOMAIN b.chunks}
\* page_cache_release for the pages of the chunks at the places I.
put_pages(m, cs, I) == [m EXCEPT !.refs = [p \in UserPages |-> @[p] - Uses(p, cs, I)]]

\* get_user_pages is external: it pins the pages up to the first that is not mapped.
get_user_pages(r, seg, from, n) ==
  LET bad(k) == r.bad # NONE /\ r.bad[1] = seg /\ k >= r.bad[2]
      good == {k \in from .. from + n - 1 : \A j \in from .. k : ~bad(j)}
  IN IF good = {} THEN <<>> ELSE [i \in 1 .. Cardinality(good) |-> <<seg, from + i - 1>>]

(***************************************************************************)
(* Blocks of the file                                                      *)
(***************************************************************************)
\* get_blocks is external: an extent of 1 to count blocks, all of them old or all new and
\* next to each other on disk; a hole, for a read; or an error.
get_blocks(r, b, count) ==
  LET same(n) == \A i \in 1 .. n - 1 : /\ r.map[b + i + 1].hole = r.map[b + 1].hole
                                       /\ r.map[b + i + 1].disk = r.map[b + 1].disk + i
      bh(n, bd) == [err |-> 0, mapped |-> TRUE, new |-> r.map[b + 1].hole, boundary |-> bd,
                    blocknr |-> r.map[b + 1].disk, size |-> n]
      none(e) == [err |-> e, mapped |-> FALSE, new |-> FALSE, boundary |-> FALSE,
                  blocknr |-> 0, size |-> 0]
  IN IF r.rw = "READ" /\ (b >= Len(r.map) \/ r.map[b + 1].hole) THEN {none(0), none(-EIO)}
     ELSE {none(-EIO)} \cup
          {bh(n, bd) : bd \in BOOLEAN, n \in {m \in 1 .. count : b + m <= Len(r.map) /\ same(m)}}

(***************************************************************************)
(* Bios                                                                    *)
(***************************************************************************)
\* bvec_alloc rounds up to the next pool; a bio never holds more pages than max_vecs.
max_vecs(n) == IF n = 1 THEN 1 ELSE IF n <= 4 THEN 4 ELSE n
ChunkSum(cs) == MapThenSumSet(LAMBDA i : cs[i].len, DOMAIN cs)

bio_add_page(bio, c) ==
  /\ Len(bio.chunks) < bio.max_vecs
  /\ ChunkSum(bio.chunks) + c.len <= MaxSectors
  /\ Len(bio.chunks) < NrVecs

\* set_page_dirty for the pages of b at the places I.
set_dirty(m, b, I) == [m EXCEPT !.dirty = @ \cup ({b.chunks[i].page : i \in I} \ {ZERO_PAGE})]
bio_set_pages_dirty(m, b) == set_dirty(m, b, DOMAIN b.chunks)

\* What bio_check_pages_dirty leaves for bio_dirty_fn: the places whose page is clean.
Clean(m, b) ==
  {i \in DOMAIN b.chunks : b.chunks[i].page # ZERO_PAGE /\ b.chunks[i].page \notin m.dirty}

\* Mutant: a page that was written back during the read is not dirtied again.
bio_check_pages_dirty_drops(m, b) == <<put_pages(m, b.chunks, DOMAIN b.chunks), {}>>
\* The memory afterwards, and the places bio_dirty_fn has to deal with.
bio_check_pages_dirty(m, b) ==
  <<put_pages(m, b.chunks, DOMAIN b.chunks \ Clean(m, b)), Clean(m, b)>>


(***************************************************************************)
(* Completion                                                              *)
(***************************************************************************)
InFlight(b) == bios[b].state = "flight"

\* dio_bio_complete, but for the pages: an error is kept in result, and bio_count drops.
completed(d, ok) == [d EXCEPT !.result = IF ok THEN @ ELSE -EIO, !.bio_count = @ - 1]

\* The pages of a bio of a synchronous request, or of a write, are let go at once.
release_pages(m, b) ==
  put_pages(IF req.rw = "READ" THEN bio_set_pages_dirty(m, b) ELSE m, b.chunks, DOMAIN b.chunks)

\* finished_one_bio: whoever takes bio_count to zero completes an asynchronous request.
finished_one_bio(d) ==
  outcome' = IF req.async /\ d.bio_count = 0 THEN Append(outcome, d.result) ELSE outcome

\* Mutant: the waiter is woken when this was not the last bio in flight.
dio_bio_end_io_wakes_early(d, b) ==
  LET e == [d EXCEPT !.bio_list = <<b>> \o @, !.bios_in_flight = @ - 1]
      wake == e.waiter /\ d.bios_in_flight = 0
  IN /\ dio' = IF wake THEN [e EXCEPT !.waiter = FALSE] ELSE e
     /\ pc' = IF wake THEN "await" ELSE pc

\* The bio goes to the list of the worker, who is woken once nothing is in flight; the
\* worker clears waiter when it runs again, the model does it here.
dio_bio_end_io(d, b) ==
  LET e == [d EXCEPT !.bio_list = <<b>> \o @, !.bios_in_flight = @ - 1]
      wake == e.waiter /\ e.bios_in_flight = 0
  IN /\ dio' = IF wake THEN [e EXCEPT !.waiter = FALSE] ELSE e
     /\ pc' = IF wake THEN "await" ELSE pc

\* dio_bio_end_aio: the completion itself runs in the interrupt.
dio_bio_end_aio(d, b, done, m) ==
  LET checked == IF req.rw = "READ" THEN bio_check_pages_dirty(m, done)
                 ELSE <<release_pages(m, done), {}>>
  IN /\ dio' = completed(d, done.ok)
     /\ mem' = checked[1]
     /\ bios' = [bios EXCEPT ![b] = [done EXCEPT !.clean = checked[2],
                                                !.state = IF checked[2] = {} THEN "put" ELSE "dirty"]]
     /\ finished_one_bio(completed(d, done.ok))
     /\ UNCHANGED pc

\* The device is done with n sectors of bio b.  bio_endio notes an error and calls the
\* handler, which ignores all but the last part.
bio_endio(b, n, ok) ==
  /\ InFlight(b) /\ n \in 1 .. bios[b].left
  /\ LET done == [bios[b] EXCEPT !.left = @ - n, !.ok = @ /\ ok]
         m == IF req.rw = "READ" THEN [mem EXCEPT !.fresh = @ \cup (BioPages(done) \ {ZERO_PAGE})] ELSE mem
     IN \/ /\ done.left > 0
           /\ bios' = [bios EXCEPT ![b] = done]
           /\ UNCHANGED <<pc, dio, mem, outcome>>
        \/ /\ done.left = 0 /\ ~req.async
           /\ bios' = [bios EXCEPT ![b] = [done EXCEPT !.state = "ended"]]
           /\ mem' = m
           /\ dio_bio_end_io(dio, b)
           /\ UNCHANGED outcome
        \/ done.left = 0 /\ req.async /\ dio_bio_end_aio(dio, b, done, m)
  /\ UNCHANGED <<req, hist>>

\* Process context: the pages a bio was left with are dirtied again.  Nothing releases them.
bio_dirty_fn(b) ==
  /\ bios[b].state = "dirty"
  /\ mem' = set_dirty(mem, bios[b], bios[b].clean)
  /\ bios' = [bios EXCEPT ![b].state = "put"]
  /\ hist' = [hist EXCEPT !.kept = [p \in UserPages |-> @[p] + Uses(p, bios[b].chunks, bios[b].clean)]]
  /\ UNCHANGED <<req, pc, dio, outcome>>

\* pdflush, external: a dirty page is written and is clean again.
Writeback(p) ==
  /\ p \in mem.dirty
  /\ mem' = [mem EXCEPT !.dirty = @ \ {p}, !.fresh = @ \ {p}]
  /\ UNCHANGED <<req, pc, dio, bios, outcome, hist>>

(***************************************************************************)
(* Building bios                                                           *)
(***************************************************************************)
Goto(l) == pc' = l

\* The bio under assembly goes to the block layer.
dio_bio_submit(d) ==
  LET b == [chunks |-> d.bio[1].chunks, left |-> ChunkSum(d.bio[1].chunks), ok |-> TRUE,
          clean |-> {}, state |-> "flight"]
  IN /\ dio' = [d EXCEPT !.bio_count = @ + 1, !.bios_in_flight = @ + 1, !.bio = NONE, !.boundary = FALSE]
     /\ bios' = Append(bios, b)
     /\ mem' = IF req.async /\ req.rw = "READ" THEN bio_set_pages_dirty(mem, b) ELSE mem

\* The bio cannot take cur: it ends elsewhere on disk, or the fs is about to seek.
must_submit(d) == d.bio # NONE /\ (d.final_in_bio # d.cur[1].block \/ d.boundary)

\* dio_send_cur_page, first part: get rid of a bio that cannot take cur.
dio_send_cur_page ==
  /\ pc = "send"
  /\ \/ must_submit(dio) /\ dio_bio_submit(dio) /\ Goto("new")
     \/ /\ ~must_submit(dio)
        /\ Goto(IF dio.bio = NONE THEN "new" ELSE "add")
        /\ UNCHANGED <<dio, bios, mem>>
  /\ UNCHANGED <<req, outcome, hist>>

\* dio_bio_alloc: a bio for the pages still to come.
dio_bio_alloc(d) ==
  [d EXCEPT !.bio = <<[chunks |-> <<>>, max_vecs |-> max_vecs(Min({d.pages_in_io, NrVecs}))]>>,
            !.boundary = FALSE]

\* dio_new_bio: every so often look for bios that have ended, then allocate.  mempool_alloc
\* sleeps until it has memory.
dio_new_bio ==
  /\ pc = "new"
  /\ IF dio.reap >= ReapLimit
     THEN Goto("reap") /\ dio' = [dio EXCEPT !.ret2 = 0]
     ELSE /\ Goto(IF dio.pages_in_io <= 0 THEN "BUG" ELSE "add")
          /\ dio' = dio_bio_alloc([dio EXCEPT !.reap = @ + 1])
  /\ UNCHANGED <<req, bios, mem, outcome, hist>>

\* What dio_bio_complete returns for the first bio of the list.
ret_of_first == IF bios[Head(dio.bio_list)].ok THEN 0 ELSE -EIO

\* dio_bio_complete for that bio, by the worker, who keeps ret2 as its own return value.
dio_bio_complete(ret2) ==
  LET b == Head(dio.bio_list)
  IN /\ dio' = completed([dio EXCEPT !.bio_list = Tail(@), !.ret2 = ret2], bios[b].ok)
     /\ bios' = [bios EXCEPT ![b].state = "put"]
     /\ mem' = release_pages(mem, bios[b])

\* The loop of dio_bio_reap; the return value is that of the last bio it took.
dio_bio_reap ==
  /\ pc = "reap"
  /\ \/ /\ dio.bio_list # <<>>
        /\ dio_bio_complete(ret_of_first)
        /\ hist' = [hist EXCEPT !.masked = @ \/ (dio.ret2 # 0 /\ bios[Head(dio.bio_list)].ok)]
        /\ UNCHANGED pc
     \/ /\ dio.bio_list = <<>>
        /\ \/ dio.ret2 # 0 /\ Goto("sent") /\ dio' = [dio EXCEPT !.reap = 0]
           \/ /\ dio.ret2 = 0
              /\ Goto(IF dio.pages_in_io <= 0 THEN "BUG" ELSE "add")
              /\ dio' = dio_bio_alloc([dio EXCEPT !.reap = 0])
        /\ UNCHANGED <<bios, mem, hist>>
  /\ UNCHANGED <<req, outcome>>

\* dio_bio_add_page: cur joins the bio, which takes a reference of its own; if the bio is
\* full it is submitted and a new one takes cur.
dio_bio_add_page ==
  /\ pc = "add"
  /\ LET c == dio.cur[1] IN
     \/ /\ bio_add_page(dio.bio[1], c)
        /\ dio' = [dio EXCEPT !.bio[1].chunks = Append(@, c), !.pages_in_io = @ - 1,
                              !.final_in_bio = c.block + c.len, !.ret2 = 0]
        /\ mem' = page_cache_get(mem, c.page)
        /\ Goto("sent")
        /\ UNCHANGED bios
     \/ /\ ~bio_add_page(dio.bio[1], c)
        /\ dio_bio_submit(dio)
        /\ Goto(IF dio.bio[1].chunks = <<>> THEN "BUG" ELSE "new")
  /\ UNCHANGED <<req, outcome, hist>>


\* The call submit_page_section(page, offset, len, block), to return to `back`.
Section(d, page, off, len, block, back) ==
  [d EXCEPT !.arg = <<[page |-> page, off |-> off, len |-> len, block |-> block]>>, !.back = back]

\* Mutant: the deferred chunk grows although the disk does not go on where it ends.
extends_cur_off_disk(d, a) ==
  d.cur # NONE /\ d.cur[1].page = a.page /\ d.cur[1].off + d.cur[1].len = a.off
extends_cur(d, a) ==
  /\ d.cur # NONE /\ d.cur[1].page = a.page
  /\ d.cur[1].off + d.cur[1].len = a.off
  /\ d.cur[1].block + d.cur[1].len = a.block

\* Defer the chunk: grow the one deferred before, or send that one and keep this.
submit_page_section ==
  /\ pc = "section"
  /\ LET a == dio.arg[1] IN
     \/ /\ extends_cur(dio, a)
        /\ dio' = [dio EXCEPT !.cur[1].len = @ + a.len, !.after = "grown", !.ret2 = 0]
        /\ Goto(IF dio.boundary THEN "send" ELSE dio.back)
        /\ UNCHANGED mem
     \/ /\ ~extends_cur(dio, a) /\ dio.cur # NONE
        /\ dio' = [dio EXCEPT !.after = "deferred"]
        /\ Goto("send")
        /\ UNCHANGED mem
     \/ /\ dio.cur = NONE
        /\ dio' = [dio EXCEPT !.cur = dio.arg, !.ret2 = 0]
        /\ mem' = page_cache_get(mem, a.page)
        /\ Goto(dio.back)
  /\ UNCHANGED <<req, bios, outcome, hist>>

\* Back from dio_send_cur_page: drop the reference dio held on cur, which is in a bio now
\* or, after an error, nowhere.
cur_page_sent ==
  /\ pc = "sent"
  /\ LET m == page_cache_release(mem, dio.cur[1].page)
         keep == dio.after = "deferred" /\ dio.ret2 = 0
     IN /\ dio' = [dio EXCEPT !.cur = IF keep THEN dio.arg ELSE NONE,
                              !.ret = IF dio.after = "last" /\ @ = 0 THEN dio.ret2 ELSE @]
        /\ mem' = IF keep THEN page_cache_get(m, dio.arg[1].page) ELSE m
        /\ Goto(IF dio.after = "last" THEN "flush" ELSE dio.back)
  /\ UNCHANGED <<req, bios, outcome, hist>>

(***************************************************************************)
(* do_direct_IO: the loop over pages and blocks                            *)
(***************************************************************************)
\* What iov segment seg still contributes to result when the loop is left.
Done(d) == (SegLen(req, d.seg) - (d.final - d.block_in_file)) * SectorBytes

\* Mutant: the pages still queued are not released after an error.
dio_cleanup_forgets(m, d) == m
dio_cleanup(m, d) == [m EXCEPT !.refs = [p \in UserPages |-> @[p] - Times(p, d.pages)]]

\* Leave do_direct_IO with ret.  Only an error releases the queued pages: at the end of the
\* file they stay pinned.
Leave(d, m, h, ret) ==
  /\ dio' = [d EXCEPT !.result = @ + Done(d), !.ret = ret, !.pages = <<>>]
  /\ mem' = IF ret = 0 THEN m ELSE dio_cleanup(m, d)
  /\ hist' = IF ret = 0 THEN [h EXCEPT !.kept = [p \in UserPages |-> @[p] + Times(p, d.pages)]]
             ELSE h
  /\ Goto(IF ret = 0 THEN "segment" ELSE "tail")

\* dio_get_page and dio_refill_pages.
dio_get_page ==
  /\ pc = "page"
  /\ dio.block_in_file < dio.final
  /\ LET n == Min({nr_pages(req.segs[dio.seg]) - dio.curr_page, DIO_PAGES})
         got == get_user_pages(req, dio.seg, dio.curr_page, n)
         pinned == [mem EXCEPT !.refs = [p \in UserPages |-> @[p] + Times(p, got)]]
     IN \/ /\ dio.pages # <<>>
           /\ dio' = [dio EXCEPT !.page = Head(dio.pages), !.pages = Tail(@)]
           /\ Goto("chunk")
           /\ UNCHANGED <<mem, hist>>
        \/ /\ dio.pages = <<>> /\ got # <<>>
           /\ dio' = [dio EXCEPT !.curr_page = @ + Len(got), !.page = Head(got), !.pages = Tail(got)]
           /\ mem' = pinned
           /\ Goto("chunk")
           /\ UNCHANGED hist
        \/ \* A fault, but blocks are mapped: they are used up, with zeros.
           /\ dio.pages = <<>> /\ got = <<>>
           /\ dio.blocks_available > 0 /\ req.rw = "WRITE"
           /\ dio' = [dio EXCEPT !.page_errors = -EFAULT, !.page = ZERO_PAGE]
           /\ Goto(IF n = 0 THEN "BUG" ELSE "chunk")
           /\ UNCHANGED <<mem, hist>>
        \/ /\ dio.pages = <<>> /\ got = <<>>
           /\ ~(dio.blocks_available > 0 /\ req.rw = "WRITE")
           /\ IF n = 0 THEN Goto("BUG") /\ UNCHANGED <<dio, mem, hist>>
              ELSE Leave(dio, mem, hist, -EFAULT)
  /\ UNCHANGED <<req, bios, outcome>>

\* next_block: the position moves on by n sectors, on to the next page if this one is done.
Advance(d, n) ==
  LET e == [d EXCEPT !.block_in_file = @ + n, !.at = @ + n]
      over == e.block_in_file = e.final \/ e.at >= PageSectors
  IN /\ dio' = IF over THEN [e EXCEPT !.at = 0] ELSE e
     /\ mem' = IF over THEN page_cache_release(mem, d.page) ELSE mem
     /\ Goto(IF e.block_in_file > e.final THEN "BUG" ELSE IF over THEN "page" ELSE "chunk")

\* The extent the file system returned: for an old block the part before the request is
\* skipped, a new one is written from its start.
map_blocks(d, bh) ==
  LET rem == d.block_in_file % InodeBlk
  IN [d EXCEPT !.bh = [mapped |-> TRUE, new |-> bh.new, boundary |-> bh.boundary],
               !.next_block = bh.blocknr * InodeBlk + (IF bh.new THEN 0 ELSE rem),
               !.blocks_available = bh.size * InodeBlk - rem]

AtEof(d) == d.block_in_file >= (req.i_size \div d.bs) * d.bs

\* The top of the inner loop: map more of the file when nothing is left, fill holes.
get_more_blocks ==
  /\ pc = "chunk"
  /\ \/ dio.blocks_available > 0 /\ Goto("zero") /\ UNCHANGED <<dio, mem, hist>>
     \/ /\ dio.blocks_available = 0 /\ dio.page_errors # 0
        /\ Leave(dio, page_cache_release(mem, dio.page), hist, dio.page_errors)
     \/ /\ dio.blocks_available = 0 /\ dio.page_errors = 0
        /\ LET b == dio.block_in_file \div InodeBlk
               count == ((dio.final - dio.block_in_file) + InodeBlk - 1) \div InodeBlk
           IN \E bh \in get_blocks(req, b, count) :
                LET hole == [dio EXCEPT !.bh = [mapped |-> FALSE, new |-> FALSE, boundary |-> FALSE]] IN
                \/ bh.err # 0 /\ Leave(hole, page_cache_release(mem, dio.page), hist, bh.err)
                \/ /\ bh.mapped
                   /\ dio' = map_blocks(dio, bh)
                   /\ hist' = IF bh.new THEN [hist EXCEPT !.fresh_blocks = @ \cup (b .. b + bh.size - 1)]
                              ELSE hist
                   /\ Goto("zero")
                   /\ UNCHANGED mem
                \/ /\ bh.err = 0 /\ ~bh.mapped /\ AtEof(dio)
                   /\ Leave(hole, page_cache_release(mem, dio.page), hist, 0)
                \/ /\ bh.err = 0 /\ ~bh.mapped /\ ~AtEof(dio)
                   /\ Advance(hole, dio.bs)
                   /\ hist' = [hist EXCEPT !.filled =
                                  @ \cup (dio.block_in_file .. dio.block_in_file + dio.bs - 1)]
  /\ UNCHANGED <<req, bios, outcome>>

\* The part of a new block that is not the request's, if it has to be zeroed.
ZeroPart(d) == IF d.bs < InodeBlk /\ d.bh.new THEN d.block_in_file % InodeBlk ELSE 0

\* dio_zero_block(dio, 0), once, before the first chunk.
zero_start ==
  /\ pc = "zero"
  /\ LET d == [dio EXCEPT !.zero_done = TRUE] IN
     \/ /\ dio.bs < InodeBlk /\ ~dio.zero_done /\ ZeroPart(dio) > 0
        /\ dio' = Section(d, ZERO_PAGE, 0, ZeroPart(dio), dio.next_block, "zeroed")
        /\ Goto("section")
     \/ /\ ~(dio.bs < InodeBlk /\ ~dio.zero_done /\ ZeroPart(dio) > 0)
        /\ dio' = IF dio.bs < InodeBlk THEN d ELSE dio
        /\ Goto("data")
  /\ UNCHANGED <<req, bios, mem, outcome, hist>>

\* The chunk at the position: as much as the extent, the page and the request allow.
chunk_blocks(d) == Min({d.blocks_available, PageSectors - d.at, d.final - d.block_in_file})
queue_chunk ==
  /\ pc = "data"
  /\ LET d == [dio EXCEPT !.boundary = dio.bh.boundary]
     IN dio' = Section(d, dio.page, dio.at, chunk_blocks(dio), dio.next_block, "queued")
  /\ Goto(IF chunk_blocks(dio) = 0 THEN "BUG" ELSE "section")
  /\ UNCHANGED <<req, bios, mem, outcome, hist>>

Queued(d) == [d EXCEPT !.next_block = @ + d.arg[1].len]

\* submit_page_section has returned to its caller.
section_done ==
  /\ pc \in {"zeroed", "queued", "padded"}
  /\ \/ /\ pc # "queued"
        /\ dio' = IF dio.ret2 = 0 THEN Queued(dio) ELSE dio
        /\ Goto(IF pc = "zeroed" THEN "data" ELSE "last")
        /\ UNCHANGED <<mem, hist>>
     \/ /\ pc = "queued" /\ dio.ret2 # 0
        /\ Leave(dio, page_cache_release(mem, dio.page), hist, dio.ret2)
     \/ /\ pc = "queued" /\ dio.ret2 = 0
        /\ Advance([Queued(dio) EXCEPT !.blocks_available = @ - dio.arg[1].len], dio.arg[1].len)
        /\ UNCHANGED hist
  /\ UNCHANGED <<req, bios, outcome>>


(***************************************************************************)
(* direct_io_worker                                                        *)
(***************************************************************************)
\* Mutant: bio_count starts without a share for the worker.
worker_share_none == 0
\* bio_count starts at one, so that it cannot reach zero while bios are being submitted.
worker_share == 1

\* A new dio.  kmalloc leaves map_bh as it was: new is whatever the memory holds.
new_dio(bs, new) ==
  [bs |-> bs, seg |-> 0, block_in_file |-> req.offset, final |-> req.offset, blocks_available |-> 0,
   next_block |-> -1, zero_done |-> FALSE, boundary |-> FALSE, final_in_bio |-> -1, reap |-> 0,
   bh |-> [mapped |-> FALSE, new |-> new, boundary |-> FALSE],
   cur |-> NONE, pages |-> <<>>, curr_page |-> 0, page |-> ZERO_PAGE, at |-> 0,
   pages_in_io |-> MapThenSumSet(LAMBDA s : (SegLen(req, s) \div bs) + 2, DOMAIN req.segs),
   page_errors |-> 0, bio |-> NONE, bio_count |-> worker_share, bios_in_flight |-> 0, bio_list |-> <<>>,
   waiter |-> FALSE, result |-> 0, ret |-> 0, ret2 |-> 0, arg |-> NONE, back |-> "", after |-> ""]

Init ==
  /\ req \in Requests
  /\ pc = "start"
  /\ dio = NONE
  /\ bios = <<>>
  /\ mem = [refs |-> [p \in UserPages |-> 0], dirty |-> {}, fresh |-> {}]
  /\ outcome = <<>>
  /\ hist = [filled |-> {}, fresh_blocks |-> {}, kept |-> [p \in UserPages |-> 0], masked |-> FALSE]

\* The answer of a request that ends before it begins.
Refuse(e) == outcome' = <<e>> /\ Goto("done") /\ UNCHANGED dio

blockdev_direct_IO ==
  /\ pc = "start"
  /\ \/ blkbits(req) = <<>> /\ Refuse(-EINVAL)
     \/ blkbits(req) # <<>> /\ Refuse(-ENOMEM)
     \/ /\ blkbits(req) # <<>>
        /\ \E new \in BOOLEAN : dio' = new_dio(blkbits(req)[1], new)
        /\ Goto("segment")
        /\ UNCHANGED outcome
  /\ UNCHANGED <<req, bios, mem, hist>>

\* The next segment of the buffer, if any.
next_segment ==
  /\ pc = "segment"
  /\ \/ /\ dio.seg < Len(req.segs)
        /\ dio' = [dio EXCEPT !.seg = @ + 1, !.final = dio.block_in_file + SegLen(req, dio.seg + 1),
                              !.at = req.segs[dio.seg + 1].first, !.pages = <<>>, !.curr_page = 0]
        /\ Goto("page")
     \/ dio.seg = Len(req.segs) /\ Goto("tail") /\ UNCHANGED dio
  /\ UNCHANGED <<req, bios, mem, outcome, hist>>

end_segment ==
  /\ pc = "page" /\ dio.block_in_file >= dio.final
  /\ Leave(dio, mem, hist, 0)
  /\ UNCHANGED <<req, bios, outcome>>

\* Mutant: the end of a new block is not padded.
zero_end_never == FALSE
\* dio_zero_block(dio, 1): the request may end inside a new block.
zero_end == ZeroPart(dio) > 0

pad_end ==
  /\ pc = "tail"
  /\ LET d == [dio EXCEPT !.zero_done = TRUE] IN
     IF zero_end
     THEN /\ dio' = Section(d, ZERO_PAGE, 0, InodeBlk - ZeroPart(dio), dio.next_block, "padded")
          /\ Goto("section")
     ELSE dio' = d /\ Goto("last")
  /\ UNCHANGED <<req, bios, mem, outcome, hist>>

send_last ==
  /\ pc = "last"
  /\ \/ dio.cur # NONE /\ dio' = [dio EXCEPT !.after = "last"] /\ Goto("send")
     \/ dio.cur = NONE /\ Goto("flush") /\ UNCHANGED dio
  /\ UNCHANGED <<req, bios, mem, outcome, hist>>

submit_last ==
  /\ pc = "flush"
  /\ \/ dio.bio # NONE /\ dio_bio_submit(dio)
     \/ dio.bio = NONE /\ UNCHANGED <<dio, bios, mem>>
  /\ Goto("put")
  /\ UNCHANGED <<req, outcome, hist>>

\* The worker gives up its share of bio_count.  An asynchronous request is done with: it may
\* be gone already.
put_share ==
  /\ pc = "put"
  /\ dio' = [dio EXCEPT !.bio_count = @ - 1, !.ret2 = 0]
  /\ finished_one_bio(dio')
  /\ Goto(IF req.async THEN "done" ELSE "await")
  /\ UNCHANGED <<req, bios, mem, hist>>

\* What a synchronous request returns: the first error, or else the bytes, up to the end
\* of the file for a read.
OrElse(e, next) == IF e # 0 THEN e ELSE next
SyncReturn(d) ==
  LET left == (req.i_size - req.offset) * SectorBytes
      bytes == IF req.rw = "READ" /\ d.result > left /\ d.result # 0 THEN left ELSE d.result
  IN OrElse(d.ret, OrElse(d.ret2, OrElse(d.page_errors, bytes)))

\* Mutant: the worker takes what is on the list and does not wait for the rest.
all_completed_listed(d) == d.bio_list = <<>>
\* The condition of dio_await_completion.
all_completed(d) == d.bio_count = 0

dio_await_completion ==
  /\ pc = "await"
  /\ \/ /\ all_completed(dio)
        /\ outcome' = <<SyncReturn(dio)>>
        /\ Goto("done")
        /\ UNCHANGED <<dio, bios, mem>>
     \/ /\ ~all_completed(dio) /\ dio.bio_list # <<>>
        /\ dio_bio_complete(IF dio.ret2 = 0 THEN ret_of_first ELSE dio.ret2)
        /\ UNCHANGED <<pc, outcome>>
     \/ \* dio_await_one: sleep until dio_bio_end_io wakes us
        /\ ~all_completed(dio) /\ dio.bio_list = <<>>
        /\ dio' = [dio EXCEPT !.waiter = TRUE]
        /\ Goto("asleep")
        /\ UNCHANGED <<bios, mem, outcome>>
  /\ UNCHANGED <<req, hist>>

(***************************************************************************)
(* Specification                                                           *)
(***************************************************************************)
Worker ==
  \/ blockdev_direct_IO \/ next_segment \/ dio_get_page \/ end_segment \/ get_more_blocks
  \/ zero_start \/ queue_chunk \/ section_done \/ submit_page_section \/ cur_page_sent
  \/ dio_send_cur_page \/ dio_new_bio \/ dio_bio_reap \/ dio_bio_add_page
  \/ pad_end \/ send_last \/ submit_last \/ put_share \/ dio_await_completion

\* The device ends a bio whole or sector by sector, with or without an error.
Device(b) == \E ok \in BOOLEAN : \E n \in {1, bios[b].left} : bio_endio(b, n, ok)

Next ==
  \/ Worker
  \/ \E b \in DOMAIN bios : Device(b) \/ bio_dirty_fn(b)
  \/ \E p \in UserPages : Writeback(p)

\* The worker runs, the device ends what it was given (blk_run_queues unplugs it) and the
\* work queue runs.  Nobody has to write pages back.
Spec ==
  /\ Init /\ [][Next]_vars
  /\ WF_vars(Worker)
  /\ WF_vars(\E b \in DOMAIN bios : Device(b))
  /\ WF_vars(\E b \in DOMAIN bios : bio_dirty_fn(b))

(***************************************************************************)
(* Properties                                                              *)
(***************************************************************************)
\* Every chunk the request consists of so far.
Chunks == UNION {ToSet(bios[b].chunks) : b \in DOMAIN bios}
            \cup (IF dio # NONE /\ dio.bio # NONE THEN ToSet(dio.bio[1].chunks) ELSE {})

\* The place in the user's buffer of sector f of the file: its page and offset.
Buffer(f) ==
  LET s == CHOOSE s \in DOMAIN req.segs : f \in SegStart(req, s) .. SegStart(req, s + 1) - 1
      a == req.segs[s].first + f - SegStart(req, s)
  IN <<<<s, a \div PageSectors>>, a % PageSectors>>

\* A bio is one contiguous run of the disk: bi_sector and bi_size are all the device sees of
\* the blocks (dio_send_cur_page submits when cur does not continue it).
Contiguous(b) ==
  \A i \in 1 .. Len(b.chunks) - 1 : b.chunks[i].block + b.chunks[i].len = b.chunks[i + 1].block

\* No two chunks touch the same sector of the disk.
Disjoint ==
  \A b, d \in DOMAIN bios : \A i \in DOMAIN bios[b].chunks, k \in DOMAIN bios[d].chunks :
    LET x == bios[b].chunks[i] y == bios[d].chunks[k]
    IN <<b, i>> = <<d, k>> \/ x.block + x.len <= y.block \/ y.block + y.len <= x.block

\* Every chunk moves the right part of the buffer to or from the right place on disk, and no
\* sector is transferred twice, in however many segments, extents and bios do_direct_IO cuts
\* the request; the zero page goes only to blocks allocated for the request, where the request
\* does not reach or cannot be read from memory (dio_zero_block, dio_refill_pages).
DataPlacement ==
  /\ \A b \in DOMAIN bios : Contiguous(bios[b])
  /\ Disjoint
  /\ \A c \in Chunks : \A i \in 0 .. c.len - 1 :
       IF c.page = ZERO_PAGE
       THEN /\ req.rw = "WRITE"
            /\ \E f \in 0 .. (Len(req.map) * InodeBlk) - 1 :
                 /\ Disk(req, f) = c.block + i
                 /\ f \in Asked(req) => dio.page_errors # 0
                 /\ f \notin Asked(req) => f \div InodeBlk \in hist.fresh_blocks
       ELSE \E f \in Asked(req) : Disk(req, f) = c.block + i /\ Buffer(f) = <<c.page, c.off + i>>

Written(f) == \E c \in Chunks : Disk(req, f) \in c.block .. c.block + c.len - 1

\* Stale disk contents never show: when the request is answered every block that get_blocks
\* allocated for it is written from end to end, with data or with zeros, page faults and
\* failing get_blocks included.  (After an I/O error the worker stops early.)
NewBlocksFilled ==
  (pc = "done" /\ \A b \in DOMAIN bios : bios[b].ok) =>
    \A f \in 0 .. (Len(req.map) * InodeBlk) - 1 : f \div InodeBlk \in hist.fresh_blocks => Written(f)

\* References are taken and dropped in pairs on every path through the worker, the handlers
\* and bio_dirty_fn: at the end only the pages counted in kept are still pinned, those
\* queued when a read meets the end of the file and those bio_dirty_fn dirties.
AtRest == pc = "done" /\ \A b \in DOMAIN bios : bios[b].state = "put"
PagesReleased == AtRest => mem.refs = hist.kept

\* Data the device read into a page is not lost: if pdflush cleaned the page in the
\* meantime it is dirtied again (bio_check_pages_dirty, bio_dirty_fn).
NoLostData == AtRest => mem.fresh \subseteq mem.dirty

\* A synchronous request does not succeed when one of its bios failed, wherever the error is
\* seen: by a reap during submission, by the padding of the last block, or at the end.  The
\* exception, masked: dio_bio_reap forgets an error when it takes another bio after it.
FailureReported ==
  (outcome # <<>> /\ ~req.async /\ ~hist.masked /\ \E b \in DOMAIN bios : ~bios[b].ok)
    => outcome[1] < 0

\* Every request is answered: the worker is woken although only the last completion does so,
\* and no BUG_ON ends it (a page is there when one is asked for, a bio has room for a page,
\* no chunk is empty, the position never passes the end of the segment).
EveryRequestAnswered == <>(outcome # <<>> /\ AtRest)

\* What a comment says and the code does not do: "get_block() allocated the block for us, we
\* need to fill-in the unused portion of the block with zeros".  dio_zero_block looks at
\* map_bh, which nothing sets before the first get_blocks: when the first page faults, it
\* pads a block nobody mapped, at next_block_for_io.
PadsNewBlocksOnly ==
  \A c \in Chunks : c.page = ZERO_PAGE /\ dio.page_errors = 0 =>
    \A i \in 0 .. c.len - 1 : \E b \in hist.fresh_blocks :
      c.block + i \in req.map[b + 1].disk * InodeBlk .. ((req.map[b + 1].disk + 1) * InodeBlk) - 1

(***************************************************************************)
(* Refinement                                                              *)
(***************************************************************************)
attempted == hist.filled \cup {f \in Asked(req) : \E b \in DOMAIN bios : \E c \in ToSet(bios[b].chunks) :
                                 Disk(req, f) \in c.block .. c.block + c.len - 1}
busy == {b \in DOMAIN bios : bios[b].state \in {"flight", "ended"}}

Promise == INSTANCE IORequest WITH first <- req.offset, last <- SegStart(req, Len(req.segs) + 1) - 1

\* The request keeps the promise of IORequest: it transfers only what was asked for, it is
\* answered once and only when the device is done with the buffer, and the answer does not claim more
\* than was transferred.
KeepsPromise == Promise!Spec

=============================================================================
