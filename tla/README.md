# A verification project for UCSB I/O

The repository holds two programs. **ucsb-io** is a patch set for Linux 2.5.67
that gives the block layer a second, priority-driven path next to the deadline
I/O scheduler; a process chooses the path per open file with `ioctl`.
**scsibench** is a user program that drives SCSI disks through `/dev/sg` to
find out their geometry and caches and to replay traces. This project models
the way of an I/O through the first, from the system call to the driver, and
the command layer, the trace player and two families of measurements of the
second.

Source paths below are relative to `src/ucsb-io/ucsb-io-2.5.67/` (kernel) and
`src/scsibench/sb-0716/` (scsibench).

## Inventory

| Component | State it keeps | Operations | Interacts with |
|---|---|---|---|
| Deadline scheduler with the QoS queue (`drivers/block/deadline-iosched.c`) | two red-black trees and two fifos (one per direction), dispatch list, back-merge hash with a generation counter, `next_drq`, `batching`, `starved`, `last_sector`; `ucsb_queue`, `ucsb_cnt` and a `ucsb_flag` in every request | merge lookup, merged, merged requests, insert, next, remove, former, latter | called by the elevator interface with the queue lock held |
| Elevator interface (`drivers/block/elevator.c`) | `q->last_merge`, `REQ_STARTED`, the answers of `prep_rq_fn` | merge tests, add, next, remove | between the request queue and the scheduler |
| Request queue (`drivers/block/ll_rw_blk.c`) | requests: flags, sector, `nr_sectors`, chain of bios; free lists | `__make_request`, `attempt_merge`, the limits `ll_*_merge_fn`, `blk_insert_request`, `end_that_request_first`/`_last` | bios from the file systems, requests to the driver |
| Request pool and congestion (same file) | free counts per direction, waiters, congestion flags | `get_request`, `get_request_wait`, `__blk_put_request` | submitters sleep, completions wake them |
| Plugging (same file) | plugged flag and list, unplug timer and work, stopped flag | plug, unplug, timeout, stop, start, `blk_run_queues` | timer and work queue race with the submitters |
| Tagged queueing (same file) | tag map and index, busy list | init, start, end, find, invalidate, resize | the driver |
| QoS of a file (`fs/ioctl.c`, `fs/file_table.c`) | `filp->f_qos`: type and priority | `UCSB_IO_BESTEFFORT`, `_SOFT_RT`, `_PRIORITY`; allocation and freeing of the file | read by the scheduler through `rq->bio->bi_qos` without any lock |
| Direct I/O (`fs/direct-io.c`) | a dio: the position in file, buffer and disk, the page section not sent yet, the bio being built, `bio_count`, `bios_in_flight`, list of ended bios, waiter | pin pages, map blocks, zero, cut into bios, submit, reap, complete, wait | passes `f_qos` on to the bios; completions run in interrupts |
| bio life cycle (`fs/bio.c`) | reference count, size, index, flags, pages | alloc, add a page, endio, dirty pages; get, put, clone, pairs | everything above |
| Disks (`drivers/block/genhd.c`) | names of majors, probe map | register, add, get, put | none of the above while I/O runs |
| `/proc` (`fs/proc/proc_misc.c`) | none | prints counters | reads only |
| Commands and device (`scsicmd.cc`, `scsidevice.cc`) | a command's buffers and times; the sg driver holds one command per descriptor | `handleCmd`: check, write, read | every measurement and trace line goes through it |
| Measurements (`scsibench.cc`, `main.cc`) | measured geometry and caches | cache probes, searches on a track, seek curves, mappings, zones | deduce the disk from the time commands take |
| Traces (`trace.cc`) | registers, the line being executed | `executeTraceFile` | commands, caching mode page |

What is hard here and why tests hardly reach it:

* *One request, many lists.* A request is on a tree **and** a fifo **and** the
  hash, or on the QoS queue, or on the dispatch list, or nowhere while a driver
  holds it. `ucsb_flag`, set at insertion, decides at removal which lists it is
  taken off. A merge that closes a gap changes all of them at once.
* *Shortcuts that outlive what they point to.* `next_drq`, `last_merge` and the
  hash survive from call to call.
* *Order.* Barriers promise an order over structures sorted by sector, by
  deadline and by priority.
* *Stale reads.* Priorities are read anew at every comparison while processes
  change them.
* *Starvation.* Batching, `starved`, deadlines, aliases and the QoS queue all
  decide who is next.
* *Requeues.* A driver may put back a request of any kind, at either end; a reset
  of a tagged device puts back all of them.
* *Two sides of a direct I/O.* The worker builds bios one page section behind
  itself while completions on other processors end the ones it sent.
* *Locks that are dropped on the way.* The ioctls allocate and copy under the big
  kernel lock, which a sleeping process gives up.
* *Replies out of step.* After an interrupted call the sg driver still holds the
  reply of the command before.
* *Measuring changes what is measured.* Every cache probe starts from the cache
  the one before it left.

`PROJECT.json` lists these hazards one by one at their lines.

## Modules

| Module | Contents |
|---|---|
| `DeadlineIosched` | `deadline-iosched.c` and the merge tests of `elevator.c`: one operator per C function, from the queue before the call to the queue after it. No variables. |
| `BlockQueue` | The state machine of one queue: variables, one action per operation of `ll_rw_blk.c`, `elevator.c` and `ioctl.c`, the properties. |
| `RequestPool` | The pool of requests, congestion, plugging, stop and start of one queue: when a submitter gets a request and when the driver is called. Requests are counted, not told apart. |
| `TaggedQueue` | Tagged command queueing on top of `BlockQueue`: every action of the queue, with the tags beside it. |
| `FileQos` | `sys_ioctl`'s QoS commands, the life of `struct file`, and direct I/O as a reader of `f_qos`. |
| `DirectIO` | One `O_DIRECT` request, `fs/direct-io.c` with what it uses of `fs/bio.c`. |
| `IORequest` | What such a request promises its caller; `DirectIO` implements it. |
| `ScsiTrace` | `executeTraceFile`, `handleCmd`, the commands and the caching mode page. |
| `CacheProbe` | The cache measurements on a disk with a known cache. |
| `MinSearch` | The halving searches and the seek curve on a disk with a known rotation. |
| `ScsiBench` | One measurement of `main`: `CacheProbe` or `MinSearch`. |
| `MC...` | Instances for TLC, symmetry sets. |
| `SeqLemmas` | Lemmas about lists without repetitions: `RemoveFirst`, `RemoveAt`, `InsertAt`, `Append`, `Tail`, prefixing, and about `Min` and `Max`. |
| `DeadlineProofs` | Lemmas: every operator of `DeadlineIosched` preserves the well-formedness of the scheduler. |
| `BlockQueueProofs` | The inductive invariant of the queue, what a submission does to the chains of bios, what every step does to the order of the dispatch list, and the theorems. |
| `TaggedQueueProofs` | The table of tags against the requests that carry them, and the order a reset puts them back in, on top of the queue's invariant. |
| `RequestPoolProofs` | The inductive invariant of the pool, congestion and plugging. |
| `FileQosProofs` | Who holds a reference to a file and to its QoS structure. |
| `DirectIOProofs` | Where the error of a failed bio is, who is still busy with a direct request, who holds its pages and what is still to be written back. |
| `ScsiProofs` | The halving search ends near the shortest time; replies and caches of a trace. |

### State and code

`q` is `request_queue_t` with its `deadline_data` and the `deadline_rq` of every
request. A red-black tree is the set of its requests with the key each was
filed under (`rb_key`), because the code only ever asks for the first, the next,
the previous and the one under a sector; `rb_key` is kept apart from
`rq.sector`, as in the code, where a front merge changes the second first. The
fifos, the dispatch list and the QoS queue are sequences. The hash is the
generation an entry was added with, 0 when the request is off the hash; in which
order a chain is walked is left open, so the model allows any valid entry that
ends at the sector and any set of dead entries dropped on the way. Deadlines
count down (`expires`), which keeps time finite; `jiffy` lets it pass.

`rq[r]` has the flags, the start, the length and the chain of bios of request
`r`. A bio is one sector and one segment long, so the chain and the sectors of a
request can be compared; `bi_qos` is the file whose QoS structure the bio points
to. `epoch` numbers the barriers; bios carry the number they saw, which only
the properties read.

### Actions and code

The queue lock makes every operation one step, with one exception: inserting a
hard barrier empties the sort lists in a loop
(`while (deadline_dispatch_requests(dd))`), and the model takes one step per
iteration with the lock held (`barrier_rq`), so that the length of the drain is
not bounded by the model.

| Action | Code |
|---|---|
| `make_request` | `__make_request`: the lock, the empty-queue and barrier tests, `elv_merge`, back and front merges with their limits, `attempt_back_merge`/`attempt_front_merge`, otherwise a new request and its insertion. When the free list is empty the bio is not queued, but what the merge lookup changed stays changed. |
| `insert_barrier_drain` | `deadline_insert_request`, the barrier's loop |
| `elv_next_request`, `elv_next_request_kill` | one pass of the loop of `elv_next_request` with the answers of `prep_rq_fn` |
| `blkdev_dequeue_request` | the driver takes the request off the queue |
| `end_that_request_first`, `end_that_request_last` | partial and final completion; the first does not take the lock |
| `blk_insert_request`, `blk_insert_special` | a driver puts a request back, or inserts its own, at either end |
| `UCSB_IO_SOFT_RT`, `UCSB_IO_PRIORITY` | the two ioctls; they take no lock |
| `jiffy` | the timer |

### The pool and the plug

`RequestPool` looks at the same queue from the side: `BlockQueue` says which
request goes where, `RequestPool` who waits for one and who calls the driver.
What `BlockQueue` does under the lock is one step here too; what happens without
the lock is split where the code lets go of it:

* `get_request_wait` takes six steps, one per label of `pc` (unplug, put itself
  on the wait queue, look at the count, sleep, leave the wait queue, try), and
  comes back to `__make_request` with a request it may no longer need. A wake-up
  takes the oldest process off the wait queue, asleep or not.
* the unplug timer expires, its handler schedules the work, the work unplugs.
* `blk_start_queue` clears the flag first and takes the lock afterwards.

`request_fn` is the driver's and therefore external: it takes what the device
has room for (`Depth`), may stop the queue, and runs or starts it again after a
completion, as the comment on `blk_init_queue` demands ("it is responsible for
arranging that the requests get dealt with eventually"). A driver stops the
queue only while a completion is due. `kick` says that the driver is about to look
at the queue: it may run it (`blk_run_queue`, which does not look at the flag), and
one that stopped it still has to start it after that.

### Tags

`TaggedQueue` extends `BlockQueue`: its next-state relation is the queue's with a
driver that tags what it takes (`blk_queue_start_tag`), ends it through
`blk_queue_end_tag`, loses the tag when it puts a request back
(`blk_insert_request`), and may reset the device. `blk_queue_invalidate_tags`
holds the lock while it walks the busy list; the model takes one step per request
(`redo`), because each goes through `deadline_insert_request` and may be a
barrier. A `BUG_ON` of these functions sets `bug`.

### The QoS of a file

In `FileQos` processes share descriptors. Each step ends where the process may
sleep: before and after `lock_kernel`, in `kmalloc`, in `copy_from_user`; while it
sleeps the big kernel lock is free. `dio_bio_submit` copies the pointer `f_qos`
without any lock, and the bio keeps it until it ends. `kmalloc` is taken to
succeed (`GFP_KERNEL` of a few bytes), with arbitrary contents.

### A direct I/O request

`DirectIO` follows the worker in the units in which others can interfere: pinning
a batch of pages, mapping an extent, sending a page section, submitting a bio,
reaping, going to sleep. The device ends bios at any time, whole or with an error,
`pdflush` may clean any dirty page, `get_blocks` and
`get_user_pages` may fail. The user's buffer, the file's block map and its holes are
part of the request; an extent is all old or all new.

`KeepsPromise` is a refinement: `IORequest` knows only which sectors were put
under I/O, whether a transfer is under way, and what the caller was told, and
`DirectIO` with `attempted` and `busy` computed from its bios implements it.

### scsibench

`ScsiTrace` runs one trace file, line by line. Each command is one `write` and one
`read` on the sg device; either may fail, and so may the command. After a failed
`read` the reply is still in the driver and further commands are refused. The
callers of `handleCmd` ignore its result, and so does the model.

`CacheProbe` and `MinSearch` pair the measuring code with an external disk whose
answer is known, and ask whether the code finds it. The cache is a list of
segments, first in first out or least recently used, and a read takes a hit's or a
miss's time. The time to a block is the seek and the rotation from the first block
of the cylinder the head can catch; a command past the end of the disk is refused
at once. Over a cylinder the times fall once on every track, and the halving keeps
one of the falls between its ends. Block numbers are unsigned, as in the code.
`cyl_size` is what the code knows of the cylinders, not what they are: all that
`findMappingCommand` or `loadMapping` can leave there. Times are integers: only
comparisons between them matter to the searches.

## Runs

Every passing run explores its instance completely.

| Run | Checks | Shows |
|---|---|---|
| `barrier` | `TypeOK`, `BarrierOrder`, `ListsAgree`, `NoDangling`, `BioChains`, `StarvedBound` | back, front and bridging merges, aliases, expiry and barriers. Three read requests are the least for a merge that closes a gap while a third request waits; four sectors leave a gap of one and of two. The hash generation wraps at once (`ULONG = 2`), requests reach the limit of three sectors, `prep_rq_fn` refuses some. |
| `requeue` | `OneOwner`, `QosQueueSound`, `StartedOnlyShrinks` | drivers put back barriers, QoS and ordinary requests, and insert their own at both ends, while the priority of the file goes from one side of the default to the other |
| `live` | `EveryBioServed` | nobody starves when no sector is asked for again while it is being served, barriers included, with a batching counter that wraps when the head jumps |
| `qos_first` | `HigherPriorityFirst`, violated | a request of high priority waits for best-effort ones |
| `pool` | `TypeOK`, `NoRequestLeak`, `NoLostWakeup`, `CongestionTracksCount`, `QueueNotForgotten`, `OnlyDriverRunsStopped`, `Quiesces` | two submitters exhaust the pool, sleep and are woken in batches while timer, work, stop, start and drivers' own requests race; when submission ends, all sleepers are served and all requests come back |
| `tags` | `TagsAgree`, `AnswersMatched`, `ResetRestarts` | tags beside the queue: starts, ends, requeues, resets, tagging turned on and off, at depth 1 and at the depth cut to the pool |
| `file_qos` | `NoUseAfterFree`, `QosOutlivesBio`, `SuccessInitialises`, `PriorityKept` | two processes on one descriptor set QoS, close and do I/O at once |
| `direct_io` | `DataPlacement`, `NewBlocksFilled`, `PagesReleased`, `NoLostData`, `FailureReported`, `KeepsPromise`, `EveryRequestAnswered` | 24 requests, synchronous and asynchronous: aligned or not, one segment or two, over holes, past the end of the file, with faults, refused |
| `pad_unmapped` | `PadsNewBlocksOnly`, violated | a request inside a block whose first page faults pads a block that was never mapped |
| `trace` | `TraceReplayed`, `RepliesMatch`, `CachesAsAsked`, `EveryTraceEnds` | eight traces on every caching page, with up to three failures |
| `measure` | `SizesFound`, `BlocksFound`, `PolicyFound`, `BestBracketed`, `NearShortest` | all small disks: caches of one to seven segments, tracks of two to five blocks, one or two of them to a cylinder, three cylinders, any of them bad, with sizes as either mapping leaves them |
| `seek_to_min` | `SeekToMinIsSoon`, violated | `seekToMin` returns the block before the soonest one |

Each property of a passing run is also checked against a plausible bug (the
definitions that end in what the bug does, such as `drop_tag_keeps_bit`, next to
the one they stand for): with the bug in place TLC finds it violated.

**Bounds.** `MaxEpoch` bounds the barriers of a behaviour and `MaxOverdue` how
far past its deadline a request may get; the code compares a deadline only with
now, so how late it is makes no difference. `UINT` and `ULONG` are the number of
values of `batching`/`starved` and of `hash_valid_count`: small, so that both
wrap. The switches `Aliases`, `Barriers`, `Specials`, `Requeues`, `Kills` and
`RePrioritise` leave out inputs, never behaviour of the code: they keep a run on
its subject. Two or three bios and requests per
direction are enough for each situation the code distinguishes on one list: a request, its neighbour and
a bystander.

`RequestPool` runs with 16 requests per direction, the smallest number
`blk_dev_init` configures, and the default `unplug_thresh` of 4, so that the
batch (2) and the congestion thresholds (1 and 3) are the code's own. One
direction is used: the two share only the count at the threshold and the
driver. Two processes can sleep both, or one takes the request for which the other
was woken; the theorems of `RequestPoolProofs` hold for any number of them.
`MaxBios = 18` is the whole pool and two more.
Submission has to end for `Quiesces`: with submitters that never stop, a sleeper may be
passed over for ever, because any process that finds a free request takes it and
the count need never reach a batch.

In `tags` the depth 9 is cut to twice the pool, 4, which is a multiple of the
word size of the map, 2: the map has a whole word of bits past the depth. In `direct_io` pages and file-system
blocks have two sectors, so that a request can begin and end inside either; two
pages are pinned at a time, a bio takes two pages, and `dio_bio_reap` looks every
second call, so that every limit is met within eight sectors. `SectorBytes` only
keeps byte counts apart from error codes. In `file_qos` one file is reached through
descriptors and one is private to the kernel; two QoS structures are what two
racing ioctls allocate. In `trace` the sg buffer holds three sectors, so that
transfers take one to three commands; `MaxFaults` lets a failed mode sense, an
interrupted read and what follows happen in one trace. In `measure` the limits of the probes
(`DEF_MAX_SIZE`, `NUMBER`, `MAX_WRITE`) are small enough for disks on either side;
`Unset` has what memory may hold where a size was never written: no blocks, a number
of blocks no cylinder has, a negative one. `UINT = 64` is more than twice the largest disk, so
that the size -1 is far past its end, as 2^32 - 1 is past every real one's.

**Symmetry** over requests of a direction, bios and processes is used in the runs
without liveness: nothing in the code distinguishes them.

**Fairness.** In `BlockQueue`, `Fairness` asks for weak fairness of the driver's
side (it keeps
asking for requests, takes them and ends them), of the loop of a barrier and of
time. The strategy routine is called again whenever the queue is unplugged and
after every completion, and the loop of a barrier runs with the lock held. In
`RequestPool` processes that are not asleep get on, the timer expires, its
handler and its work run, and the device ends what it took. In `DirectIO` the
worker gets on unless it sleeps, the device ends every bio, and the work queue
runs `bio_dirty_fn`. In `ScsiTrace` the player gets on and the sg driver's timeout
brings a reply to every command. No
fairness is asked of the submitters, of failures, of requeues or of
the ioctls.

## Proofs

For all values of the constants that satisfy `IoschedAssumption` and
`BlockQueueAssumption` (any sets of requests, bios and files, any integer
priorities, any tunables), with the switches in any position:

| Theorem | Property |
|---|---|
| `TypeCorrect` | `TypeOK` |
| `EveryRequestOwnedOnce` | `OneOwner` |
| `SortListsMatchFifos` | `ListsAgree` |
| `HintsNeverDangle` | `NoDangling` |
| `QosQueueConsistent` | `QosQueueSound` |
| `WritesStarveBoundedly` | `StarvedBound` |
| `RequestsFitDevice` | `SizeBound` (no run checks it: it is a bound on every request, which the theorem gives for all sizes) |
| `BiosServedOnce` | `BioChains` |
| `StartedRequestsShrink` | `StartedOnlyShrinks` |
| `BarriersOrderRequests` | `BarrierOrder` |

The first seven follow from one inductive invariant, `Inv`: the conjunction of the
seven and of `ChainLength`, which ties the length of a chain to `nr_sectors`.
None is inductive alone. To see that a removal leaves no dangling hint one must
know that the flag leads it to the right lists; for that, that no request is on
two lists; for that, that what a driver puts back is on none. `ChainLength` is
needed because what decides whether a completed request still has bios is
`nr_sectors`' counterpart, the chain.

The proof goes along the layers of the code:

1. `SeqLemmas`: what the list operations do to a list without repetitions and
   to the set of its elements.
2. `DeadlineProofs`: every scheduler operation takes a well-formed queue to a
   well-formed queue, and what it does to the lists. Inside an operation the
   queue is *not* well formed: during a front merge the request is on the fifo
   and not on the tree, and during an insertion it is hashed before it is filed.
   `WellFormed(q, F, H)` therefore has two parameters: the requests that are for
   now on a fifo only (`F`) and those that are hashed or hinted at only (`H`).
   With both empty it is the scheduler's part of `Inv` (`WellFormedAtRest`).
3. `BlockQueueProofs`: one lemma per action, and the theorems. The lemmas about
   submitting a bio also establish `BioQueued`, what the submission did to the
   chains: the bio started a request, joined one at either end, or closed the gap
   between two, and nothing but free and sorted requests was touched.
4. `BioChains` is proved on top of `Inv`, from `BioQueued` and the like. It needs
   `FreeEmpty` beside it (a free request has no bios): `get_request` hands a
   structure out again, and a chain left in it would be served a second time.
   That neighbours on a merged chain are neighbours on the disk comes from the
   merge lookups (`MergeAdjoins`) and the test of `attempt_merge`.
   `StartedOnlyShrinks` follows from the same effects: only free and sorted
   requests grow, and a started request is neither.
5. `BarrierOrder` is proved on top of `Inv` with `LineInv`. What it says of the
   dispatch list is kept only because everything that can still be put behind the
   list is of one epoch, the current one: no request on the list is of a later one
   and every barrier on it is of an earlier one (`LineOrder`), what is being sorted
   is of it and is no barrier (`SortedNow`), and the bios of a request are of one
   epoch and one QoS structure (`Pure`), so that the head of a chain speaks for
   all of it after a part of the chain has ended. While a new barrier drains the
   sort lists the current epoch is the barrier's own, although `epoch` has moved on;
   it becomes `epoch` when the lists are empty and the barrier is put behind them. A
   request that comes back from the driver is special and is not ordered any more,
   also when it is a barrier that drains the lists a second time.

For all values that satisfy `SearchAssumption` (any size of a track, any number
of tracks and cylinders as long as twice the disk's blocks are an unsigned int, any
seek time, any contents of unset memory) and `SizesAssumption` (any traces over the commands of
the trace language, any mode pages), in `ScsiProofs`:

| Theorem | Property |
|---|---|
| `SearchKeepsBest` | `BestBracketed` |
| `SearchIsNearShortest` | `NearShortest`, for cylinders of up to 2^20 blocks |
| `RepliesAreTheirOwn` | `RepliesMatch` |
| `CachesSwitched` | `CachesAsAsked` |

`BestBracketed` is the loop invariant of the halving, but it is not inductive: that
the middle is sooner than the end says nothing of a block reached soonest below the
middle. `Bracket` does: the end of the range is not later than its start, or the
start itself is reached soonest. It holds at first because the end of whole
revolutions is one block earlier in a revolution than their start
(`WholeRevolutions`), each step keeps it (`NarrowKeepsBest`), and between two blocks
of which the later is not reached later, the times fall (`Falls`), on however many
tracks. Both are facts about `%` with an unknown divisor, which the prover gets from
the uniqueness of division (`DivisionUnique`). `NearShortest` says that the bracket
has closed when the search gives up, after 20 halvings: hence the bound on the
cylinder, which no disk comes near. Its invariant halves the width of the bracket
with every measurement. For the curve, `CurveInv` says of each cylinder passed that
it has its point or was not asked for, that none of them broke the curve off, and
(`SizesKnown`, `UnmappedTrack`) that a size of -1 gives either a search with nothing
to halve or a middle past the end of the disk.
`RepliesMatch` holds because while the player waits for a reply the driver has
nothing but the command just written (`ReplyInv`), also after an interrupted read.
For `CachesAsAsked`, `SwitchInv` follows a `B` line through its mode senses and
selects: the page that was sensed is the disk's, each select changes one bit of it,
and the bits already switched stay as asked; over the lines after it, that no other
line touches the page (`Before`).

With `TaggedQueueAssumption` as well (any depths, any size of the words of
`tag_map`; `NULL` is not a table):

| Theorem | Property |
|---|---|
| `TagRecordsAgree` | `TagsAgree` |
| `TagFindsRequest` | `AnswersMatched` |
| `ResetKeepsOrder` | `ResetRestarts` |

The invariant is `TagInv`: `Inv`, the types of the table and `TagsAgree`, and that an
invalidation runs only while there is a table. `Inv` is needed because nothing in
the tagging code keeps a request from being tagged twice: what `elv_next_request`
hands out is on the dispatch list, hence not with the driver, hence not tagged.
`Book(t, tg, T)` states the agreement of a table with the requests `T` and is kept
by each operation on the table. The one arithmetical step is `FirstFree`: when the
scan over full words does not give up, the first clear bit is below the depth,
because the bits from the depth to the end of the last word are always set.

`ResetRestarts` is an action property of the last step of an invalidation, whose
loop takes one step per request and more when one of them is a barrier. Its
invariant, `ResetInv`, has three parts. The busy list is what the device was given,
backwards, through ends and requeues out of order (`Given`). Only file system
requests are barriers, so a command is never held up to drain the queue
(`HardCmds`). And during the loop (`Redoing`) what is back was given after what is
still out, and ahead of every command that is back there are only commands that were
given before it (`AtFront`). Each pass puts what was given last in front of the rest,
while best-effort, QoS and barrier requests, and what they drain, only add to the end
of the dispatch list.

For all values that satisfy `PoolAssumption` (any finite set of processes, any size
of the free lists that `blk_dev_init` computes, any depth of the device and any
unplug threshold):

| Theorem | Property |
|---|---|
| `TypeCorrect` | `TypeOK` |
| `RequestsBalance` | `NoRequestLeak` |
| `WakeupsSuffice` | `NoLostWakeup` |
| `CongestionRight` | `CongestionTracksCount` |
| `QueueAttended` | `QueueNotForgotten` |
| `StopRespected` | `OnlyDriverRunsStopped` |

`PoolInvariant` gives the inductive invariant they follow from. `NoRequestLeak`
is `Balanced`: what is free, queued, with the device, and in the hands of a process
that found its bio served meanwhile adds up to the list. `NoLostWakeup` is not
inductive: a free request wakes one process, others fall asleep before that one
runs. `EnoughWoken` bounds the free requests by the batch plus the number of
processes woken and not yet served; `Waiters` says who is on a wait queue, so that
a wakeup finds a process that counts. `QueueNotForgotten` needs `PlugTimed` (a
plugged queue has its timer, its handler or its work pending) and, in `Attended`,
that a stopped queue is started again. `StopRespected` is a statement about steps:
of all that reach `request_fn` while the flag is set, only the driver's own calls
(`DriverRuns`) may give it a request.

For all values that satisfy `FileQosAssumption` (any finite sets of processes,
descriptors and I/Os):

| Theorem | Property |
|---|---|
| `ReferencesCounted` | `NoUseAfterFree` |
| `BiosHaveQos` | `QosOutlivesBio` |
| `PriorityInitialised` | `SuccessInitialises` |
| `PriorityStays` | `PriorityKept` |

`FileQosInvariant` gives the inductive invariant. That nothing freed is used is not
inductive: `f_count` must be *equal* to the number of descriptors, callers and bios
that hold the file (`Counted`), and a file that is being opened, or is the kernel's
own, must be led to by one process only (`Alone`). `Locked` says where an ioctl has
the big kernel lock and where it gave it up to sleep, which is when a second ioctl
on the file may run. `Structures` says which QoS structures exist, that one without
a priority is still being written or its ioctl failed, that no two files share one,
and what became of the priorities that were acknowledged.

For all values that satisfy `DirectIOAssumption` (any requests, sizes of pages and
blocks, limits of the device and of the reaping, and errnos below the size of a
sector):

| Theorem | Property |
|---|---|
| `FailuresReturned` | `FailureReported` |
| `AnsweredOnce` | `AnsweredAtRest`: a request is answered at most once, and only when no bio of it is busy (part of what `KeepsPromise` checks) |
| `DataReachesDisk` | `NoLostData` |
| `ReferencesBalanced` | `PagesReleased` |

`DirectIOInvariant` gives the inductive invariant, which says of a running request
where its worker is (`Placed`), that `bio_count` is the number of bios under way and
the worker's share (`Counted`), and where the error of a failed bio is kept
(`Noted`): in `ret2` while the loop runs, since `dio.result` still grows and would
hide it, and in `ret` or `dio.result` afterwards. The delicate place is
`dio_zero_block(dio, 0)`, whose caller does not look at the return value: nothing is
lost there because it comes before the first chunk of data, when there is no page
to send and so no bio to reap (`~Zeroed => cur = NONE`).

`NoLostData` is about the end only. Before it, `FreshInv` says of every page with
data no one has written back that it is dirty or in a bio that will still dirty it:
one that has not been completed, or one whose clean pages wait for `bio_dirty_fn`
(`WillDirty`); pdflush may clean it at any moment in between.
`PagesReleased` is a balance, `RefInv`: at any time the references on a page are
those counted in `kept`, those of the chunks of bios that still have theirs (all
chunks until a bio is completed, then the ones left to `bio_dirty_fn`), and what the
worker holds: once for every time the page is queued, is in the bio under assembly,
is deferred in `cur`, and is being cut up. What the worker holds depends on where it
is, so `Present` says of each place which of the four there are; each step moves
references between the sides, and a lemma per step says which. After a BUG_ON the
invariant says nothing, for the worker stops without letting go.

Only model-checked: what `DirectIO` says of places on disk (`DataPlacement`,
`NewBlocksFilled`) and the refinement `KeepsPromise`, which rest on sums over
segments and on the arithmetic of blocks; `TraceReplayed` and the invariants of
`CacheProbe`, which compare a run with what a recursive definition computes; and
`EveryBioServed`, `Quiesces`, `EveryRequestAnswered` and `EveryTraceEnds`, since
liveness under fairness is beyond the prover.

## Where the code and its documents disagree

Three are violation runs; `PROJECT.json` quotes the lines. Only the head of the
QoS queue is looked at, and a request may be queued behind one of lower
priority, so a request of high priority may wait for best effort (`qos_first`).
`seekToMin` returns the block just before the soonest one (`seek_to_min`). It measures
from the destination track on and counts from the start of the cylinder, and it
searches as many blocks as the whole cylinder has (`scsibench.cc:1424`; `seekCurve`
divides by `track_per_cyl`, `:1521`), over several falls of which one stays
bracketed. For a bad cylinder or a start past the end it returns 0. Only a call in a
comment (`main.cc:443`) uses it.
`dio_zero_block` pads the last block also when the first page of the request faulted
and no block was ever mapped; it then reads a `map_bh` nobody has set and, if it
finds `BH_New` there, submits the zero page at block -1 (`pad_unmapped`). The requests
of `direct_io` fault later than that, or are aligned.

Others met on the way, which the models contain as the code has them and no
property contradicts:

* A barrier drains the two sort lists and not the QoS queue, and the dispatch list
  is served first (`deadline-iosched.c:744`, `:699`): it overtakes QoS requests,
  although `ucsb-doc/related/bionotes.txt:232` says "All requests before a barrier
  point must be serviced before the barrier request". `BarrierOrder` is about best
  effort.
* Requests of one sector go straight to the dispatch list
  (`deadline-iosched.c:223`) and count neither as a batch nor against the
  deadlines: reads of one sector that keep arriving starve a write, whatever
  `writes_starved` (`:28`) says. `live` leaves such reads out.
* Three calls run a queue its driver stopped, against the comment on
  `blk_stop_queue` (`ll_rw_blk.c:1069`): `__blk_run_queue` (`:1086`) removes the plug
  and calls `request_fn` without a look at the flag, `blk_start_queue` clears it before
  it takes the lock (`:1037`), and `blk_insert_request` (`:1436`) does not look at it.
  All three are the driver's own; `OnlyDriverRunsStopped` says that nothing else does.
* The read-ahead test (`ll_rw_blk.c:1795`) looks for a bit of `bi_rw` in
  `bi_flags`, so that read-ahead never gives up, although `:1781` says it does.
* `blk_queue_invalidate_tags` puts the requests back "in the right order"
  (`ll_rw_blk.c:614`), each through the scheduler: a barrier among them is put at
  the end of the dispatch list, behind requests that were started after it.
  `ResetRestarts` is about the requests that are not sorted.
* `UCSB_IO_BESTEFFORT` tests `f_qos` the wrong way round (`ioctl.c:135`).
* `dio_bio_reap` keeps the result of the last bio it takes, so that an error
  before it is forgotten (`direct-io.c:402`; `hist.masked`); an asynchronous
  request adds byte counts to an error it has stored; when a read meets the end
  of the file in a hole, the pages queued behind it stay pinned, and so do the
  pages `bio_dirty_fn` dirties while other pages of the bio are clean
  (`hist.kept`).
* `trace.cc:22` says "Reg[0] is always 0 !", and `T 0` sets it. `scsibench.h:60`
  has a code for "RETRY", and no caller retries: after an interrupted read every
  later command of the trace fails. A failed mode sense is followed by a mode
  select of a blank page.
* `MTBRCwr` times its first measurement after a read of block 0 instead of the
  write of the start block; its result is left out of the properties.
* `findMappingCommand` gives a good cylinder in front of a bad one the size -1 and
  leaves its `bad` FALSE (`scsibench.cc:203`-`205`), and never sets the size of the last
  cylinder. `seekCurve` looks at `bad` only: with two or more tracks to a cylinder it
  prints 9e30 for the point of such a cylinder, with one track it ends the curve
  there, although "prints seek curve from start_cyl to max distance (both sides)"
  (`:1482`); at the last cylinder it prints whatever comes out. `NearShortest` says
  exactly this: its points are right where the size is known. A mapping read from a
  file (`loadMapping`) calls those cylinders bad.
* `findCacheBlocksNumber` undercounts a first-in-first-out cache of five segments
  or more when block 0 is still cached; `BlocksFound` excludes that (`fresh`).
  `findDiscardRead` times its own `usleep`, so it always answers 0.

## Not modelled, and why

*Kernel.* Bounce buffers, partition remapping and disk statistics, which change no
queue; sysfs and `/proc`, which print; the noop elevator, which `blk_init_queue`
never chooses; in `BlockQueue`, sizes and segments of bios beyond one sector each.
A merge function other than the default `ll_*` ones would need the driver's code.
A request that
`prep_rq_fn` defers is marked started and stays on the dispatch list like one
that was handed out; the model does not tell the two apart. Waking the sleepers
of `blk_congestion_wait` changes nothing their timeout may not do at any time,
and is left to it. `blk_cleanup_queue` and several queues on the plug list are
not modelled. Of `bio.c`, pools (an allocation that may sleep succeeds), clones,
`bio_map_user` and pairs, which neither direct I/O nor the queue uses; of
`direct-io.c`, `clean_blockdev_aliases`, which acts on other caches. `FileQos`
leaves out `fs_may_remount_ro` and the other commands of `sys_ioctl`. `genhd.c`
runs at boot.

*scsibench.* Text output and the bytes of a CDB; commands no trace sends;
`ScsiCmdBuffer`, which nothing uses. What computes with floating-point times
throughout, or is about reading and writing files of mappings: `findCylSkew`,
`findMappingEmp`, `findZones`, `rotCurve`,
`findThroughput`, the averages over seek curves, the differences
`findHeadSwitch` and `findWriteSet`, and the simulator of `experiment/`; of
`findMappingCommand` and `loadMapping`, all but what they leave in `bad` and `size`.
`seekToMin` with a `dest_track` the cylinder does not have, which it reports and uses
all the same (`scsibench.cc:1413`). Noise in
the measured times: the properties of `CacheProbe` hold for a disk whose misses
are more than five times as slow as its hits.

*Hazards covered in part.* `QosQueueSound` says that a priority changed while its
requests are queued loses none and files none twice; it says nothing of their order,
which the code does not keep. `PriorityKept` exempts two first ioctls on a file that
race: each allocates a structure, and the second replaces the first with the priority
it acknowledged. `CachesAsAsked` is about traces in which nothing failed; what the
blank page after a failed mode sense does to the disk no property judges.

## Plan

Done: the queue and its proofs, the pool, tags, files, direct I/O with its
abstract specification, traces, cache probes and searches. Next:

1. Proofs: `KeepsPromise`, and the places of `DataPlacement` it rests on.
2. An abstract block queue (a set of pending bios, a barrier order) that
   `BlockQueue` implements for best effort.
3. `bio_map_user` and the pairs of `bio.c`, and several queues on the plug list.
