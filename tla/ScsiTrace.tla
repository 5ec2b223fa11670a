------------------------------ MODULE ScsiTrace ------------------------------
(***************************************************************************)
(* Scsibench's trace player (trace.cc, ScsiDisk::executeTraceFile) on top  *)
(* of its command layer (scsidevice.cc, scsicmd.cc) and of the caching     *)
(* mode page (ScsiDisk::setCache).                                         *)
(*                                                                         *)
(* A trace is a sequence of lines.  R, W and S lines become SCSI commands, *)
(* R and W lines in chunks that fit the generic SCSI driver's buffer; a B  *)
(* line reads, changes and writes back the caching page once per cache; T, *)
(* +, -, / and P lines work on the registers; I waits.                     *)
(*                                                                         *)
(* Every command is one write(2) and one read(2) on the sg device, which   *)
(* is external: it holds one command per descriptor, refuses a second one  *)
(* with EDOM, and the disk behind it serves the command at any later time. *)
(* Either call may fail, a command may end in an error, and a read that    *)
(* is interrupted leaves its reply in the driver: at most MaxFaults times. *)
(***************************************************************************)
EXTENDS Integers, Sequences, SequencesExt, FiniteSetsExt

CONSTANTS
    Traces,                \* the trace files: sequences of [op, arg]
    Pages,                 \* the caching pages the disk may start with
    MAX,                   \* number of registers
    SCSI_OFF,              \* bytes of the generic SCSI header
    SG_DEF_RESERVED_SIZE,  \* bytes of the sg driver's buffer
    MaxFaults              \* bound on the failures of the device

(* The bytes of the caching page no cache is switched by, as the disk has  *)
(* them.                                                                   *)
RestOfPage == 1

ASSUME SizesAssumption ==
    /\ MAX \in Nat \ {0}
    /\ SCSI_OFF \in Nat
    /\ SG_DEF_RESERVED_SIZE \in Nat
    /\ Traces \subseteq Seq([op : {"T", "+", "-", "/", "P", "I", "C", "S", "R", "W", "B"},
                            arg : Seq(Int)])
    /\ Pages \subseteq [RCD : BOOLEAN, WCE : BOOLEAN, DISC : BOOLEAN, ABPF : BOOLEAN,
                        DRA : BOOLEAN, rest : {RestOfPage}]

VARIABLES
    trace,    \* the file being executed
    line,     \* the line being executed
    pc,       \* where executeTraceFile is
    Reg,      \* the registers; Reg[0] is the first
    rem,      \* rem_start and rem_size of an R or W line
    which,    \* the cache a B line is at: 0 read, 1 write, 2 prefetch
    cachepage,\* the page setCache changes: the reply of cmd1
    cmd,      \* the command handed to handleCmd
    sg,       \* the driver's one command, or Idle
    page,     \* the disk's caching page
    clock,    \* the time stamp counter
    printed,  \* the values printed
    \* What the properties are about, kept beside the state:
    serial,   \* number of the command being handled
    taken,    \* numbers of the commands answered, with the reply's number
    moved,    \* what the disk served, in order: [op, lba]
    faults    \* failures so far

player == <<trace, line, pc, Reg, rem, which, cachepage, cmd, clock, printed>>
vars == <<player, sg, page, serial, taken, moved, faults>>

BLOCK_SIZE == 512
SG_BIG_BUFF == SG_DEF_RESERVED_SIZE

-----------------------------------------------------------------------------
(* The caching mode page: bits of bytes 2 and 12, and all its other bytes. *)

(* The page of a reply that never came: ModePage::Init sets only its code. *)
BlankPage ==
    [RCD |-> FALSE, WCE |-> FALSE, DISC |-> FALSE, ABPF |-> FALSE,
     DRA |-> FALSE, rest |-> 0]

setReadCache(p, value) == [p EXCEPT !.RCD = ~value]
setWriteCache(p, value) == [p EXCEPT !.WCE = value]
setAbortPrefetch(p, value) ==
    [p EXCEPT !.DISC = value, !.ABPF = value, !.DRA = value]

(* The switch of setCache; the prefetch state is stored negated. *)
changed(p, cache, state) ==
    CASE cache = 0 -> setReadCache(p, state)
      [] cache = 1 -> setWriteCache(p, state)
      [] cache = 2 -> setAbortPrefetch(p, ~state)

(* Bits 0, 1 and 2 of a B line's number turn the three caches on. *)
asked(n, cache) == (n \div 2^cache) % 2 = 1

-----------------------------------------------------------------------------
(* Commands *)

MODE_PAGE_REPLY_HEADER_LEN == 4
getPageSize == 20

(* A command's lengths, whether it is new or an old one resized.  A bucket *)
(* command, or one with nothing to carry, has no data of its own: the      *)
(* device's bit bucket is sent or received into instead.                   *)
scsi_cmd_info(cmd_len, in_len, in_bucket, result_len, result_bucket) ==
    [cmd_len |-> cmd_len, in_size |-> in_len, result_size |-> result_len,
     in_data |-> ~in_bucket /\ in_len > 0,
     result_data |-> ~result_bucket /\ result_len > 0]

(* executeTraceFile reads into the bit bucket, and writes from it (inbuf   *)
(* is NULL).                                                               *)
ReadXCmd(lba, sectors) ==
    [op |-> "R", lba |-> lba, sectors |-> sectors,
     info |-> scsi_cmd_info(10, 0, FALSE, sectors * BLOCK_SIZE, TRUE)]
WriteXCmd(lba, sectors) ==
    [op |-> "W", lba |-> lba, sectors |-> sectors,
     info |-> scsi_cmd_info(10, sectors * BLOCK_SIZE, TRUE, 0, FALSE)]
SeekXCmd(lba) ==
    [op |-> "S", lba |-> lba, sectors |-> 0,
     info |-> scsi_cmd_info(10, 0, FALSE, 0, FALSE)]
ModeSenseCmd ==
    [op |-> "sense",
     info |-> scsi_cmd_info(6, 0, FALSE, MODE_PAGE_REPLY_HEADER_LEN + getPageSize, FALSE)]
ModeSelectCmd(p) ==
    [op |-> "select", page |-> p,
     info |-> scsi_cmd_info(6, MODE_PAGE_REPLY_HEADER_LEN + getPageSize, FALSE, 0, FALSE)]

(* What the safety check of doInit lets through. *)
fits(c) ==
    /\ SCSI_OFF + c.info.cmd_len + c.info.in_size <= SG_BIG_BUFF
    /\ SCSI_OFF + c.info.result_size <= SG_BIG_BUFF * 512

-----------------------------------------------------------------------------
(* The sg driver and the disk (external). *)

Idle == [state |-> "idle", id |-> 0]

(* What a served command leaves in the disk's log: a seek, or its sectors. *)
Moves(c) ==
    CASE c.op = "S" -> <<[op |-> "S", lba |-> c.lba]>>
      [] c.op \in {"R", "W"} ->
           [i \in 1..c.sectors |-> [op |-> c.op, lba |-> c.lba + i - 1]]
      [] OTHER -> <<>>

(* The disk serves the command it was sent, or ends it with an error.  The *)
(* reply then waits in the driver.                                         *)
Serve ==
    /\ sg.state = "sent"
    /\ clock' = clock + 1
    /\ \/ /\ moved' = moved \o Moves(sg.cmd)
          /\ page' = IF sg.cmd.info.in_data THEN sg.cmd.page ELSE page
          /\ sg' = [state |-> "reply", id |-> sg.id, page |-> page]
          /\ UNCHANGED faults
       \/ /\ faults < MaxFaults
          /\ faults' = faults + 1
          /\ sg' = [state |-> "reply", id |-> sg.id, page |-> BlankPage]
          /\ UNCHANGED <<moved, page>>
    /\ UNCHANGED <<trace, line, pc, Reg, rem, which, cachepage, cmd, printed,
                   serial, taken>>

-----------------------------------------------------------------------------
(* handleCmd: doInit, doWrite and doRead.  Its callers ignore the result,  *)
(* and none asks for an exception: they go on where they were.  Only       *)
(* doInit throws, on a command that does not fit: the exception reaches    *)
(* executeTraceFile, which prints it and returns.                          *)

handleCmd(c) ==
    /\ cmd' = c
    /\ serial' = serial + 1
    /\ pc' = IF fits(c) THEN "write" ELSE "thrown"

(* Back to the caller: the R and W loops, the S line, setCache's two calls.*)
Return ==
    pc' = CASE cmd.op \in {"R", "W"} -> "next_chunk"
            [] cmd.op = "S" -> "next_line"
            [] cmd.op = "sense" -> "change"
            [] cmd.op = "select" -> "next_cache"

(* doWrite on a driver that is not busy: accepted. *)
write_accepted ==
    /\ sg.state = "idle"
    /\ sg' = [state |-> "sent", id |-> serial, cmd |-> cmd]
    /\ pc' = "read"
    /\ UNCHANGED faults

write_busy_goes_on ==
    /\ sg.state # "idle"
    /\ pc' = "read"
    /\ UNCHANGED <<sg, faults>>

(* A busy driver answers EDOM, and doWrite returns 2: handleCmd fails. *)
write_busy ==
    /\ sg.state # "idle"
    /\ Return
    /\ UNCHANGED <<sg, faults>>

write_failed_goes_on ==
    /\ faults < MaxFaults
    /\ faults' = faults + 1
    /\ pc' = "read"
    /\ UNCHANGED sg

(* Any other failure of write(2): doWrite returns 1. *)
write_failed ==
    /\ faults < MaxFaults
    /\ faults' = faults + 1
    /\ Return
    /\ UNCHANGED sg

doWrite ==
    /\ pc = "write"
    /\ write_accepted \/ write_busy \/ write_failed
    /\ UNCHANGED <<trace, line, Reg, rem, which, cachepage, cmd, clock, printed,
                   page, serial, taken, moved>>

(* doRead: a reply with data of its own, that of a mode sense, is the page *)
(* setCache goes on with; a reply that says the command failed makes       *)
(* handleCmd fail.                                                         *)
read_reply ==
    /\ sg.state = "reply"
    /\ sg' = Idle
    /\ taken' = taken \union {<<serial, sg.id>>}
    /\ cachepage' = IF cmd.info.result_data THEN sg.page ELSE cachepage
    /\ UNCHANGED faults

(* read(2) fails: the reply, when it comes, stays in the driver. *)
read_interrupted ==
    /\ faults < MaxFaults
    /\ faults' = faults + 1
    /\ UNCHANGED <<sg, taken, cachepage>>

doRead ==
    /\ pc = "read"
    /\ read_reply \/ read_interrupted
    /\ Return
    /\ UNCHANGED <<trace, line, Reg, rem, which, cmd, clock, printed, page,
                   serial, moved>>

-----------------------------------------------------------------------------
(* executeTraceFile *)

Init ==
    /\ trace \in Traces
    /\ line = 1
    /\ pc = "next_line"
    /\ clock = 1
    /\ Reg = [n \in 0..MAX - 1 |-> IF n = 1 THEN clock ELSE 0]
    /\ rem = [start |-> 0, size |-> 0]
    /\ which = 0
    /\ page \in Pages
    /\ cachepage = BlankPage
    /\ cmd = SeekXCmd(0)
    /\ sg = Idle
    /\ printed = <<>>
    /\ serial = 0
    /\ taken = {}
    /\ moved = <<>>
    /\ faults = 0

(* Between two lines: after the last one the file is at its end. *)
AtLine(ops) ==
    /\ pc = "next_line"
    /\ line <= Len(trace)
    /\ trace[line].op \in ops

arg(i) == trace[line].arg[i]
registers(s) == \A i \in s : arg(i) \in 0..MAX - 1

device == <<sg, page, serial, taken, moved, faults, cmd, which, cachepage, rem>>

(* An unknown register, or a division by 0, ends the program. *)
exit ==
    /\ pc' = "exit"
    /\ UNCHANGED <<trace, line, Reg, clock, printed, device>>

NextLine ==
    /\ line' = line + 1
    /\ UNCHANGED <<trace, pc, clock, device>>

(* T n: the time into register n. *)
TimeLine ==
    /\ AtLine({"T"})
    /\ IF registers({1})
       THEN /\ Reg' = [Reg EXCEPT ![arg(1)] = clock]
            /\ UNCHANGED printed
            /\ NextLine
       ELSE exit

(* +, - and /: r0 = 0 prints the result, any other r0 stores it.  The last *)
(* operand of / is a number.                                               *)
result(op) ==
    CASE op = "+" -> Reg[arg(2)] + Reg[arg(3)]
      [] op = "-" -> Reg[arg(2)] - Reg[arg(3)]
      [] op = "/" -> Reg[arg(2)] \div arg(3)

legal(op) ==
    IF op = "/" THEN registers({1, 2}) /\ arg(3) # 0 ELSE registers({1, 2, 3})

store(r, v) ==
    IF r = 0
    THEN printed' = Append(printed, v) /\ UNCHANGED Reg
    ELSE Reg' = [Reg EXCEPT ![r] = v] /\ UNCHANGED printed

ArithmeticLine ==
    /\ AtLine({"+", "-", "/"})
    /\ LET op == trace[line].op
       IN  IF legal(op) THEN store(arg(1), result(op)) /\ NextLine ELSE exit

(* P n prints register n. *)
PrintLine ==
    /\ AtLine({"P"})
    /\ IF registers({1})
       THEN printed' = Append(printed, Reg[arg(1)]) /\ UNCHANGED Reg /\ NextLine
       ELSE exit

(* I t: time passes.  C, V and unknown lines change only what is printed.  *)
OtherLine ==
    /\ AtLine({"I", "C"})
    /\ clock' = IF trace[line].op = "I" THEN clock + arg(1) ELSE clock
    /\ line' = line + 1
    /\ UNCHANGED <<trace, pc, Reg, printed, device>>

(* S lba: one command. *)
SeekLine ==
    /\ AtLine({"S"})
    /\ handleCmd(SeekXCmd(arg(1)))
    /\ line' = line + 1
    /\ UNCHANGED <<trace, Reg, rem, which, cachepage, clock, printed, sg, page,
                   taken, moved, faults>>

(* R lba n and W lba n: as many commands as max_size asks for. *)
max_size == SG_DEF_RESERVED_SIZE \div BLOCK_SIZE - 2
TransferLine ==
    /\ AtLine({"R", "W"})
    /\ rem' = [start |-> arg(1), size |-> arg(2)]
    /\ pc' = "chunk"
    /\ UNCHANGED <<trace, line, Reg, which, cachepage, cmd, clock, printed, sg,
                   page, serial, taken, moved, faults>>

Chunk ==
    /\ pc = "chunk"
    /\ IF rem.size > 0
       THEN /\ LET n == IF rem.size > max_size THEN max_size ELSE rem.size
               IN  handleCmd(IF trace[line].op = "R"
                             THEN ReadXCmd(rem.start, n)
                             ELSE WriteXCmd(rem.start, n))
            /\ UNCHANGED line
       ELSE /\ pc' = "next_line"
            /\ line' = line + 1
            /\ UNCHANGED <<cmd, serial>>
    /\ UNCHANGED <<trace, Reg, rem, which, cachepage, clock, printed, sg, page,
                   taken, moved, faults>>

rest_of_same_start(r) ==
    IF r.size > max_size THEN [r EXCEPT !.size = r.size - max_size]
    ELSE [r EXCEPT !.size = 0]

rest_of(r) ==
    IF r.size > max_size
    THEN [start |-> r.start + max_size, size |-> r.size - max_size]
    ELSE [r EXCEPT !.size = 0]

NextChunk ==
    /\ pc = "next_chunk"
    /\ rem' = rest_of(rem)
    /\ pc' = "chunk"
    /\ UNCHANGED <<trace, line, Reg, which, cachepage, cmd, clock, printed, sg,
                   page, serial, taken, moved, faults>>

(* B n: setCache for the three caches in turn: mode sense ... *)
CacheLine ==
    /\ AtLine({"B"})
    /\ which' = 0
    /\ pc' = "sense"
    /\ UNCHANGED <<trace, line, Reg, rem, cachepage, cmd, clock, printed, sg,
                   page, serial, taken, moved, faults>>

Sense ==
    /\ pc = "sense"
    /\ handleCmd(ModeSenseCmd)
    /\ cachepage' = BlankPage
    /\ UNCHANGED <<trace, line, Reg, rem, which, clock, printed, sg, page,
                   taken, moved, faults>>

page_to_select_unset == changed(BlankPage, which, asked(arg(1), which))

(* ... then a mode select of the page read, changed, failed or not. *)
page_to_select == changed(cachepage, which, asked(arg(1), which))

Change ==
    /\ pc = "change"
    /\ handleCmd(ModeSelectCmd(page_to_select))
    /\ UNCHANGED <<trace, line, Reg, rem, which, cachepage, clock, printed, sg,
                   page, taken, moved, faults>>

NextCache ==
    /\ pc = "next_cache"
    /\ IF which < 2
       THEN which' = which + 1 /\ pc' = "sense" /\ UNCHANGED line
       ELSE pc' = "next_line" /\ line' = line + 1 /\ UNCHANGED which
    /\ UNCHANGED <<trace, Reg, rem, cachepage, cmd, clock, printed, sg, page,
                   serial, taken, moved, faults>>

EndOfFile ==
    /\ pc = "next_line"
    /\ line > Len(trace)
    /\ pc' = "end"
    /\ UNCHANGED <<trace, line, Reg, clock, printed, device>>

Next ==
    \/ TimeLine \/ ArithmeticLine \/ PrintLine \/ OtherLine \/ SeekLine
    \/ TransferLine \/ Chunk \/ NextChunk
    \/ CacheLine \/ Sense \/ Change \/ NextCache \/ EndOfFile
    \/ doWrite \/ doRead
    \/ Serve

(* The player always takes its next step; a read returns once the reply is *)
(* there, and the driver's timeout brings a reply to every command.        *)
Spec == Init /\ [][Next]_vars /\ WF_vars(Next)

-----------------------------------------------------------------------------
(* Properties *)

(* What line l of the trace asks of the disk, in order. *)
Wanted(l) ==
    CASE l.op \in {"R", "W"} ->
           [i \in 1..l.arg[2] |-> [op |-> l.op, lba |-> l.arg[1] + i - 1]]
      [] l.op = "S" -> <<[op |-> "S", lba |-> l.arg[1]]>>
      [] OTHER -> <<>>
AllWanted == FlattenSeq([i \in 1..Len(trace) |-> Wanted(trace[i])])

(* How much of the trace's work the disk's log accounts for, taken in      *)
(* order; more than there is when the log does not follow the trace.       *)
Followed ==
    FoldLeft(LAMBDA k, m :
               LET later == {i \in k + 1..Len(AllWanted) : AllWanted[i] = m}
               IN  IF later = {} THEN Len(AllWanted) + 1 ELSE Min(later),
             0, moved)

(* The disk moves the sectors the R, W and S lines name, each at most once *)
(* and in their order, however executeTraceFile cuts the lines into chunks *)
(* and whatever commands fail; and all of them when none failed.           *)
TraceReplayed ==
    /\ Followed <= Len(AllWanted)
    /\ pc = "end" /\ faults = 0 => moved = AllWanted

(* The reply doRead takes is the reply of the command just written, even   *)
(* after an interrupted read has left an older one in the driver (doWrite  *)
(* gives up on EDOM).                                                      *)
RepliesMatch == \A t \in taken : t[1] = t[2]

(* After a trace whose last cache line is B n, if nothing failed, the disk *)
(* has the three caches as n says and the rest of its page as it was.      *)
CachesAsAsked ==
    pc = "end" /\ faults = 0 =>
        \A i \in 1..Len(trace) :
            trace[i].op = "B" /\ (\A j \in i + 1..Len(trace) : trace[j].op # "B") =>
                /\ ~page.RCD <=> asked(trace[i].arg[1], 0)
                /\ page.WCE <=> asked(trace[i].arg[1], 1)
                /\ ~page.ABPF <=> asked(trace[i].arg[1], 2)
                /\ page.rest = RestOfPage

(* Every trace ends, at its end or at a bad register: no command waits for *)
(* ever, and no chunk is so long that doInit throws it out.                *)
EveryTraceEnds == <>(pc \in {"end", "exit"})
=============================================================================
