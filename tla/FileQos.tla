------------------------------ MODULE FileQos ------------------------------
(***************************************************************************)
(* The QoS of a file: sys_ioctl (fs/ioctl.c), the life of struct file      *)
(* (fs/file_table.c) and the moment dio_bio_submit (fs/direct-io.c) takes  *)
(* the QoS of a file for a bio.  The processes share a table of            *)
(* descriptors.  The ioctls run under the big kernel lock, which is        *)
(* dropped whenever its holder sleeps, in kmalloc or while it copies from  *)
(* user space; dio_bio_submit takes no lock.                               *)
(*                                                                         *)
(*   fd[d]        the file behind descriptor d, or NULL                    *)
(*   file[f]      f_count, f_qos, whether it is on the list of its super   *)
(*                block, and how far __fput has come                       *)
(*   obj[s]       a struct ucsb_io, NULL when it is not allocated          *)
(*   kernel_lock  the process that holds the big kernel lock, or NULL      *)
(*   proc[p]      where process p is, with its locals                      *)
(*   io[i]        a bio in flight, with its reference on the file          *)
(*   hist         the priority a file was last given; files for which two  *)
(*                ioctls allocated; structures whose ioctl failed          *)
(***************************************************************************)
EXTENDS Integers, FiniteSets

CONSTANTS
  Proc, Fds, File, Private, Obj, Io,   \* processes, descriptors, files, structures, bios
  Priorities,                          \* priorities that are asked for
  NULL, junk                           \* junk is what an uninitialised field holds

ASSUME FileQosAssumption ==
  /\ IsFiniteSet(Proc) /\ IsFiniteSet(Fds) /\ IsFiniteSet(Io)
  /\ Private \subseteq File
  /\ Priorities \subseteq Int /\ junk \notin Int
  /\ NULL \notin Proc /\ NULL \notin File /\ NULL \notin Obj
  /\ NULL \notin [type : {junk, "SOFT_RT"}, priority : Int \cup {junk}]
  /\ NULL \notin [filp : File, bi_qos : Obj \cup {NULL}]

VARIABLES fd, file, obj, kernel_lock, proc, io, hist

vars == <<fd, file, obj, kernel_lock, proc, io, hist>>

UCSB_DEF_PRIORITY == 16
Cmds == {"UCSB_IO_GET_QOS", "UCSB_IO_BESTEFFORT", "UCSB_IO_SOFT_RT", "UCSB_IO_PRIORITY"}

no_file == [f_count |-> 0, f_qos |-> NULL, listed |-> FALSE, stage |-> "free"]
resting == [pc |-> "idle", filp |-> NULL, cmd |-> NULL, arg |-> NULL, to |-> NULL, asleep |-> FALSE]

Init ==
  /\ fd = [d \in Fds |-> NULL]
  /\ file = [f \in File |-> no_file]
  /\ obj = [s \in Obj |-> NULL]
  /\ kernel_lock = NULL
  /\ proc = [p \in Proc |-> resting]
  /\ io = [i \in Io |-> NULL]
  /\ hist = [acked |-> [f \in File |-> NULL], raced |-> {}, failed |-> {}]

At(p, l) == proc[p].pc = l
Goto(p, l) == proc' = [proc EXCEPT ![p].pc = l]
Rest(p) == proc' = [proc EXCEPT ![p] = resting]

(***************************************************************************)
(* Files.  Opening is external: it gets a file, and installs it or not.    *)
(***************************************************************************)
get_empty_filp(p, f) ==
  /\ At(p, "idle") /\ file[f].stage = "free" /\ f \notin Private
  /\ file' = [file EXCEPT ![f] = [no_file EXCEPT !.f_count = 1, !.stage = "open"]]
  /\ hist' = [hist EXCEPT !.acked[f] = NULL, !.raced = @ \ {f}]
  /\ proc' = [proc EXCEPT ![p].pc = "open", ![p].filp = f]
  /\ UNCHANGED <<fd, obj, kernel_lock, io>>

\* The file was opened: file_move puts it on the list, the descriptor takes the reference.
fd_install(p, d) ==
  /\ At(p, "open") /\ fd[d] = NULL
  /\ fd' = [fd EXCEPT ![d] = proc[p].filp]
  /\ file' = [file EXCEPT ![proc[p].filp].listed = TRUE]
  /\ Rest(p)
  /\ UNCHANGED <<obj, kernel_lock, io, hist>>

\* It was not opened.
put_filp(p) ==
  /\ At(p, "open")
  /\ file' = [file EXCEPT ![proc[p].filp] = no_file]
  /\ Rest(p)
  /\ UNCHANGED <<fd, obj, kernel_lock, io, hist>>

\* A file of the kernel's own: no descriptor ever leads to it.
open_private_file(p, f) ==
  /\ At(p, "idle") /\ f \in Private /\ file[f].stage = "free"
  /\ file' = [file EXCEPT ![f] = [no_file EXCEPT !.f_count = 1, !.stage = "open"]]
  /\ proc' = [proc EXCEPT ![p].pc = "private", ![p].filp = f]
  /\ UNCHANGED <<fd, obj, kernel_lock, io, hist>>

close_private_file(p) ==
  /\ At(p, "private")
  /\ obj' = [s \in Obj |-> IF s = file[proc[p].filp].f_qos THEN NULL ELSE obj[s]]
  /\ file' = [file EXCEPT ![proc[p].filp] = no_file]
  /\ Rest(p)
  /\ UNCHANGED <<fd, kernel_lock, io, hist>>

\* Mutant: the one before the last reference already frees the file.
dec_and_test_early(n) == n <= 2
dec_and_test(n) == n = 1

\* fput: the file as it is after one reference less.
fput(f) ==
  file' = [file EXCEPT ![f].stage = IF dec_and_test(file[f].f_count) THEN "release" ELSE @,
                       ![f].f_count = @ - 1]

\* fget finds the file behind d and takes a reference.
fget(p, d, l) ==
  /\ At(p, "idle") /\ fd[d] # NULL
  /\ file' = [file EXCEPT ![fd[d]].f_count = @ + 1]
  /\ proc' = [proc EXCEPT ![p].pc = l, ![p].filp = fd[d]]

sys_close(p, d) ==
  /\ At(p, "idle") /\ fd[d] # NULL
  /\ fd' = [fd EXCEPT ![d] = NULL]
  /\ fput(fd[d])
  /\ UNCHANGED <<obj, kernel_lock, proc, io, hist>>

\* __fput: off the list first, then the memory.  f_qos is not freed.
file_kill(f) ==
  /\ file[f].stage = "release"
  /\ file' = [file EXCEPT ![f].stage = "killed", ![f].listed = FALSE]
  /\ UNCHANGED <<fd, obj, kernel_lock, proc, io, hist>>

file_free(f) ==
  /\ file[f].stage = "killed"
  /\ file' = [file EXCEPT ![f] = no_file]
  /\ UNCHANGED <<fd, obj, kernel_lock, proc, io, hist>>

(***************************************************************************)
(* ioctl                                                                   *)
(***************************************************************************)
sys_ioctl(p, d, cmd, arg) ==
  /\ At(p, "idle") /\ fd[d] # NULL
  /\ file' = [file EXCEPT ![fd[d]].f_count = @ + 1]
  /\ proc' = [proc EXCEPT ![p] = [resting EXCEPT !.pc = "lock", !.filp = fd[d], !.cmd = cmd, !.arg = arg]]
  /\ UNCHANGED <<fd, obj, kernel_lock, io, hist>>

Holds(p) == kernel_lock = p
qos(p) == file[proc[p].filp].f_qos

lock_kernel(p) ==
  /\ At(p, "lock") /\ kernel_lock = NULL
  /\ kernel_lock' = p
  /\ Goto(p, proc[p].cmd)
  /\ UNCHANGED <<fd, file, obj, io, hist>>

UCSB_IO_GET_QOS(p) ==
  /\ At(p, "UCSB_IO_GET_QOS")
  /\ Goto(p, "unlock")
  /\ UNCHANGED <<fd, file, obj, kernel_lock, io, hist>>

\* Mutant: the structure is freed, as the comment has it, and its bios stay behind.
UCSB_IO_BESTEFFORT_frees(p) ==
  /\ At(p, "UCSB_IO_BESTEFFORT")
  /\ obj' = [s \in Obj |-> IF s = qos(p) THEN NULL ELSE obj[s]]
  /\ file' = [file EXCEPT ![proc[p].filp].f_qos = NULL]
  /\ Goto(p, "unlock")
  /\ UNCHANGED <<fd, kernel_lock, io, hist>>
\* A file that has a QoS structure keeps it as it is.  One that has none is written through a
\* NULL pointer: the process dies, with the reference it has on the file, and do_exit gives
\* up the lock.
UCSB_IO_BESTEFFORT(p) ==
  /\ At(p, "UCSB_IO_BESTEFFORT")
  /\ \/ qos(p) # NULL /\ Goto(p, "unlock") /\ UNCHANGED kernel_lock
     \/ qos(p) = NULL /\ Goto(p, "oops") /\ kernel_lock' = NULL
  /\ UNCHANGED <<fd, file, obj, io, hist>>

\* Mutant: every call sets the priority back to its default.
soft_rt_defaults(s) == [type |-> "SOFT_RT", priority |-> UCSB_DEF_PRIORITY + 2]
\* SOFT_RT of a structure that exists: only its type.
soft_rt(s) == [obj[s] EXCEPT !.type = "SOFT_RT"]

\* UCSB_IO_SOFT_RT and UCSB_IO_PRIORITY: with a structure go on to copy the argument to it,
\* without one allocate it.
set_qos(p) ==
  /\ proc[p].pc \in {"UCSB_IO_SOFT_RT", "UCSB_IO_PRIORITY"}
  /\ \/ qos(p) = NULL /\ Goto(p, "alloc") /\ UNCHANGED obj
     \/ /\ qos(p) # NULL
        /\ obj' = IF proc[p].cmd = "UCSB_IO_SOFT_RT" THEN [obj EXCEPT ![qos(p)] = soft_rt(qos(p))] ELSE obj
        /\ proc' = [proc EXCEPT ![p].pc = "copy", ![p].to = qos(p)]
  /\ UNCHANGED <<fd, file, kernel_lock, io, hist>>

\* kmalloc returns s and f_qos leads to it at once; what it holds is left over.
kmalloc(p, s) ==
  /\ At(p, "alloc") /\ Holds(p) /\ obj[s] = NULL
  /\ obj' = [obj EXCEPT ![s] = [type |-> junk, priority |-> junk]]
  /\ file' = [file EXCEPT ![proc[p].filp].f_qos = s]
  /\ hist' = IF qos(p) # NULL THEN [hist EXCEPT !.raced = @ \cup {proc[p].filp}] ELSE hist
  /\ proc' = [proc EXCEPT ![p].pc = "fields", ![p].to = s]
  /\ UNCHANGED <<fd, kernel_lock, io>>

\* Mutant: SOFT_RT leaves the priority to a later call.
new_fields_type_only(cmd) == [type |-> "SOFT_RT", priority |-> junk]
\* Only SOFT_RT gives a new structure a priority.
new_fields(cmd) ==
  [type |-> "SOFT_RT", priority |-> IF cmd = "UCSB_IO_SOFT_RT" THEN UCSB_DEF_PRIORITY + 2 ELSE junk]

set_fields(p) ==
  /\ At(p, "fields")
  /\ obj' = [obj EXCEPT ![proc[p].to] = new_fields(proc[p].cmd)]
  /\ hist' = IF proc[p].cmd = "UCSB_IO_SOFT_RT"
             THEN [hist EXCEPT !.acked[proc[p].filp] = UCSB_DEF_PRIORITY + 2] ELSE hist
  /\ Goto(p, "copy")
  /\ UNCHANGED <<fd, file, kernel_lock, io>>

\* The rate (SOFT_RT) or the priority is copied to where f_qos led when the call began.  A
\* fault leaves the field as it is, or clears it.
copy_from_user(p) ==
  /\ At(p, "copy") /\ Holds(p)
  /\ \/ proc[p].cmd = "UCSB_IO_SOFT_RT" /\ UNCHANGED <<obj, hist>>
     \/ /\ proc[p].cmd = "UCSB_IO_PRIORITY"
        /\ obj' = [obj EXCEPT ![proc[p].to].priority = proc[p].arg]
        /\ hist' = [hist EXCEPT !.acked[proc[p].filp] = proc[p].arg, !.failed = @ \ {proc[p].to}]
     \/ /\ proc[p].cmd = "UCSB_IO_PRIORITY"
        /\ \E v \in {obj[proc[p].to].priority, 0} : obj' = [obj EXCEPT ![proc[p].to].priority = v]
        /\ hist' = [hist EXCEPT !.acked[proc[p].filp] = NULL, !.failed = @ \cup {proc[p].to}]
  /\ Goto(p, "unlock")
  /\ UNCHANGED <<fd, file, kernel_lock, io>>

\* kmalloc and copy_from_user may sleep; the scheduler drops the lock and takes it again.
sleep(p) ==
  /\ proc[p].pc \in {"alloc", "copy"} /\ Holds(p)
  /\ kernel_lock' = NULL
  /\ proc' = [proc EXCEPT ![p].asleep = TRUE]
  /\ UNCHANGED <<fd, file, obj, io, hist>>

wake(p) ==
  /\ proc[p].asleep /\ kernel_lock = NULL
  /\ kernel_lock' = p
  /\ proc' = [proc EXCEPT ![p].asleep = FALSE]
  /\ UNCHANGED <<fd, file, obj, io, hist>>

unlock_kernel(p) ==
  /\ At(p, "unlock")
  /\ kernel_lock' = NULL
  /\ fput(proc[p].filp)
  /\ Rest(p)
  /\ UNCHANGED <<fd, obj, io, hist>>

(***************************************************************************)
(* Direct I/O                                                              *)
(***************************************************************************)
start_io(p, d) == fget(p, d, "submit") /\ UNCHANGED <<fd, obj, kernel_lock, io, hist>>

\* dio_bio_submit: the bio takes the QoS the file has now.  The reference on the file stays
\* with the request until it is complete.
dio_bio_submit(p, i) ==
  /\ At(p, "submit") /\ io[i] = NULL
  /\ io' = [io EXCEPT ![i] = [filp |-> proc[p].filp, bi_qos |-> file[proc[p].filp].f_qos]]
  /\ Rest(p)
  /\ UNCHANGED <<fd, file, obj, kernel_lock, hist>>

\* The bio ends, and with it the request: the reference is dropped.
end_io(i) ==
  /\ io[i] # NULL
  /\ fput(io[i].filp)
  /\ io' = [io EXCEPT ![i] = NULL]
  /\ UNCHANGED <<fd, obj, kernel_lock, proc, hist>>

(***************************************************************************)
(* Specification                                                           *)
(***************************************************************************)
Args(cmd) == IF cmd = "UCSB_IO_PRIORITY" THEN Priorities ELSE {NULL}

Open(p) ==
  \/ \E f \in File : get_empty_filp(p, f) \/ open_private_file(p, f)
  \/ \E d \in Fds : fd_install(p, d) \/ sys_close(p, d) \/ start_io(p, d)
  \/ put_filp(p)
  \/ close_private_file(p)

Ioctl(p) ==
  \/ \E d \in Fds, cmd \in Cmds : \E arg \in Args(cmd) : sys_ioctl(p, d, cmd, arg)
  \/ lock_kernel(p) \/ UCSB_IO_GET_QOS(p) \/ UCSB_IO_BESTEFFORT(p) \/ set_qos(p)
  \/ \E s \in Obj : kmalloc(p, s)
  \/ set_fields(p) \/ copy_from_user(p) \/ sleep(p) \/ wake(p) \/ unlock_kernel(p)

Next ==
  \/ \E p \in Proc : Open(p) \/ Ioctl(p) \/ \E i \in Io : dio_bio_submit(p, i)
  \/ \E i \in Io : end_io(i)
  \/ \E f \in File : file_kill(f) \/ file_free(f)

Spec == Init /\ [][Next]_vars

(***************************************************************************)
(* Properties                                                              *)
(***************************************************************************)
\* What leads to f: descriptors, system calls under way, bios in flight.
descriptors(f) == {d \in Fds : fd[d] = f}
callers(f) == {p \in Proc : proc[p].filp = f}
bios(f) == {i \in Io : io[i] # NULL /\ io[i].filp = f}

\* A file is neither freed nor on its way to be while a descriptor, a system call or a bio in
\* flight uses it, whoever closes it in the meantime; f_count is the number of them (fput,
\* fget, __fput), and a file on the list of its super block is not freed.
NoUseAfterFree ==
  \A f \in File :
    /\ descriptors(f) \cup callers(f) \cup bios(f) # {} => file[f].stage = "open"
    /\ file[f].f_count
         = Cardinality(descriptors(f)) + Cardinality(callers(f)) + Cardinality(bios(f))
    /\ file[f].listed => file[f].stage \in {"open", "release"}

\* The QoS structure of a bio in flight exists until the bio ends, whatever ioctls and closes
\* do meanwhile: the scheduler reads it through bi_qos without asking the file.
QosOutlivesBio == \A i \in Io : io[i] # NULL /\ io[i].bi_qos # NULL => obj[io[i].bi_qos] # NULL

\* Being written: between kmalloc and the copy of its first argument.
fresh(s) == \E p \in Proc : proc[p].pc \in {"fields", "copy"} /\ proc[p].to = s

\* An uninitialised priority is seen only while the ioctl that created the structure is under
\* way or after it has failed: no call that returned success leaves one behind.
SuccessInitialises ==
  \A s \in Obj : obj[s] # NULL /\ obj[s].priority = junk => fresh(s) \/ s \in hist.failed

\* The priority a successful call gave a file stays until another call sets it: neither
\* SOFT_RT nor BESTEFFORT nor I/O changes it.  Two first calls that race for the file are the
\* exception: both allocate, and the structure of one, priority and all, is forgotten.
PriorityKept ==
  \A f \in File : hist.acked[f] # NULL /\ f \notin hist.raced /\ file[f].f_qos # NULL
                    => obj[file[f].f_qos].priority = hist.acked[f]

=============================================================================
