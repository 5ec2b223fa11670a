--------------------------- MODULE FileQosProofs ---------------------------
(***************************************************************************)
(* The reference counts of files and the life of their QoS structures, for *)
(* any number of processes, descriptors, files, structures and bios.       *)
(*                                                                         *)
(* The properties of FileQos are not inductive.  The invariant adds, in    *)
(* layers that each need the ones before:                                  *)
(*   Shape       types, and what a process has at hand where it is;        *)
(*   Referenced  f_count is the number of users, and a file that is being  *)
(*               opened or is the kernel's own has one;                    *)
(*   Locked      who has the big kernel lock, and who sleeps without it;   *)
(*   Structures  what is led to exists, what has no priority is being      *)
(*               written, a structure belongs to one file, and a file's    *)
(*               priority changes through its own structure only.          *)
(* Most steps do not touch a structure; Quiet says so, once for all of     *)
(* them.  The others (set_qos, kmalloc, set_fields, copy_from_user) have a *)
(* lemma each.                                                             *)
(***************************************************************************)
EXTENDS FileQos, FiniteSetTheorems, TLAPS

Labels ==
  {"idle", "open", "private", "submit", "lock", "alloc", "fields", "copy", "unlock", "oops"}
    \cup Cmds

FileType ==
  [f_count : Int, f_qos : Obj \cup {NULL}, listed : BOOLEAN,
   stage : {"free", "open", "release", "killed"}]
ProcType ==
  [pc : Labels, filp : File \cup {NULL}, cmd : Cmds \cup {NULL}, arg : Int \cup {NULL},
   to : Obj \cup {NULL}, asleep : BOOLEAN]
Struct == [type : {junk, "SOFT_RT"}, priority : Int \cup {junk}]
Bio == [filp : File \ Private, bi_qos : Obj \cup {NULL}]

(***************************************************************************)
(* The inductive invariant, in layers                                      *)
(***************************************************************************)
Typed ==
  /\ fd \in [Fds -> (File \ Private) \cup {NULL}]
  /\ file \in [File -> FileType]
  /\ kernel_lock \in Proc \cup {NULL}
  /\ proc \in [Proc -> ProcType]
  /\ io \in [Io -> Bio \cup {NULL}]

\* What a process has at hand, by where it is.
Placed(r) ==
  /\ r.pc = "idle" <=> r.filp = NULL
  /\ r.pc = "private" <=> r.filp \in Private
  /\ r.pc \in Cmds => r.cmd = r.pc
  /\ r.pc = "lock" => r.cmd \in Cmds
  /\ r.pc \in {"lock", "alloc", "fields", "copy"} \cup Cmds /\ r.cmd = "UCSB_IO_PRIORITY"
       => r.arg \in Int
  /\ r.pc \in {"alloc", "fields", "copy"} => r.cmd \in {"UCSB_IO_SOFT_RT", "UCSB_IO_PRIORITY"}
  /\ r.pc \in {"fields", "copy"} => r.to \in Obj

Shape == Typed /\ \A p \in Proc : Placed(proc[p])

\* f_count counts, and a file in use is open.
uses(f) == Cardinality(descriptors(f)) + Cardinality(callers(f)) + Cardinality(bios(f))

Counted ==
  \A f \in File :
    /\ file[f].f_count = uses(f)
    /\ file[f].f_count > 0 => file[f].stage = "open"
    /\ file[f].listed => file[f].stage \in {"open", "release"}

\* A file that is being opened, or is the kernel's own, is led to by one process only.
Alone ==
  \A p \in Proc : proc[p].pc \in {"open", "private"} =>
    /\ \A d \in Fds : fd[d] # proc[p].filp
    /\ \A r \in Proc \ {p} : proc[r].filp # proc[p].filp
    /\ \A i \in Io : io[i] # NULL => io[i].filp # proc[p].filp

\* An ioctl has the big kernel lock, except where it may sleep.
Locked ==
  \A p \in Proc :
    /\ proc[p].pc \in Cmds \cup {"fields", "unlock"} => Holds(p)
    /\ proc[p].pc \in {"alloc", "copy"} => Holds(p) \/ proc[p].asleep
    /\ proc[p].asleep => proc[p].pc \in {"alloc", "copy"} /\ ~Holds(p)

ObjTyped ==
  /\ obj \in [Obj -> Struct \cup {NULL}]
  /\ hist \in [acked : [File -> Int \cup {NULL}], raced : SUBSET File, failed : SUBSET Obj]

\* What a file, a bio or an ioctl leads to exists; the kernel's own files have none.
Exists ==
  /\ \A f \in File : file[f].f_qos # NULL => obj[file[f].f_qos] # NULL /\ f \notin Private
  /\ \A i \in Io : io[i] # NULL /\ io[i].bi_qos # NULL => obj[io[i].bi_qos] # NULL
  /\ \A p \in Proc : proc[p].pc \in {"fields", "copy"} =>
       obj[proc[p].to] # NULL /\ file[proc[p].filp].f_qos # NULL

\* A process writes s, and has yet to give it a priority.
writing(s) ==
  \E p \in Proc :
    /\ proc[p].to = s
    /\ proc[p].pc = "fields" \/ (proc[p].pc = "copy" /\ proc[p].cmd = "UCSB_IO_PRIORITY")

Initialised ==
  \A s \in Obj : obj[s] # NULL /\ obj[s].priority = junk => writing(s) \/ s \in hist.failed

\* A structure belongs to one file: the one whose f_qos leads to it, or led to it when the
\* ioctl that writes it began.
Owned ==
  /\ \A f, g \in File : file[f].f_qos # NULL /\ file[f].f_qos = file[g].f_qos => f = g
  /\ \A p \in Proc, g \in File :
       proc[p].pc \in {"fields", "copy"} /\ file[g].f_qos = proc[p].to => g = proc[p].filp
  /\ \A p \in Proc :
       proc[p].pc \in {"fields", "copy"} /\ proc[p].filp \notin hist.raced
         => file[proc[p].filp].f_qos = proc[p].to

\* Before there is a structure no priority was given, and the ioctl that allocated it is the
\* first to give one.
Acked ==
  /\ \A f \in File : file[f].f_qos = NULL /\ file[f].stage = "open" => hist.acked[f] = NULL
  /\ \A f \in Private : hist.acked[f] = NULL
  /\ \A p \in Proc :
       proc[p].pc = "fields" /\ proc[p].filp \notin hist.raced => hist.acked[proc[p].filp] = NULL

Referenced == Counted /\ Alone
Structures == Exists /\ Initialised /\ Owned /\ Acked /\ PriorityKept
Inv == Shape /\ Referenced /\ Locked /\ ObjTyped /\ Structures

(***************************************************************************)
(* What a step does to a process and to a file                             *)
(***************************************************************************)
Becomes(p, l, f, c, a, t, z) ==
  /\ proc' \in [Proc -> ProcType]
  /\ proc'[p].pc = l /\ proc'[p].filp = f /\ proc'[p].cmd = c
  /\ proc'[p].arg = a /\ proc'[p].to = t /\ proc'[p].asleep = z
  /\ \A r \in Proc \ {p} : proc'[r] = proc[r]

FileBecomes(f, n, s, ls, st) ==
  /\ file' \in [File -> FileType]
  /\ file'[f].f_count = n /\ file'[f].f_qos = s /\ file'[f].listed = ls /\ file'[f].stage = st
  /\ \A g \in File \ {f} : file'[g] = file[g]

LEMMA ProcFields ==
  ASSUME NEW r \in ProcType
  PROVE  /\ r.pc \in Labels /\ r.filp \in File \cup {NULL} /\ r.cmd \in Cmds \cup {NULL}
         /\ r.arg \in Int \cup {NULL} /\ r.to \in Obj \cup {NULL} /\ r.asleep \in BOOLEAN
BY DEF ProcType

LEMMA FileFields ==
  ASSUME NEW r \in FileType
  PROVE  /\ r.f_count \in Int /\ r.f_qos \in Obj \cup {NULL} /\ r.listed \in BOOLEAN
         /\ r.stage \in {"free", "open", "release", "killed"}
BY DEF FileType

LEMMA GotoBecomes ==
  ASSUME Typed, NEW p \in Proc, NEW l \in Labels, Goto(p, l)
  PROVE  Becomes(p, l, proc[p].filp, proc[p].cmd, proc[p].arg, proc[p].to, proc[p].asleep)
BY DEF Typed, Goto, Becomes, ProcType

LEMMA RestBecomes ==
  ASSUME Typed, NEW p \in Proc, Rest(p)
  PROVE  Becomes(p, "idle", NULL, NULL, NULL, NULL, FALSE)
<1>1. resting \in ProcType
  BY DEF resting, ProcType, Labels
<1> QED
  BY <1>1 DEF Typed, Rest, Becomes, resting

LEMMA EnterBecomes ==
  ASSUME Typed, NEW p \in Proc, NEW l \in Labels, NEW f \in File,
         proc' = [proc EXCEPT ![p].pc = l, ![p].filp = f]
  PROVE  Becomes(p, l, f, proc[p].cmd, proc[p].arg, proc[p].to, proc[p].asleep)
BY DEF Typed, Becomes, ProcType

LEMMA ToBecomes ==
  ASSUME Typed, NEW p \in Proc, NEW l \in Labels, NEW s \in Obj,
         proc' = [proc EXCEPT ![p].pc = l, ![p].to = s]
  PROVE  Becomes(p, l, proc[p].filp, proc[p].cmd, proc[p].arg, s, proc[p].asleep)
BY DEF Typed, Becomes, ProcType

LEMMA IoctlBecomes ==
  ASSUME Typed, NEW p \in Proc, NEW f \in File, NEW c \in Cmds, NEW a \in Int \cup {NULL},
         proc' = [proc EXCEPT ![p] = [resting EXCEPT !.pc = "lock", !.filp = f, !.cmd = c, !.arg = a]]
  PROVE  Becomes(p, "lock", f, c, a, NULL, FALSE)
<1> DEFINE r == [resting EXCEPT !.pc = "lock", !.filp = f, !.cmd = c, !.arg = a]
<1>1. /\ r \in ProcType /\ r.pc = "lock" /\ r.filp = f /\ r.cmd = c /\ r.arg = a
      /\ r.to = NULL /\ r.asleep = FALSE
  BY DEF resting, ProcType, Labels
<1>2. proc' = [proc EXCEPT ![p] = r]
  OBVIOUS
<1> HIDE DEF r
<1> QED
  BY <1>1, <1>2 DEF Typed, Becomes

LEMMA AsleepBecomes ==
  ASSUME Typed, NEW p \in Proc, NEW b \in BOOLEAN, proc' = [proc EXCEPT ![p].asleep = b]
  PROVE  Becomes(p, proc[p].pc, proc[p].filp, proc[p].cmd, proc[p].arg, proc[p].to, b)
BY DEF Typed, Becomes, ProcType

LEMMA NewFile ==
  ASSUME Typed, NEW f \in File,
         file' = [file EXCEPT ![f] = [no_file EXCEPT !.f_count = 1, !.stage = "open"]]
  PROVE  FileBecomes(f, 1, NULL, FALSE, "open")
<1> DEFINE r == [no_file EXCEPT !.f_count = 1, !.stage = "open"]
<1>0. no_file \in FileType
  BY DEF no_file, FileType
<1>1. no_file.f_qos = NULL /\ no_file.listed = FALSE
  BY DEF no_file
<1>2. file' = [file EXCEPT ![f] = r]
  OBVIOUS
<1>3. r \in FileType
  <2>1. ASSUME NEW n \in Int, NEW st \in {"free", "open", "release", "killed"}
        PROVE  [no_file EXCEPT !.f_count = n, !.stage = st] \in FileType
    BY <1>0 DEF FileType
  <2>2. 1 \in Int /\ "open" \in {"free", "open", "release", "killed"}
    OBVIOUS
  <2> QED
    BY <2>1, <2>2, Zenon
<1>4. r.f_count = 1 /\ r.stage = "open"
  BY <1>0 DEF FileType
<1>5. r.f_qos = NULL /\ r.listed = FALSE
  BY <1>0, <1>1 DEF FileType
<1> HIDE DEF r
<1> QED
  BY <1>2, <1>3, <1>4, <1>5 DEF Typed, FileBecomes

LEMMA FreeFile ==
  ASSUME Typed, NEW f \in File, file' = [file EXCEPT ![f] = no_file]
  PROVE  FileBecomes(f, 0, NULL, FALSE, "free")
<1>1. no_file \in FileType
  BY DEF no_file, FileType
<1> QED
  BY <1>1 DEF Typed, FileBecomes, no_file

LEMMA ListFile ==
  ASSUME Typed, NEW f \in File, file' = [file EXCEPT ![f].listed = TRUE]
  PROVE  FileBecomes(f, file[f].f_count, file[f].f_qos, TRUE, file[f].stage)
BY DEF Typed, FileBecomes, FileType

LEMMA KillFile ==
  ASSUME Typed, NEW f \in File, file' = [file EXCEPT ![f].stage = "killed", ![f].listed = FALSE]
  PROVE  FileBecomes(f, file[f].f_count, file[f].f_qos, FALSE, "killed")
BY DEF Typed, FileBecomes, FileType

LEMMA QosFile ==
  ASSUME Typed, NEW f \in File, NEW s \in Obj, file' = [file EXCEPT ![f].f_qos = s]
  PROVE  FileBecomes(f, file[f].f_count, s, file[f].listed, file[f].stage)
BY DEF Typed, FileBecomes, FileType

LEMMA FgetFile ==
  ASSUME Typed, NEW f \in File, file' = [file EXCEPT ![f].f_count = @ + 1]
  PROVE  FileBecomes(f, file[f].f_count + 1, file[f].f_qos, file[f].listed, file[f].stage)
BY DEF Typed, FileBecomes, FileType

\* fput, which releases the file with its last reference.
LEMMA FputFile ==
  ASSUME Typed, NEW f \in File, fput(f)
  PROVE  FileBecomes(f, file[f].f_count - 1, file[f].f_qos, file[f].listed,
                     IF file[f].f_count = 1 THEN "release" ELSE file[f].stage)
<1> DEFINE st == IF dec_and_test(file[f].f_count) THEN "release" ELSE file[f].stage
<1>1. st \in {"free", "open", "release", "killed"}
  BY FileFields DEF Typed
<1>2. st = IF file[f].f_count = 1 THEN "release" ELSE file[f].stage
  BY DEF dec_and_test
<1>3. file' = [file EXCEPT ![f].stage = st, ![f].f_count = @ - 1]
  BY DEF fput
<1> HIDE DEF st
<1>4. FileBecomes(f, file[f].f_count - 1, file[f].f_qos, file[f].listed, st)
  BY <1>1, <1>3 DEF Typed, FileBecomes, FileType
<1> QED
  BY <1>2, <1>4

(***************************************************************************)
(* Each action: what it does, and that it keeps the types and places       *)
(***************************************************************************)
LEMMA Using ==
  ASSUME Shape, NEW p \in Proc
  PROVE  /\ Typed /\ Placed(proc[p]) /\ proc[p] \in ProcType
         /\ proc[p].pc # "idle" => proc[p].filp \in File /\ file[proc[p].filp] \in FileType
         /\ proc[p].pc \notin {"idle", "private"} => proc[p].filp \in File \ Private
BY FileQosAssumption, ProcFields DEF Shape, Typed, Placed

LEMMA Behind ==
  ASSUME Shape, NEW d \in Fds, fd[d] # NULL
  PROVE  Typed /\ fd[d] \in File \ Private /\ file[fd[d]] \in FileType
BY FileQosAssumption DEF Shape, Typed

LEMMA ShapeMoved ==
  ASSUME Shape, NEW p \in Proc, NEW l, NEW f, NEW c, NEW a, NEW t, NEW z,
         Becomes(p, l, f, c, a, t, z), Placed(proc'[p]), Typed'
  PROVE  Shape'
BY DEF Shape, Becomes

LEMMA LabelsHas ==
  /\ {"idle", "open", "private", "submit", "lock", "alloc", "fields", "copy", "unlock", "oops"}
       \subseteq Labels
  /\ Cmds \subseteq Labels
BY DEF Labels

\* The processes and the lock are typed; so is what an action leaves alone.
LEMMA TypedMoved ==
  ASSUME Typed, NEW p \in Proc, NEW l, NEW f, NEW c, NEW a, NEW t, NEW z,
         Becomes(p, l, f, c, a, t, z),
         file' \in [File -> FileType], kernel_lock' \in Proc \cup {NULL},
         fd' \in [Fds -> (File \ Private) \cup {NULL}], io' \in [Io -> Bio \cup {NULL}]
  PROVE  Typed'
BY DEF Typed, Becomes

LEMMA OpenShape ==
  ASSUME Shape, NEW p \in Proc, NEW f \in File, get_empty_filp(p, f)
  PROVE  /\ Becomes(p, "open", f, proc[p].cmd, proc[p].arg, proc[p].to, proc[p].asleep)
         /\ FileBecomes(f, 1, NULL, FALSE, "open")
         /\ Shape'
<1>0. Typed /\ "open" \in Labels
  BY LabelsHas DEF Shape
<1>1. Becomes(p, "open", f, proc[p].cmd, proc[p].arg, proc[p].to, proc[p].asleep)
  BY <1>0, EnterBecomes DEF get_empty_filp
<1>2. FileBecomes(f, 1, NULL, FALSE, "open")
  BY <1>0, NewFile DEF get_empty_filp
<1>3. Typed'
  BY <1>0, <1>1, <1>2, TypedMoved DEF Typed, get_empty_filp, FileBecomes
<1>4. Placed(proc'[p])
  BY <1>1, FileQosAssumption DEF Becomes, Placed, get_empty_filp, Cmds
<1> QED
  BY <1>1, <1>2, <1>3, <1>4, ShapeMoved

LEMMA OpenPrivateShape ==
  ASSUME Shape, NEW p \in Proc, NEW f \in File, open_private_file(p, f)
  PROVE  /\ Becomes(p, "private", f, proc[p].cmd, proc[p].arg, proc[p].to, proc[p].asleep)
         /\ FileBecomes(f, 1, NULL, FALSE, "open")
         /\ Shape'
<1>0. Typed /\ "private" \in Labels
  BY LabelsHas DEF Shape
<1>1. Becomes(p, "private", f, proc[p].cmd, proc[p].arg, proc[p].to, proc[p].asleep)
  BY <1>0, EnterBecomes DEF open_private_file
<1>2. FileBecomes(f, 1, NULL, FALSE, "open")
  BY <1>0, NewFile DEF open_private_file
<1>3. Typed'
  BY <1>0, <1>1, <1>2, TypedMoved DEF Typed, open_private_file, FileBecomes
<1>4. Placed(proc'[p])
  BY <1>1, FileQosAssumption DEF Becomes, Placed, open_private_file, Cmds
<1> QED
  BY <1>1, <1>2, <1>3, <1>4, ShapeMoved

LEMMA RestPlaced ==
  ASSUME NEW p \in Proc, Becomes(p, "idle", NULL, NULL, NULL, NULL, FALSE)
  PROVE  Placed(proc'[p])
BY FileQosAssumption DEF Becomes, Placed, Cmds

LEMMA InstallShape ==
  ASSUME Shape, NEW p \in Proc, NEW d \in Fds, fd_install(p, d)
  PROVE  /\ Becomes(p, "idle", NULL, NULL, NULL, NULL, FALSE)
         /\ FileBecomes(proc[p].filp, file[proc[p].filp].f_count, file[proc[p].filp].f_qos, TRUE,
                        file[proc[p].filp].stage)
         /\ proc[p].filp \in File \ Private
         /\ Shape'
<1>0. Typed /\ proc[p].filp \in File \ Private
  BY Using DEF fd_install, At
<1>1. Becomes(p, "idle", NULL, NULL, NULL, NULL, FALSE)
  BY <1>0, RestBecomes DEF fd_install
<1>2. FileBecomes(proc[p].filp, file[proc[p].filp].f_count, file[proc[p].filp].f_qos, TRUE,
                  file[proc[p].filp].stage)
  BY <1>0, ListFile DEF fd_install
<1>3. fd' \in [Fds -> (File \ Private) \cup {NULL}]
  BY <1>0 DEF fd_install, Typed
<1>4. Typed'
  BY <1>0, <1>1, <1>2, <1>3, TypedMoved DEF Typed, fd_install, FileBecomes
<1> QED
  BY <1>0, <1>1, <1>2, <1>4, RestPlaced, ShapeMoved

LEMMA PutFilpShape ==
  ASSUME Shape, NEW p \in Proc, put_filp(p)
  PROVE  /\ Becomes(p, "idle", NULL, NULL, NULL, NULL, FALSE)
         /\ FileBecomes(proc[p].filp, 0, NULL, FALSE, "free")
         /\ proc[p].filp \in File
         /\ Shape'
<1>0. Typed /\ proc[p].filp \in File
  BY Using DEF put_filp, At
<1>1. Becomes(p, "idle", NULL, NULL, NULL, NULL, FALSE)
  BY <1>0, RestBecomes DEF put_filp
<1>2. FileBecomes(proc[p].filp, 0, NULL, FALSE, "free")
  BY <1>0, FreeFile DEF put_filp
<1>3. Typed'
  BY <1>0, <1>1, <1>2, TypedMoved DEF Typed, put_filp, FileBecomes
<1> QED
  BY <1>0, <1>1, <1>2, <1>3, RestPlaced, ShapeMoved

LEMMA ClosePrivateShape ==
  ASSUME Shape, NEW p \in Proc, close_private_file(p)
  PROVE  /\ Becomes(p, "idle", NULL, NULL, NULL, NULL, FALSE)
         /\ FileBecomes(proc[p].filp, 0, NULL, FALSE, "free")
         /\ proc[p].filp \in File
         /\ Shape'
<1>0. Typed /\ proc[p].filp \in File
  BY Using DEF close_private_file, At
<1>1. Becomes(p, "idle", NULL, NULL, NULL, NULL, FALSE)
  BY <1>0, RestBecomes DEF close_private_file
<1>2. FileBecomes(proc[p].filp, 0, NULL, FALSE, "free")
  BY <1>0, FreeFile DEF close_private_file
<1>3. Typed'
  BY <1>0, <1>1, <1>2, TypedMoved DEF Typed, close_private_file, FileBecomes
<1> QED
  BY <1>0, <1>1, <1>2, <1>3, RestPlaced, ShapeMoved

\* After one reference less.
Put(f) == FileBecomes(f, file[f].f_count - 1, file[f].f_qos, file[f].listed,
                      IF file[f].f_count = 1 THEN "release" ELSE file[f].stage)

LEMMA CloseShape ==
  ASSUME Shape, NEW p \in Proc, NEW d \in Fds, sys_close(p, d)
  PROVE  Put(fd[d]) /\ fd[d] \in File \ Private /\ Shape'
<1>0. Typed /\ fd[d] \in File \ Private
  BY Behind DEF sys_close
<1>1. Put(fd[d])
  BY <1>0, FputFile DEF sys_close, Put
<1>2. fd' \in [Fds -> (File \ Private) \cup {NULL}]
  BY <1>0 DEF sys_close, Typed
<1>3. Typed'
  BY <1>0, <1>1, <1>2 DEF Typed, sys_close, Put, FileBecomes
<1> QED
  BY <1>0, <1>1, <1>3 DEF Shape, sys_close

LEMMA KillShape ==
  ASSUME Shape, NEW f \in File, file_kill(f)
  PROVE  FileBecomes(f, file[f].f_count, file[f].f_qos, FALSE, "killed") /\ Shape'
<1>1. FileBecomes(f, file[f].f_count, file[f].f_qos, FALSE, "killed")
  BY KillFile DEF Shape, file_kill
<1>2. Typed'
  BY <1>1 DEF Shape, Typed, file_kill, FileBecomes
<1> QED
  BY <1>1, <1>2 DEF Shape, file_kill

LEMMA FreeShape ==
  ASSUME Shape, NEW f \in File, file_free(f)
  PROVE  FileBecomes(f, 0, NULL, FALSE, "free") /\ Shape'
<1>1. FileBecomes(f, 0, NULL, FALSE, "free")
  BY FreeFile DEF Shape, file_free
<1>2. Typed'
  BY <1>1 DEF Shape, Typed, file_free, FileBecomes
<1> QED
  BY <1>1, <1>2 DEF Shape, file_free

\* With one reference more.
Gotten(f) == FileBecomes(f, file[f].f_count + 1, file[f].f_qos, file[f].listed, file[f].stage)

LEMMA IoctlShape ==
  ASSUME Shape, NEW p \in Proc, NEW d \in Fds, NEW cmd \in Cmds, NEW arg \in Args(cmd),
         sys_ioctl(p, d, cmd, arg)
  PROVE  /\ Becomes(p, "lock", fd[d], cmd, arg, NULL, FALSE)
         /\ Gotten(fd[d]) /\ fd[d] \in File \ Private
         /\ Shape'
<1>0. Typed /\ fd[d] \in File \ Private
  BY Behind DEF sys_ioctl
<1>1. arg \in Int \cup {NULL} /\ (cmd = "UCSB_IO_PRIORITY" => arg \in Int)
  BY FileQosAssumption DEF Args
<1>2. Becomes(p, "lock", fd[d], cmd, arg, NULL, FALSE)
  BY <1>0, <1>1, IoctlBecomes DEF sys_ioctl
<1>3. Gotten(fd[d])
  BY <1>0, FgetFile DEF sys_ioctl, Gotten
<1>4. Typed'
  BY <1>0, <1>2, <1>3, TypedMoved DEF Typed, sys_ioctl, Gotten, FileBecomes
<1>5. Placed(proc'[p])
  BY <1>0, <1>1, <1>2, FileQosAssumption DEF Becomes, Placed, Cmds
<1> QED
  BY <1>0, <1>2, <1>3, <1>4, <1>5, ShapeMoved

LEMMA StartIoShape ==
  ASSUME Shape, NEW p \in Proc, NEW d \in Fds, start_io(p, d)
  PROVE  /\ Becomes(p, "submit", fd[d], proc[p].cmd, proc[p].arg, proc[p].to, proc[p].asleep)
         /\ Gotten(fd[d]) /\ fd[d] \in File \ Private
         /\ Shape'
<1>0. Typed /\ fd[d] \in File \ Private /\ "submit" \in Labels
  BY Behind, LabelsHas DEF start_io, fget
<1>1. Becomes(p, "submit", fd[d], proc[p].cmd, proc[p].arg, proc[p].to, proc[p].asleep)
  BY <1>0, EnterBecomes DEF start_io, fget
<1>2. Gotten(fd[d])
  BY <1>0, FgetFile DEF start_io, fget, Gotten
<1>3. Typed'
  BY <1>0, <1>1, <1>2, TypedMoved DEF Typed, start_io, fget, Gotten, FileBecomes
<1>4. Placed(proc'[p])
  BY <1>0, <1>1, FileQosAssumption DEF Becomes, Placed, Cmds
<1> QED
  BY <1>0, <1>1, <1>2, <1>3, <1>4, ShapeMoved

\* A step inside an ioctl: the process goes to l, writes to t and sleeps or not.
Inside(p, l, t, z) == Becomes(p, l, proc[p].filp, proc[p].cmd, proc[p].arg, t, z)

LEMMA LockShape ==
  ASSUME Shape, NEW p \in Proc, lock_kernel(p)
  PROVE  Inside(p, proc[p].cmd, proc[p].to, proc[p].asleep) /\ proc[p].cmd \in Cmds /\ Shape'
<1>0. Typed /\ Placed(proc[p]) /\ proc[p].pc = "lock" /\ proc[p].filp \in File \ Private
  BY Using DEF lock_kernel, At
<1>1. proc[p].cmd \in Cmds /\ proc[p].cmd \in Labels
  BY <1>0, LabelsHas DEF Placed
<1>2. Inside(p, proc[p].cmd, proc[p].to, proc[p].asleep)
  BY <1>0, <1>1, GotoBecomes DEF lock_kernel, Inside
<1>3. Typed'
  BY <1>0, <1>2, TypedMoved DEF Typed, lock_kernel, Inside
<1>4. Placed(proc'[p])
  BY <1>0, <1>1, <1>2, FileQosAssumption DEF Inside, Becomes, Placed, Cmds
<1> QED
  BY <1>1, <1>2, <1>3, <1>4, ShapeMoved DEF Inside

LEMMA GetQosShape ==
  ASSUME Shape, NEW p \in Proc, UCSB_IO_GET_QOS(p)
  PROVE  Inside(p, "unlock", proc[p].to, proc[p].asleep) /\ Shape'
<1>0. Typed /\ Placed(proc[p]) /\ proc[p].pc \in Cmds /\ proc[p].filp \in File \ Private
  BY Using DEF UCSB_IO_GET_QOS, At, Cmds
<1>1. Inside(p, "unlock", proc[p].to, proc[p].asleep)
  BY <1>0, LabelsHas, GotoBecomes DEF UCSB_IO_GET_QOS, Inside
<1>2. Typed'
  BY <1>0, <1>1, TypedMoved DEF Typed, UCSB_IO_GET_QOS, Inside
<1>3. Placed(proc'[p])
  BY <1>0, <1>1, FileQosAssumption DEF Inside, Becomes, Placed, Cmds
<1> QED
  BY <1>1, <1>2, <1>3, ShapeMoved DEF Inside

LEMMA BesteffortShape ==
  ASSUME Shape, NEW p \in Proc, UCSB_IO_BESTEFFORT(p)
  PROVE  /\ \/ Inside(p, "unlock", proc[p].to, proc[p].asleep) /\ kernel_lock' = kernel_lock
            \/ Inside(p, "oops", proc[p].to, proc[p].asleep) /\ kernel_lock' = NULL
         /\ Shape'
<1>0. Typed /\ Placed(proc[p]) /\ proc[p].pc \in Cmds /\ proc[p].filp \in File \ Private
  BY Using DEF UCSB_IO_BESTEFFORT, At, Cmds
<1>1. PICK l \in {"unlock", "oops"} :
        Goto(p, l) /\ (IF l = "unlock" THEN kernel_lock' = kernel_lock ELSE kernel_lock' = NULL)
  BY DEF UCSB_IO_BESTEFFORT
<1>2. Inside(p, l, proc[p].to, proc[p].asleep)
  BY <1>0, <1>1, LabelsHas, GotoBecomes DEF Inside
<1>3. Typed'
  BY <1>0, <1>1, <1>2, TypedMoved DEF Typed, UCSB_IO_BESTEFFORT, Inside
<1>4. Placed(proc'[p])
  BY <1>0, <1>1, <1>2, FileQosAssumption DEF Inside, Becomes, Placed, Cmds
<1>5. Shape'
  BY <1>2, <1>3, <1>4, ShapeMoved DEF Inside
<1> QED
  BY <1>1, <1>2, <1>5

LEMMA SetQosShape ==
  ASSUME Shape, NEW p \in Proc, set_qos(p)
  PROVE  /\ \/ qos(p) = NULL /\ Inside(p, "alloc", proc[p].to, proc[p].asleep)
            \/ qos(p) \in Obj /\ Inside(p, "copy", qos(p), proc[p].asleep)
         /\ proc[p].filp \in File \ Private
         /\ Shape'
<1>0. /\ Typed /\ Placed(proc[p]) /\ proc[p].pc \in {"UCSB_IO_SOFT_RT", "UCSB_IO_PRIORITY"}
      /\ proc[p].pc \in Cmds /\ proc[p].filp \in File \ Private
  BY Using DEF set_qos, At, Cmds
<1>1. qos(p) \in Obj \cup {NULL}
  BY <1>0, FileFields DEF qos, Typed
<1>2. CASE qos(p) = NULL /\ Goto(p, "alloc")
  <2>1. Inside(p, "alloc", proc[p].to, proc[p].asleep)
    BY <1>0, <1>2, LabelsHas, GotoBecomes DEF Inside
  <2>2. Typed'
    BY <1>0, <2>1, TypedMoved DEF Typed, set_qos, Inside
  <2>3. Placed(proc'[p])
    BY <1>0, <2>1, FileQosAssumption DEF Inside, Becomes, Placed, Cmds
  <2>4. Shape'
    BY <2>1, <2>2, <2>3, ShapeMoved DEF Inside
  <2> QED
    BY <1>0, <1>2, <2>1, <2>4
<1>3. CASE qos(p) # NULL /\ proc' = [proc EXCEPT ![p].pc = "copy", ![p].to = qos(p)]
  <2>0. qos(p) \in Obj
    BY <1>1, <1>3
  <2>1. Inside(p, "copy", qos(p), proc[p].asleep)
    BY <1>0, <1>3, <2>0, LabelsHas, ToBecomes DEF Inside
  <2>2. Typed'
    BY <1>0, <2>1, TypedMoved DEF Typed, set_qos, Inside
  <2>3. Placed(proc'[p])
    BY <1>0, <2>0, <2>1, FileQosAssumption DEF Inside, Becomes, Placed, Cmds
  <2>4. Shape'
    BY <2>1, <2>2, <2>3, ShapeMoved DEF Inside
  <2> QED
    BY <1>0, <2>0, <2>1, <2>4
<1> QED
  BY <1>2, <1>3 DEF set_qos

LEMMA KmallocShape ==
  ASSUME Shape, NEW p \in Proc, NEW s \in Obj, kmalloc(p, s)
  PROVE  /\ Inside(p, "fields", s, proc[p].asleep)
         /\ FileBecomes(proc[p].filp, file[proc[p].filp].f_count, s, file[proc[p].filp].listed,
                        file[proc[p].filp].stage)
         /\ proc[p].filp \in File \ Private
         /\ Shape'
<1>0. Typed /\ Placed(proc[p]) /\ proc[p].pc = "alloc" /\ proc[p].filp \in File \ Private
  BY Using DEF kmalloc, At
<1>1. Inside(p, "fields", s, proc[p].asleep)
  BY <1>0, LabelsHas, ToBecomes DEF kmalloc, Inside
<1>2. FileBecomes(proc[p].filp, file[proc[p].filp].f_count, s, file[proc[p].filp].listed,
                  file[proc[p].filp].stage)
  BY <1>0, QosFile DEF kmalloc
<1>3. Typed'
  BY <1>0, <1>1, <1>2, TypedMoved DEF Typed, kmalloc, Inside, FileBecomes
<1>4. Placed(proc'[p])
  BY <1>0, <1>1, FileQosAssumption DEF Inside, Becomes, Placed, Cmds
<1>5. Shape'
  BY <1>1, <1>3, <1>4, ShapeMoved DEF Inside
<1> QED
  BY <1>0, <1>1, <1>2, <1>5

LEMMA SetFieldsShape ==
  ASSUME Shape, NEW p \in Proc, set_fields(p)
  PROVE  /\ Inside(p, "copy", proc[p].to, proc[p].asleep)
         /\ proc[p].to \in Obj /\ proc[p].filp \in File \ Private
         /\ Shape'
<1>0. /\ Typed /\ Placed(proc[p]) /\ proc[p].pc = "fields" /\ proc[p].filp \in File \ Private
      /\ proc[p].to \in Obj
  BY Using DEF set_fields, At, Placed
<1>1. Inside(p, "copy", proc[p].to, proc[p].asleep)
  BY <1>0, LabelsHas, GotoBecomes DEF set_fields, Inside
<1>2. Typed'
  BY <1>0, <1>1, TypedMoved DEF Typed, set_fields, Inside
<1>3. Placed(proc'[p])
  BY <1>0, <1>1, FileQosAssumption DEF Inside, Becomes, Placed, Cmds
<1> QED
  BY <1>0, <1>1, <1>2, <1>3, ShapeMoved DEF Inside

LEMMA CopyShape ==
  ASSUME Shape, NEW p \in Proc, copy_from_user(p)
  PROVE  /\ Inside(p, "unlock", proc[p].to, proc[p].asleep)
         /\ proc[p].to \in Obj /\ proc[p].filp \in File \ Private
         /\ proc[p].cmd = "UCSB_IO_PRIORITY" => proc[p].arg \in Int
         /\ Shape'
<1>0. /\ Typed /\ Placed(proc[p]) /\ proc[p].pc = "copy" /\ proc[p].filp \in File \ Private
      /\ proc[p].to \in Obj
  BY Using DEF copy_from_user, At, Placed
<1>1. Inside(p, "unlock", proc[p].to, proc[p].asleep)
  BY <1>0, LabelsHas, GotoBecomes DEF copy_from_user, Inside
<1>2. Typed'
  BY <1>0, <1>1, TypedMoved DEF Typed, copy_from_user, Inside
<1>3. Placed(proc'[p])
  BY <1>0, <1>1, FileQosAssumption DEF Inside, Becomes, Placed, Cmds
<1>4. Shape'
  BY <1>1, <1>2, <1>3, ShapeMoved DEF Inside
<1>5. proc[p].cmd = "UCSB_IO_PRIORITY" => proc[p].arg \in Int
  BY <1>0 DEF Placed
<1> QED
  BY <1>0, <1>1, <1>4, <1>5

LEMMA SleepShape ==
  ASSUME Shape, NEW p \in Proc, sleep(p) \/ wake(p)
  PROVE  /\ \E z \in BOOLEAN : Inside(p, proc[p].pc, proc[p].to, z)
         /\ Shape'
<1>0. Typed /\ Placed(proc[p])
  BY Using
<1>1. PICK z \in BOOLEAN : proc' = [proc EXCEPT ![p].asleep = z]
  BY DEF sleep, wake
<1>2. Inside(p, proc[p].pc, proc[p].to, z)
  BY <1>0, <1>1, AsleepBecomes DEF Inside
<1>3. kernel_lock' \in Proc \cup {NULL} /\ UNCHANGED <<fd, file, io>>
  BY DEF sleep, wake
<1>4. Typed'
  BY <1>0, <1>2, <1>3, TypedMoved DEF Typed, Inside
<1>5. Placed(proc'[p])
  BY <1>0, <1>2 DEF Inside, Becomes, Placed
<1> QED
  BY <1>2, <1>4, <1>5, ShapeMoved DEF Inside

LEMMA UnlockShape ==
  ASSUME Shape, NEW p \in Proc, unlock_kernel(p)
  PROVE  /\ Becomes(p, "idle", NULL, NULL, NULL, NULL, FALSE)
         /\ Put(proc[p].filp) /\ proc[p].filp \in File \ Private
         /\ Shape'
<1>0. Typed /\ proc[p].filp \in File \ Private
  BY Using DEF unlock_kernel, At
<1>1. Becomes(p, "idle", NULL, NULL, NULL, NULL, FALSE)
  BY <1>0, RestBecomes DEF unlock_kernel
<1>2. Put(proc[p].filp)
  BY <1>0, FputFile DEF unlock_kernel, Put
<1>3. Typed'
  BY <1>0, <1>1, <1>2, TypedMoved DEF Typed, unlock_kernel, Put, FileBecomes
<1> QED
  BY <1>0, <1>1, <1>2, <1>3, RestPlaced, ShapeMoved

LEMMA SubmitShape ==
  ASSUME Shape, NEW p \in Proc, NEW i \in Io, dio_bio_submit(p, i)
  PROVE  /\ Becomes(p, "idle", NULL, NULL, NULL, NULL, FALSE)
         /\ io' \in [Io -> Bio \cup {NULL}]
         /\ io'[i] # NULL /\ io'[i].filp = proc[p].filp /\ io'[i].bi_qos = qos(p)
         /\ \A j \in Io \ {i} : io'[j] = io[j]
         /\ proc[p].filp \in File \ Private
         /\ Shape'
<1> DEFINE b == [filp |-> proc[p].filp, bi_qos |-> file[proc[p].filp].f_qos]
<1>0. Typed /\ proc[p].filp \in File \ Private /\ qos(p) \in Obj \cup {NULL}
  BY Using, FileFields DEF dio_bio_submit, At, qos
<1>1. Becomes(p, "idle", NULL, NULL, NULL, NULL, FALSE)
  BY <1>0, RestBecomes DEF dio_bio_submit
<1>2. b \in Bio /\ b.filp = proc[p].filp /\ b.bi_qos = qos(p)
  BY <1>0 DEF Bio, qos
<1>3. b # NULL
  BY <1>0, <1>2, FileQosAssumption DEF Bio
<1>4. io' = [io EXCEPT ![i] = b]
  BY DEF dio_bio_submit
<1> HIDE DEF b
<1>5. io' \in [Io -> Bio \cup {NULL}] /\ io'[i] = b /\ \A j \in Io \ {i} : io'[j] = io[j]
  BY <1>0, <1>2, <1>4 DEF Typed
<1>6. Typed'
  BY <1>0, <1>1, <1>5, TypedMoved DEF Typed, dio_bio_submit
<1>7. Shape'
  BY <1>1, <1>6, RestPlaced, ShapeMoved
<1> QED
  BY <1>0, <1>1, <1>2, <1>3, <1>5, <1>7

LEMMA EndIoShape ==
  ASSUME Shape, NEW i \in Io, end_io(i)
  PROVE  Put(io[i].filp) /\ io[i].filp \in File \ Private /\ Shape'
<1>0. Typed /\ io[i].filp \in File \ Private
  BY DEF Shape, Typed, Bio, end_io
<1>1. Put(io[i].filp)
  BY <1>0, FputFile DEF end_io, Put
<1>2. Typed'
  BY <1>0, <1>1 DEF Typed, end_io, Put, FileBecomes
<1> QED
  BY <1>0, <1>1, <1>2 DEF Shape, end_io

(***************************************************************************)
(* f_count counts                                                          *)
(***************************************************************************)
One(b) == IF b THEN 1 ELSE 0

LEMMA CountMove ==
  ASSUME NEW A, IsFiniteSet(A), NEW B, NEW x, B \ {x} = A \ {x}
  PROVE  /\ Cardinality(A) \in Nat /\ Cardinality(B) \in Nat
         /\ Cardinality(B) = Cardinality(A) - One(x \in A) + One(x \in B)
<1>1. Cardinality(A) \in Nat
  BY FS_CardinalityType
<1>2. CASE x \in A /\ x \in B
  <2>1. A = B
    BY <1>2
  <2> QED
    BY <1>1, <1>2, <2>1 DEF One
<1>3. CASE x \notin A /\ x \notin B
  <2>1. A = B
    BY <1>3
  <2> QED
    BY <1>1, <1>3, <2>1 DEF One
<1>4. CASE x \in A /\ x \notin B
  <2>1. B = A \ {x}
    BY <1>4
  <2>2. Cardinality(B) = Cardinality(A) - 1 /\ IsFiniteSet(B)
    BY <1>4, <2>1, FS_RemoveElement
  <2>3. Cardinality(B) \in Nat
    BY <2>2, FS_CardinalityType
  <2> QED
    BY <1>1, <1>4, <2>2, <2>3 DEF One
<1>5. CASE x \notin A /\ x \in B
  <2>1. B = A \cup {x}
    BY <1>5
  <2>2. Cardinality(B) = Cardinality(A) + 1
    BY <1>5, <2>1, FS_AddElement
  <2> QED
    BY <1>1, <1>5, <2>2 DEF One
<1> QED
  BY <1>2, <1>3, <1>4, <1>5

LEMMA UsersFinite ==
  ASSUME NEW f
  PROVE  /\ IsFiniteSet(descriptors(f)) /\ IsFiniteSet(callers(f)) /\ IsFiniteSet(bios(f))
         /\ Cardinality(descriptors(f)) \in Nat /\ Cardinality(callers(f)) \in Nat
         /\ Cardinality(bios(f)) \in Nat
<1>1. descriptors(f) \subseteq Fds /\ callers(f) \subseteq Proc /\ bios(f) \subseteq Io
  BY DEF descriptors, callers, bios
<1>2. IsFiniteSet(descriptors(f)) /\ IsFiniteSet(callers(f)) /\ IsFiniteSet(bios(f))
  BY <1>1, FileQosAssumption, FS_Subset
<1> QED
  BY <1>2, FS_CardinalityType

LEMMA FdCount ==
  ASSUME NEW d \in Fds, \A e \in Fds \ {d} : fd'[e] = fd[e], NEW f
  PROVE  /\ Cardinality(descriptors(f)') \in Nat
         /\ Cardinality(descriptors(f)')
              = Cardinality(descriptors(f)) - One(fd[d] = f) + One(fd'[d] = f)
<1>1. descriptors(f)' \ {d} = descriptors(f) \ {d}
  BY DEF descriptors
<1>2. (d \in descriptors(f) <=> fd[d] = f) /\ (d \in descriptors(f)' <=> fd'[d] = f)
  BY DEF descriptors
<1>3. One(d \in descriptors(f)) = One(fd[d] = f) /\ One(d \in descriptors(f)') = One(fd'[d] = f)
  BY <1>2 DEF One
<1> DEFINE A == descriptors(f)
           B == descriptors(f)'
<1>4. IsFiniteSet(A) /\ B \ {d} = A \ {d}
  BY <1>1, UsersFinite
<1> HIDE DEF A, B
<1>5. Cardinality(B) \in Nat /\ Cardinality(B) = Cardinality(A) - One(d \in A) + One(d \in B)
  BY <1>4, CountMove
<1> QED
  BY <1>3, <1>5 DEF A, B

LEMMA ProcCount ==
  ASSUME NEW p \in Proc, \A r \in Proc \ {p} : proc'[r] = proc[r], NEW f
  PROVE  /\ Cardinality(callers(f)') \in Nat
         /\ Cardinality(callers(f)')
              = Cardinality(callers(f)) - One(proc[p].filp = f) + One(proc'[p].filp = f)
<1>1. callers(f)' \ {p} = callers(f) \ {p}
  BY DEF callers
<1>2. (p \in callers(f) <=> proc[p].filp = f) /\ (p \in callers(f)' <=> proc'[p].filp = f)
  BY DEF callers
<1>3. One(p \in callers(f)) = One(proc[p].filp = f) /\ One(p \in callers(f)') = One(proc'[p].filp = f)
  BY <1>2 DEF One
<1> DEFINE A == callers(f)
           B == callers(f)'
<1>4. IsFiniteSet(A) /\ B \ {p} = A \ {p}
  BY <1>1, UsersFinite
<1> HIDE DEF A, B
<1>5. Cardinality(B) \in Nat /\ Cardinality(B) = Cardinality(A) - One(p \in A) + One(p \in B)
  BY <1>4, CountMove
<1> QED
  BY <1>3, <1>5 DEF A, B

LEMMA IoCount ==
  ASSUME NEW i \in Io, \A j \in Io \ {i} : io'[j] = io[j], NEW f
  PROVE  /\ Cardinality(bios(f)') \in Nat
         /\ Cardinality(bios(f)')
              = Cardinality(bios(f)) - One(io[i] # NULL /\ io[i].filp = f)
                                     + One(io'[i] # NULL /\ io'[i].filp = f)
<1>1. bios(f)' \ {i} = bios(f) \ {i}
  BY DEF bios
<1>2. /\ i \in bios(f) <=> io[i] # NULL /\ io[i].filp = f
      /\ i \in bios(f)' <=> io'[i] # NULL /\ io'[i].filp = f
  BY DEF bios
<1>3. /\ One(i \in bios(f)) = One(io[i] # NULL /\ io[i].filp = f)
      /\ One(i \in bios(f)') = One(io'[i] # NULL /\ io'[i].filp = f)
  BY <1>2 DEF One
<1> DEFINE A == bios(f)
           B == bios(f)'
<1>4. IsFiniteSet(A) /\ B \ {i} = A \ {i}
  BY <1>1, UsersFinite
<1> HIDE DEF A, B
<1>5. Cardinality(B) \in Nat /\ Cardinality(B) = Cardinality(A) - One(i \in A) + One(i \in B)
  BY <1>4, CountMove
<1> QED
  BY <1>3, <1>5 DEF A, B

\* How the number of users changes when a process, a descriptor or a bio lets go of one file
\* and takes another.
LEMMA UsesProc ==
  ASSUME NEW p \in Proc, \A r \in Proc \ {p} : proc'[r] = proc[r], UNCHANGED <<fd, io>>, NEW f
  PROVE  /\ uses(f) \in Nat
         /\ uses(f)' = uses(f) - One(proc[p].filp = f) + One(proc'[p].filp = f)
<1>1. descriptors(f)' = descriptors(f) /\ bios(f)' = bios(f)
  BY DEF descriptors, bios
<1>2. One(proc[p].filp = f) \in Int /\ One(proc'[p].filp = f) \in Int
  BY DEF One
<1> QED
  BY <1>1, <1>2, ProcCount, UsersFinite DEF uses

LEMMA UsesFd ==
  ASSUME NEW d \in Fds, \A e \in Fds \ {d} : fd'[e] = fd[e], UNCHANGED <<proc, io>>, NEW f
  PROVE  /\ uses(f) \in Nat
         /\ uses(f)' = uses(f) - One(fd[d] = f) + One(fd'[d] = f)
<1>1. callers(f)' = callers(f) /\ bios(f)' = bios(f)
  BY DEF callers, bios
<1>2. One(fd[d] = f) \in Int /\ One(fd'[d] = f) \in Int
  BY DEF One
<1> QED
  BY <1>1, <1>2, FdCount, UsersFinite DEF uses

LEMMA UsesIo ==
  ASSUME NEW i \in Io, \A j \in Io \ {i} : io'[j] = io[j], UNCHANGED <<fd, proc>>, NEW f
  PROVE  /\ uses(f) \in Nat
         /\ uses(f)' = uses(f) - One(io[i] # NULL /\ io[i].filp = f)
                               + One(io'[i] # NULL /\ io'[i].filp = f)
<1>1. callers(f)' = callers(f) /\ descriptors(f)' = descriptors(f)
  BY DEF callers, descriptors
<1>2. /\ One(io[i] # NULL /\ io[i].filp = f) \in Int
      /\ One(io'[i] # NULL /\ io'[i].filp = f) \in Int
  BY DEF One
<1> QED
  BY <1>1, <1>2, IoCount, UsersFinite DEF uses

LEMMA UsesFdProc ==
  ASSUME NEW d \in Fds, \A e \in Fds \ {d} : fd'[e] = fd[e],
         NEW p \in Proc, \A r \in Proc \ {p} : proc'[r] = proc[r], UNCHANGED io, NEW f
  PROVE  /\ uses(f) \in Nat
         /\ uses(f)' = uses(f) - One(fd[d] = f) + One(fd'[d] = f)
                               - One(proc[p].filp = f) + One(proc'[p].filp = f)
<1>1. bios(f)' = bios(f)
  BY DEF bios
<1>2. /\ One(fd[d] = f) \in Int /\ One(fd'[d] = f) \in Int
      /\ One(proc[p].filp = f) \in Int /\ One(proc'[p].filp = f) \in Int
  BY DEF One
<1> QED
  BY <1>1, <1>2, FdCount, ProcCount, UsersFinite DEF uses

LEMMA UsesIoProc ==
  ASSUME NEW i \in Io, \A j \in Io \ {i} : io'[j] = io[j],
         NEW p \in Proc, \A r \in Proc \ {p} : proc'[r] = proc[r], UNCHANGED fd, NEW f
  PROVE  /\ uses(f) \in Nat
         /\ uses(f)' = uses(f) - One(io[i] # NULL /\ io[i].filp = f)
                               + One(io'[i] # NULL /\ io'[i].filp = f)
                               - One(proc[p].filp = f) + One(proc'[p].filp = f)
<1>1. descriptors(f)' = descriptors(f)
  BY DEF descriptors
<1>2. /\ One(io[i] # NULL /\ io[i].filp = f) \in Int
      /\ One(io'[i] # NULL /\ io'[i].filp = f) \in Int
      /\ One(proc[p].filp = f) \in Int /\ One(proc'[p].filp = f) \in Int
  BY DEF One
<1> QED
  BY <1>1, <1>2, IoCount, ProcCount, UsersFinite DEF uses

\* A file that anything leads to has users.
LEMMA InUse ==
  ASSUME NEW f,
         \/ \E d \in Fds : fd[d] = f
         \/ \E p \in Proc : proc[p].filp = f
         \/ \E i \in Io : io[i] # NULL /\ io[i].filp = f
  PROVE  uses(f) \in Nat /\ uses(f) > 0
<1>1. descriptors(f) # {} \/ callers(f) # {} \/ bios(f) # {}
  BY DEF descriptors, callers, bios
<1>2. \/ Cardinality(descriptors(f)) # 0
      \/ Cardinality(callers(f)) # 0
      \/ Cardinality(bios(f)) # 0
  BY <1>1, UsersFinite, FS_EmptySet
<1> QED
  BY <1>2, UsersFinite DEF uses

\* A file that one process alone leads to has one user.
LEMMA OneUse ==
  ASSUME Shape, Alone, NEW p \in Proc, proc[p].pc \in {"open", "private"}
  PROVE  uses(proc[p].filp) = 1
<1> DEFINE f == proc[p].filp
<1>1. callers(f) = {p}
  BY DEF callers, Alone
<1>2. descriptors(f) = {} /\ bios(f) = {}
  BY DEF descriptors, bios, Alone
<1>3. Cardinality(callers(f)) = 1
  BY <1>1, FS_Singleton
<1>4. Cardinality(descriptors(f)) = 0 /\ Cardinality(bios(f)) = 0
  BY <1>2, FS_EmptySet
<1> QED
  BY <1>3, <1>4 DEF uses

\* One file changes, and its count is right again.
LEMMA CountedFile ==
  ASSUME Shape, Counted, NEW f \in File, \A g \in File \ {f} : file'[g] = file[g],
         uses(f)' = file'[f].f_count, \A g \in File \ {f} : uses(g)' = uses(g),
         file'[f].f_count > 0 => file'[f].stage = "open",
         file'[f].listed => file'[f].stage \in {"open", "release"}
  PROVE  Counted'
<1> SUFFICES ASSUME NEW g \in File
             PROVE  /\ file'[g].f_count = uses(g)'
                    /\ file'[g].f_count > 0 => file'[g].stage = "open"
                    /\ file'[g].listed => file'[g].stage \in {"open", "release"}
  BY DEF Counted
<1>1. CASE g = f
  BY <1>1
<1>2. CASE g # f
  BY <1>2 DEF Counted
<1> QED
  BY <1>1, <1>2

LEMMA CountedAs ==
  ASSUME Shape, Counted, NEW f \in File
  PROVE  /\ file[f].f_count = uses(f) /\ file[f].f_count \in Int
         /\ file[f].f_count > 0 => file[f].stage = "open"
         /\ file[f].listed => file[f].stage \in {"open", "release"}
BY FileFields DEF Shape, Typed, Counted

LEMMA FreeUnused ==
  ASSUME Shape, Counted, NEW f \in File, file[f].stage # "open"
  PROVE  /\ uses(f) = 0
         /\ \A d \in Fds : fd[d] # f
         /\ \A p \in Proc : proc[p].filp # f
         /\ \A i \in Io : io[i] # NULL => io[i].filp # f
<1>1. uses(f) \in Nat
  BY UsersFinite DEF uses
<1>2. ~(uses(f) > 0)
  BY CountedAs
<1>3. uses(f) = 0
  BY <1>1, <1>2
<1> QED
  BY <1>2, <1>3, InUse

LEMMA PutCounted ==
  ASSUME Shape, Counted, NEW f \in File, Put(f), uses(f) > 0,
         uses(f)' = uses(f) - 1, \A g \in File \ {f} : uses(g)' = uses(g)
  PROVE  Counted'
<1> DEFINE n == file[f].f_count - 1
           st == IF file[f].f_count = 1 THEN "release" ELSE file[f].stage
<1>1. /\ file[f].f_count = uses(f) /\ file[f].f_count \in Int
      /\ file[f].f_count > 0 => file[f].stage = "open"
  BY CountedAs
<1>2. n \in Int /\ uses(f)' = n
  BY <1>1
<1>3. n > 0 => st = "open"
  BY <1>1
<1>4. st \in {"open", "release"}
  BY <1>1
<1>5. FileBecomes(f, n, file[f].f_qos, file[f].listed, st)
  BY DEF Put
<1> HIDE DEF n, st
<1>6. /\ file'[f].f_count = n /\ file'[f].stage = st
      /\ \A g \in File \ {f} : file'[g] = file[g]
  BY <1>5 DEF FileBecomes
<1> QED
  BY <1>2, <1>3, <1>4, <1>6, CountedFile

LEMMA GottenCounted ==
  ASSUME Shape, Counted, NEW f \in File, Gotten(f), uses(f) > 0,
         uses(f)' = uses(f) + 1, \A g \in File \ {f} : uses(g)' = uses(g)
  PROVE  Counted'
<1> DEFINE n == file[f].f_count + 1
<1>1. /\ file[f].f_count = uses(f) /\ file[f].f_count \in Int
      /\ file[f].f_count > 0 => file[f].stage = "open"
      /\ file[f].listed => file[f].stage \in {"open", "release"}
  BY CountedAs
<1>2. n \in Int /\ uses(f)' = n /\ file[f].stage = "open"
  BY <1>1
<1>3. FileBecomes(f, n, file[f].f_qos, file[f].listed, file[f].stage)
  BY DEF Gotten
<1> HIDE DEF n
<1>4. /\ file'[f].f_count = n /\ file'[f].stage = file[f].stage
      /\ \A g \in File \ {f} : file'[g] = file[g]
  BY <1>3 DEF FileBecomes
<1> QED
  BY <1>2, <1>4, CountedFile

\* The first process leads to a file that nothing led to.
LEMMA EnterCounted ==
  ASSUME Shape, Referenced, NEW p \in Proc, NEW f \in File, proc[p].pc = "idle",
         file[f].stage # "open", NEW l \in {"open", "private"},
         NEW c, NEW a, NEW t, NEW z, Becomes(p, l, f, c, a, t, z),
         FileBecomes(f, 1, NULL, FALSE, "open"), UNCHANGED <<fd, io>>
  PROVE  Referenced'
<1>1. Counted /\ Alone
  BY DEF Referenced
<1>2. proc[p].filp = NULL /\ NULL \notin File
  BY Using, FileQosAssumption DEF Placed
<1>3. /\ \A r \in Proc \ {p} : proc'[r] = proc[r]
      /\ proc'[p].filp = f /\ proc'[p].pc = l
  BY DEF Becomes
<1>4. \A g \in File : uses(g)' = uses(g) - One(proc[p].filp = g) + One(proc'[p].filp = g)
  BY <1>3, UsesProc
<1>5. \A g \in File : uses(g) \in Nat
  BY UsersFinite DEF uses
<1>6. uses(f) = 0
  BY <1>1, FreeUnused
<1>7. uses(f)' = 1 /\ \A g \in File \ {f} : uses(g)' = uses(g)
  BY <1>2, <1>3, <1>4, <1>5, <1>6 DEF One
<1>10. /\ file'[f].f_count = 1 /\ file'[f].stage = "open"
       /\ \A g \in File \ {f} : file'[g] = file[g]
  BY DEF FileBecomes
<1>8. Counted'
  BY <1>1, <1>7, <1>10, CountedFile
<1>9. Alone'
  <2>1. /\ \A d \in Fds : fd[d] # f
        /\ \A r \in Proc : proc[r].filp # f
        /\ \A i \in Io : io[i] # NULL => io[i].filp # f
    BY <1>1, FreeUnused
  <2> QED
    BY <1>1, <1>3, <2>1 DEF Alone
<1> QED
  BY <1>8, <1>9 DEF Referenced

LEMMA InstallCounted ==
  ASSUME Shape, Referenced, NEW p \in Proc, NEW d \in Fds, fd_install(p, d)
  PROVE  Referenced'
<1> DEFINE f == proc[p].filp
<1>1. Counted /\ Alone /\ f \in File /\ NULL \notin File /\ proc[p].pc = "open" /\ Typed
  BY Using, FileQosAssumption DEF Referenced, fd_install, At
<1>2. Becomes(p, "idle", NULL, NULL, NULL, NULL, FALSE)
  BY InstallShape
<1>3. FileBecomes(f, file[f].f_count, file[f].f_qos, TRUE, file[f].stage)
  BY InstallShape
<1>4. /\ fd'[d] = f /\ fd[d] = NULL /\ \A e \in Fds \ {d} : fd'[e] = fd[e]
      /\ UNCHANGED io
  BY <1>1 DEF fd_install, Typed
<1>5. /\ \A r \in Proc \ {p} : proc'[r] = proc[r]
      /\ proc'[p].filp = NULL /\ proc'[p].pc = "idle"
  BY <1>2 DEF Becomes
<1>6. \A g \in File : /\ uses(g) \in Nat
                      /\ uses(g)' = uses(g) - One(fd[d] = g) + One(fd'[d] = g)
                                            - One(proc[p].filp = g) + One(proc'[p].filp = g)
  BY <1>4, <1>5, UsesFdProc
<1>7. \A g \in File : uses(g)' = uses(g)
  BY <1>1, <1>4, <1>5, <1>6 DEF One
<1>8. /\ file[f].f_count = uses(f) /\ file[f].f_count \in Int
      /\ file[f].f_count > 0 => file[f].stage = "open"
  BY <1>1, CountedAs
<1>9. uses(f) > 0
  BY <1>1, InUse
<1>12. /\ file'[f].f_count = file[f].f_count /\ file'[f].stage = file[f].stage
       /\ \A g \in File \ {f} : file'[g] = file[g]
  BY <1>3 DEF FileBecomes
<1>10. Counted'
  BY <1>1, <1>7, <1>8, <1>9, <1>12, CountedFile
<1>11. Alone'
  <2> SUFFICES ASSUME NEW r \in Proc, proc'[r].pc \in {"open", "private"}
               PROVE  /\ \A e \in Fds : fd'[e] # proc'[r].filp
                      /\ \A x \in Proc \ {r} : proc'[x].filp # proc'[r].filp
                      /\ \A i \in Io : io'[i] # NULL => io'[i].filp # proc'[r].filp
    BY DEF Alone
  <2>1. r # p /\ proc'[r] = proc[r] /\ proc[r].filp \in File
    BY <1>5, Using
  <2>2. /\ \A e \in Fds : fd[e] # proc[r].filp
        /\ \A x \in Proc \ {r} : proc[x].filp # proc[r].filp
        /\ \A i \in Io : io[i] # NULL => io[i].filp # proc[r].filp
    BY <1>1, <2>1 DEF Alone
  <2> QED
    BY <1>1, <1>4, <1>5, <2>1, <2>2
<1> QED
  BY <1>10, <1>11 DEF Referenced

\* The only process lets go of the file, and the file is freed.
LEMMA LeaveCounted ==
  ASSUME Shape, Referenced, NEW p \in Proc, proc[p].pc \in {"open", "private"},
         Becomes(p, "idle", NULL, NULL, NULL, NULL, FALSE),
         FileBecomes(proc[p].filp, 0, NULL, FALSE, "free"), UNCHANGED <<fd, io>>
  PROVE  Referenced'
<1>1. Counted /\ Alone /\ NULL \notin File
  BY FileQosAssumption DEF Referenced
<1>0. PICK f \in File : f = proc[p].filp
  BY Using
<1>2. /\ \A r \in Proc \ {p} : proc'[r] = proc[r]
      /\ proc'[p].filp = NULL /\ proc'[p].pc = "idle"
  BY DEF Becomes
<1>3. \A g \in File : /\ uses(g) \in Nat
                      /\ uses(g)' = uses(g) - One(proc[p].filp = g) + One(proc'[p].filp = g)
  BY <1>2, UsesProc
<1>4. uses(f) = 1
  BY <1>0, <1>1, OneUse
<1>5. uses(f)' = 0 /\ \A g \in File \ {f} : uses(g)' = uses(g)
  BY <1>0, <1>1, <1>2, <1>3, <1>4 DEF One
<1>6. /\ file'[f].f_count = 0 /\ ~file'[f].listed
      /\ \A g \in File \ {f} : file'[g] = file[g]
  BY <1>0 DEF FileBecomes
<1>7. Counted'
  BY <1>1, <1>5, <1>6, CountedFile
<1>8. Alone'
  <2>1. \A r \in Proc : proc[r].pc \in {"open", "private"} => proc[r].filp # NULL
    BY <1>1, Using
  <2> QED
    BY <1>1, <1>2, <2>1 DEF Alone
<1> QED
  BY <1>7, <1>8 DEF Referenced

LEMMA CloseCounted ==
  ASSUME Shape, Referenced, NEW p \in Proc, NEW d \in Fds, sys_close(p, d)
  PROVE  Referenced'
<1>0. PICK f \in File : f = fd[d] /\ Put(f)
  BY CloseShape
<1>1. Counted /\ Alone /\ NULL \notin File /\ Typed
  BY FileQosAssumption DEF Referenced, Shape
<1>2. /\ fd'[d] = NULL /\ \A e \in Fds \ {d} : fd'[e] = fd[e]
      /\ UNCHANGED <<proc, io>>
  BY <1>1 DEF sys_close, Typed
<1>3. \A g \in File : /\ uses(g) \in Nat
                      /\ uses(g)' = uses(g) - One(fd[d] = g) + One(fd'[d] = g)
  BY <1>2, UsesFd
<1>4. uses(f)' = uses(f) - 1 /\ \A g \in File \ {f} : uses(g)' = uses(g)
  BY <1>0, <1>1, <1>2, <1>3 DEF One
<1>5. uses(f) > 0
  BY <1>0, InUse
<1>6. Counted'
  BY <1>0, <1>1, <1>4, <1>5, PutCounted
<1>7. Alone'
  <2>1. \A e \in Fds : fd'[e] = fd[e] \/ fd'[e] = NULL
    BY <1>2
  <2>2. \A r \in Proc : proc[r].pc \in {"open", "private"} => proc[r].filp # NULL
    BY <1>1, Using
  <2> QED
    BY <1>1, <1>2, <2>1, <2>2 DEF Alone
<1> QED
  BY <1>6, <1>7 DEF Referenced

\* __fput works on a file nobody leads to.
LEMMA ReleaseCounted ==
  ASSUME Shape, Referenced, NEW f \in File, file_kill(f) \/ file_free(f)
  PROVE  Referenced'
<1>1. Counted /\ Alone /\ file[f].stage # "open"
  BY DEF Referenced, file_kill, file_free
<1>2. uses(f) = 0
  BY <1>1, FreeUnused
<1>3. /\ file'[f].f_count = 0 /\ ~file'[f].listed
      /\ \A g \in File \ {f} : file'[g] = file[g]
  <2>1. CASE file_kill(f)
    <3>1. FileBecomes(f, file[f].f_count, file[f].f_qos, FALSE, "killed")
      BY <2>1, KillShape
    <3>2. file[f].f_count = 0
      BY <1>1, <1>2, CountedAs
    <3> QED
      BY <3>1, <3>2 DEF FileBecomes
  <2>2. CASE file_free(f)
    <3>1. FileBecomes(f, 0, NULL, FALSE, "free")
      BY <2>2, FreeShape
    <3> QED
      BY <3>1 DEF FileBecomes
  <2> QED
    BY <2>1, <2>2
<1>4. UNCHANGED <<fd, proc, io>>
  BY DEF file_kill, file_free
<1>5. \A g : uses(g)' = uses(g)
  BY <1>4 DEF uses, descriptors, callers, bios
<1>6. Counted'
  BY <1>1, <1>2, <1>3, <1>5, CountedFile
<1>7. Alone'
  BY <1>1, <1>4 DEF Alone
<1> QED
  BY <1>6, <1>7 DEF Referenced

\* fget: the process leads to a file that a descriptor leads to as well.
LEMMA FgetCounted ==
  ASSUME Shape, Referenced, NEW p \in Proc, NEW d \in Fds, fd[d] # NULL, proc[p].pc = "idle",
         NEW l \in {"lock", "submit"}, NEW c, NEW a, NEW t, NEW z,
         Becomes(p, l, fd[d], c, a, t, z), Gotten(fd[d]), UNCHANGED <<fd, io>>
  PROVE  Referenced'
<1>0. PICK f \in File : f = fd[d] /\ Gotten(f)
  BY Behind
<1>1. Counted /\ Alone /\ NULL \notin File /\ proc[p].filp = NULL
  BY Using, FileQosAssumption DEF Referenced, Placed
<1>2. /\ \A r \in Proc \ {p} : proc'[r] = proc[r]
      /\ proc'[p].filp = f /\ proc'[p].pc = l
  BY <1>0 DEF Becomes
<1>3. \A g \in File : /\ uses(g) \in Nat
                      /\ uses(g)' = uses(g) - One(proc[p].filp = g) + One(proc'[p].filp = g)
  BY <1>2, UsesProc
<1>4. uses(f)' = uses(f) + 1 /\ \A g \in File \ {f} : uses(g)' = uses(g)
  BY <1>1, <1>2, <1>3 DEF One
<1>5. uses(f) > 0
  BY <1>0, InUse
<1>6. Counted'
  BY <1>0, <1>1, <1>4, <1>5, GottenCounted
<1>7. Alone'
  BY <1>0, <1>1, <1>2 DEF Alone
<1> QED
  BY <1>6, <1>7 DEF Referenced

\* Inside an ioctl no reference is taken or dropped.
LEMMA InsideCounted ==
  ASSUME Shape, Referenced, NEW p \in Proc, NEW l \in Labels \ {"open", "private"},
         NEW t, NEW z, Inside(p, l, t, z), UNCHANGED <<fd, io>>,
         \A g \in File : /\ file'[g].f_count = file[g].f_count /\ file'[g].stage = file[g].stage
                         /\ file'[g].listed = file[g].listed
  PROVE  Referenced'
<1>1. Counted /\ Alone
  BY DEF Referenced
<1>2. /\ \A r \in Proc : proc'[r].filp = proc[r].filp
      /\ \A r \in Proc : proc'[r].pc \in {"open", "private"} => proc[r].pc \in {"open", "private"}
  BY DEF Inside, Becomes
<1>3. ASSUME NEW g \in File PROVE uses(g)' = uses(g)
  <2>1. callers(g)' = callers(g) /\ descriptors(g)' = descriptors(g) /\ bios(g)' = bios(g)
    BY <1>2 DEF callers, descriptors, bios
  <2> QED
    BY <2>1 DEF uses
<1>4. Counted'
  BY <1>1, <1>3 DEF Counted
<1>5. Alone'
  BY <1>1, <1>2 DEF Alone
<1> QED
  BY <1>4, <1>5 DEF Referenced

LEMMA UnlockCounted ==
  ASSUME Shape, Referenced, NEW p \in Proc, unlock_kernel(p)
  PROVE  Referenced'
<1>0. PICK f \in File : f = proc[p].filp /\ Put(f)
  BY UnlockShape
<1>1. Counted /\ Alone /\ NULL \notin File
  BY FileQosAssumption DEF Referenced
<1>2. Becomes(p, "idle", NULL, NULL, NULL, NULL, FALSE) /\ UNCHANGED <<fd, io>>
  BY UnlockShape DEF unlock_kernel
<1>3. /\ \A r \in Proc \ {p} : proc'[r] = proc[r]
      /\ proc'[p].filp = NULL /\ proc'[p].pc = "idle"
  BY <1>2 DEF Becomes
<1>4. \A g \in File : /\ uses(g) \in Nat
                      /\ uses(g)' = uses(g) - One(proc[p].filp = g) + One(proc'[p].filp = g)
  BY <1>2, <1>3, UsesProc
<1>5. uses(f)' = uses(f) - 1 /\ \A g \in File \ {f} : uses(g)' = uses(g)
  BY <1>0, <1>1, <1>3, <1>4 DEF One
<1>6. uses(f) > 0
  BY <1>0, InUse
<1>7. Counted'
  BY <1>0, <1>1, <1>5, <1>6, PutCounted
<1>8. Alone'
  <2>1. \A r \in Proc : proc[r].pc \in {"open", "private"} => proc[r].filp # NULL
    BY <1>1, Using
  <2> QED
    BY <1>1, <1>2, <1>3, <2>1 DEF Alone
<1> QED
  BY <1>7, <1>8 DEF Referenced

\* The reference of the process becomes the reference of the bio.
LEMMA SubmitCounted ==
  ASSUME Shape, Referenced, NEW p \in Proc, NEW i \in Io, dio_bio_submit(p, i)
  PROVE  Referenced'
<1> DEFINE f == proc[p].filp
<1>1. Counted /\ Alone /\ f \in File /\ NULL \notin File
  BY SubmitShape, FileQosAssumption DEF Referenced
<1>2. /\ io'[i] # NULL /\ io'[i].filp = f /\ \A j \in Io \ {i} : io'[j] = io[j]
  BY SubmitShape
<1>3. Becomes(p, "idle", NULL, NULL, NULL, NULL, FALSE)
  BY SubmitShape
<1>4. /\ \A r \in Proc \ {p} : proc'[r] = proc[r]
      /\ proc'[p].filp = NULL /\ proc'[p].pc = "idle"
  BY <1>3 DEF Becomes
<1>5. io[i] = NULL /\ UNCHANGED <<fd, file>> /\ proc[p].pc = "submit"
  BY DEF dio_bio_submit, At
<1>6. \A g \in File : /\ uses(g) \in Nat
                      /\ uses(g)' = uses(g) - One(io[i] # NULL /\ io[i].filp = g)
                                            + One(io'[i] # NULL /\ io'[i].filp = g)
                                            - One(proc[p].filp = g) + One(proc'[p].filp = g)
  BY <1>2, <1>4, <1>5, UsesIoProc
<1>7. \A g \in File : uses(g)' = uses(g)
  BY <1>1, <1>2, <1>4, <1>5, <1>6 DEF One
<1>8. Counted'
  BY <1>1, <1>5, <1>7 DEF Counted
<1>9. Alone'
  <2> SUFFICES ASSUME NEW r \in Proc, proc'[r].pc \in {"open", "private"}
               PROVE  /\ \A e \in Fds : fd'[e] # proc'[r].filp
                      /\ \A x \in Proc \ {r} : proc'[x].filp # proc'[r].filp
                      /\ \A j \in Io : io'[j] # NULL => io'[j].filp # proc'[r].filp
    BY DEF Alone
  <2>1. r # p /\ proc'[r] = proc[r] /\ proc[r].filp \in File
    BY <1>4, Using
  <2>2. /\ \A e \in Fds : fd[e] # proc[r].filp
        /\ \A x \in Proc \ {r} : proc[x].filp # proc[r].filp
        /\ \A j \in Io : io[j] # NULL => io[j].filp # proc[r].filp
    BY <1>1, <2>1 DEF Alone
  <2> QED
    BY <1>1, <1>2, <1>4, <1>5, <2>1, <2>2
<1> QED
  BY <1>8, <1>9 DEF Referenced

LEMMA EndIoCounted ==
  ASSUME Shape, Referenced, NEW i \in Io, end_io(i)
  PROVE  Referenced'
<1>0. PICK f \in File : f = io[i].filp /\ Put(f)
  BY EndIoShape
<1>1. Counted /\ Alone /\ Typed
  BY DEF Referenced, Shape
<1>2. /\ io[i] # NULL /\ io'[i] = NULL /\ \A j \in Io \ {i} : io'[j] = io[j]
      /\ UNCHANGED <<fd, proc>>
  BY <1>1 DEF end_io, Typed
<1>3. \A g \in File : /\ uses(g) \in Nat
                      /\ uses(g)' = uses(g) - One(io[i] # NULL /\ io[i].filp = g)
                                            + One(io'[i] # NULL /\ io'[i].filp = g)
  BY <1>2, UsesIo
<1>4. uses(f)' = uses(f) - 1 /\ \A g \in File \ {f} : uses(g)' = uses(g)
  BY <1>0, <1>1, <1>2, <1>3 DEF One
<1>5. uses(f) > 0
  BY <1>0, <1>2, InUse
<1>6. Counted'
  BY <1>0, <1>1, <1>4, <1>5, PutCounted
<1>7. Alone'
  <2>1. \A j \in Io : io'[j] # NULL => io'[j] = io[j]
    BY <1>2
  <2> QED
    BY <1>1, <1>2, <2>1 DEF Alone
<1> QED
  BY <1>6, <1>7 DEF Referenced

(***************************************************************************)
(* The big kernel lock                                                     *)
(***************************************************************************)
LEMMA LockedMove ==
  ASSUME Locked, NEW p \in Proc, \A r \in Proc \ {p} : proc'[r] = proc[r],
         kernel_lock' = kernel_lock \/ {kernel_lock, kernel_lock'} \subseteq {p, NULL},
         proc'[p].pc \in Cmds \cup {"fields", "unlock"} => kernel_lock' = p,
         proc'[p].pc \in {"alloc", "copy"} => kernel_lock' = p \/ proc'[p].asleep,
         proc'[p].asleep => proc'[p].pc \in {"alloc", "copy"} /\ kernel_lock' # p
  PROVE  Locked'
<1> SUFFICES ASSUME NEW r \in Proc
             PROVE  /\ proc'[r].pc \in Cmds \cup {"fields", "unlock"} => kernel_lock' = r
                    /\ proc'[r].pc \in {"alloc", "copy"} => kernel_lock' = r \/ proc'[r].asleep
                    /\ proc'[r].asleep => proc'[r].pc \in {"alloc", "copy"} /\ kernel_lock' # r
  BY DEF Locked, Holds
<1>1. CASE r = p
  BY <1>1
<1>2. CASE r # p
  <2>1. proc'[r] = proc[r] /\ (kernel_lock' = r <=> kernel_lock = r)
    BY <1>2, FileQosAssumption
  <2> QED
    BY <2>1 DEF Locked, Holds
<1> QED
  BY <1>1, <1>2

\* Where the lock plays no role.
Outside == {"idle", "open", "private", "submit", "lock", "oops"}

LEMMA LockedOutside ==
  ASSUME Locked, NEW p \in Proc, proc[p].pc \in Outside, NEW l \in Outside,
         NEW f, NEW c, NEW a, NEW t, NEW z, Becomes(p, l, f, c, a, t, z),
         z = FALSE \/ z = proc[p].asleep, UNCHANGED kernel_lock
  PROVE  Locked'
<1>1. ~proc[p].asleep
  BY DEF Locked, Outside
<1>2. /\ \A r \in Proc \ {p} : proc'[r] = proc[r]
      /\ proc'[p].pc = l /\ ~proc'[p].asleep
  BY <1>1 DEF Becomes
<1>3. l \notin Cmds \cup {"fields", "unlock", "alloc", "copy"}
  BY DEF Outside, Cmds
<1> QED
  BY <1>2, <1>3, LockedMove

LEMMA LockedRest ==
  ASSUME Locked, NEW p \in Proc, proc[p].pc \in Outside, UNCHANGED kernel_lock,
         Becomes(p, "idle", NULL, NULL, NULL, NULL, FALSE)
  PROVE  Locked'
<1>1. /\ \A r \in Proc \ {p} : proc'[r] = proc[r]
      /\ proc'[p].pc = "idle" /\ ~proc'[p].asleep
  BY DEF Becomes
<1> QED
  BY <1>1, LockedMove DEF Cmds

LEMMA LockedIoctl ==
  ASSUME Shape, Locked, NEW p \in Proc,
         \/ lock_kernel(p) \/ UCSB_IO_GET_QOS(p) \/ UCSB_IO_BESTEFFORT(p) \/ set_qos(p)
         \/ \E s \in Obj : kmalloc(p, s)
         \/ set_fields(p) \/ copy_from_user(p) \/ sleep(p) \/ wake(p) \/ unlock_kernel(p)
  PROVE  Locked'
<1>0. /\ proc[p].pc \in Cmds \cup {"fields", "unlock"} => kernel_lock = p
      /\ proc[p].pc \in {"alloc", "copy"} => kernel_lock = p \/ proc[p].asleep
      /\ proc[p].asleep => proc[p].pc \in {"alloc", "copy"} /\ kernel_lock # p
  BY DEF Locked, Holds
<1>1. p # NULL
  BY FileQosAssumption
<1>2. CASE lock_kernel(p)
  <2>1. Inside(p, proc[p].cmd, proc[p].to, proc[p].asleep) /\ proc[p].cmd \in Cmds
    BY <1>2, LockShape
  <2>2. proc[p].pc = "lock" /\ kernel_lock = NULL /\ kernel_lock' = p
    BY <1>2 DEF lock_kernel, At
  <2>3. /\ \A r \in Proc \ {p} : proc'[r] = proc[r]
        /\ proc'[p].pc \in Cmds /\ proc'[p].asleep = proc[p].asleep
    BY <2>1 DEF Inside, Becomes
  <2> QED
    BY <1>0, <2>2, <2>3, LockedMove DEF Cmds
<1>3. CASE UCSB_IO_GET_QOS(p)
  <2>1. Inside(p, "unlock", proc[p].to, proc[p].asleep)
    BY <1>3, GetQosShape
  <2>2. proc[p].pc = "UCSB_IO_GET_QOS" /\ kernel_lock' = kernel_lock /\ proc[p].pc \in Cmds
    BY <1>3 DEF UCSB_IO_GET_QOS, At, Cmds
  <2>3. /\ \A r \in Proc \ {p} : proc'[r] = proc[r]
        /\ proc'[p].pc = "unlock" /\ proc'[p].asleep = proc[p].asleep
    BY <2>1 DEF Inside, Becomes
  <2> QED
    BY <1>0, <2>2, <2>3, LockedMove
<1>4. CASE UCSB_IO_BESTEFFORT(p)
  <2>1. \/ Inside(p, "unlock", proc[p].to, proc[p].asleep) /\ kernel_lock' = kernel_lock
        \/ Inside(p, "oops", proc[p].to, proc[p].asleep) /\ kernel_lock' = NULL
    BY <1>4, BesteffortShape
  <2>2. proc[p].pc = "UCSB_IO_BESTEFFORT" /\ proc[p].pc \in Cmds
    BY <1>4 DEF UCSB_IO_BESTEFFORT, At, Cmds
  <2>3. kernel_lock = p /\ ~proc[p].asleep
    BY <1>0, <2>2
  <2>4. /\ \A r \in Proc \ {p} : proc'[r] = proc[r]
        /\ proc'[p].asleep = proc[p].asleep
        /\ \/ proc'[p].pc = "unlock" /\ kernel_lock' = kernel_lock
           \/ proc'[p].pc = "oops" /\ kernel_lock' = NULL
    BY <2>1 DEF Inside, Becomes
  <2> QED
    BY <2>3, <2>4, LockedMove DEF Cmds
<1>5. CASE set_qos(p)
  <2>1. \/ Inside(p, "alloc", proc[p].to, proc[p].asleep)
        \/ Inside(p, "copy", qos(p), proc[p].asleep)
    BY <1>5, SetQosShape
  <2>2. proc[p].pc \in Cmds /\ proc[p].pc \notin {"alloc", "copy"} /\ kernel_lock' = kernel_lock
    BY <1>5 DEF set_qos, At, Cmds
  <2>3. /\ \A r \in Proc \ {p} : proc'[r] = proc[r]
        /\ proc'[p].asleep = proc[p].asleep
        /\ proc'[p].pc = "alloc" \/ proc'[p].pc = "copy"
    BY <2>1 DEF Inside, Becomes
  <2> QED
    BY <1>0, <2>2, <2>3, LockedMove DEF Cmds
<1>6. CASE \E s \in Obj : kmalloc(p, s)
  <2>1. PICK s \in Obj : Inside(p, "fields", s, proc[p].asleep)
    BY <1>6, KmallocShape
  <2>2. kernel_lock = p /\ kernel_lock' = kernel_lock
    BY <1>6 DEF kmalloc, Holds
  <2>3. /\ \A r \in Proc \ {p} : proc'[r] = proc[r]
        /\ proc'[p].asleep = proc[p].asleep /\ proc'[p].pc = "fields"
    BY <2>1 DEF Inside, Becomes
  <2> QED
    BY <1>0, <2>2, <2>3, LockedMove
<1>7. CASE set_fields(p)
  <2>1. Inside(p, "copy", proc[p].to, proc[p].asleep)
    BY <1>7, SetFieldsShape
  <2>2. proc[p].pc = "fields" /\ kernel_lock' = kernel_lock
    BY <1>7 DEF set_fields, At
  <2>3. /\ \A r \in Proc \ {p} : proc'[r] = proc[r]
        /\ proc'[p].asleep = proc[p].asleep /\ proc'[p].pc = "copy"
    BY <2>1 DEF Inside, Becomes
  <2> QED
    BY <1>0, <2>2, <2>3, LockedMove DEF Cmds
<1>8. CASE copy_from_user(p)
  <2>1. Inside(p, "unlock", proc[p].to, proc[p].asleep)
    BY <1>8, CopyShape
  <2>2. kernel_lock = p /\ kernel_lock' = kernel_lock
    BY <1>8 DEF copy_from_user, Holds
  <2>3. /\ \A r \in Proc \ {p} : proc'[r] = proc[r]
        /\ proc'[p].asleep = proc[p].asleep /\ proc'[p].pc = "unlock"
    BY <2>1 DEF Inside, Becomes
  <2> QED
    BY <1>0, <2>2, <2>3, LockedMove
<1>9. CASE sleep(p) \/ wake(p)
  <2>1. PICK z \in BOOLEAN : Inside(p, proc[p].pc, proc[p].to, z)
    BY <1>9, SleepShape
  <2>2. /\ \A r \in Proc \ {p} : proc'[r] = proc[r]
        /\ proc'[p].pc = proc[p].pc
    BY <2>1 DEF Inside, Becomes
  <2>3. /\ proc[p].pc \in {"alloc", "copy"}
        /\ \/ kernel_lock = p /\ kernel_lock' = NULL
           \/ kernel_lock = NULL /\ kernel_lock' = p
    BY <1>0, <1>9 DEF sleep, wake, Holds
  <2>4. proc'[p].asleep <=> kernel_lock' = NULL
    BY <1>1, <1>9 DEF sleep, wake, Holds, Shape, Typed, ProcType
  <2> QED
    BY <1>1, <2>2, <2>3, <2>4, LockedMove DEF Cmds
<1>10. CASE unlock_kernel(p)
  <2>1. Becomes(p, "idle", NULL, NULL, NULL, NULL, FALSE)
    BY <1>10, UnlockShape
  <2>2. proc[p].pc = "unlock" /\ kernel_lock' = NULL
    BY <1>10 DEF unlock_kernel, At
  <2>3. /\ \A r \in Proc \ {p} : proc'[r] = proc[r]
        /\ ~proc'[p].asleep /\ proc'[p].pc = "idle"
    BY <2>1 DEF Becomes
  <2> QED
    BY <1>0, <2>2, <2>3, LockedMove DEF Cmds
<1> QED
  BY <1>2, <1>3, <1>4, <1>5, <1>6, <1>7, <1>8, <1>9, <1>10

(***************************************************************************)
(* Structures.  Most steps leave them alone: no ioctl begins or ends to    *)
(* write one, no structure changes, and f_qos changes only for files that  *)
(* are being made or freed.                                                *)
(***************************************************************************)
Writing(p) == proc[p].pc \in {"fields", "copy"}

\* Nothing about the QoS of f changes.
Same(f) ==
  /\ file'[f].f_qos = file[f].f_qos
  /\ file'[f].stage = "open" => file[f].stage = "open"
  /\ f \in hist'.raced <=> f \in hist.raced
  /\ hist'.acked[f] = hist.acked[f]

\* f is made or freed; no ioctl is on the way to its structure.
Cleared(f) ==
  /\ file'[f].f_qos = NULL
  /\ \A p \in Proc : Writing(p) => proc[p].filp # f
  /\ file'[f].stage = "open" => hist'.acked[f] = NULL
  /\ f \in Private => hist'.acked[f] = NULL

SameWriters ==
  \A p \in Proc :
    /\ Writing(p) <=> Writing(p)'
    /\ Writing(p) => /\ proc'[p].pc = proc[p].pc /\ proc'[p].filp = proc[p].filp
                     /\ proc'[p].to = proc[p].to /\ proc'[p].cmd = proc[p].cmd

SameBios ==
  \A i \in Io : io'[i] # NULL /\ io'[i].bi_qos # NULL =>
    \/ io[i] # NULL /\ io[i].bi_qos = io'[i].bi_qos
    \/ \E f \in File : file[f].f_qos = io'[i].bi_qos

SameStructs == obj' = obj /\ hist'.failed = hist.failed

Quiet ==
  SameStructs /\ SameWriters /\ SameBios /\ \A f \in File : Same(f) \/ Cleared(f)

LEMMA WriterFile ==
  ASSUME Shape, NEW p \in Proc, Writing(p)
  PROVE  proc[p].filp \in File /\ proc[p].filp \notin Private /\ proc[p].to \in Obj
BY Using DEF Writing, Placed

LEMMA QuietExists ==
  ASSUME Shape, Exists, Quiet
  PROVE  Exists'
<1>1. ASSUME NEW f \in File, file'[f].f_qos # NULL
      PROVE  obj'[file'[f].f_qos] # NULL /\ f \notin Private
  BY <1>1 DEF Quiet, SameStructs, Same, Cleared, Exists
<1>2. ASSUME NEW i \in Io, io'[i] # NULL, io'[i].bi_qos # NULL
      PROVE  obj'[io'[i].bi_qos] # NULL
  BY <1>2 DEF Quiet, SameStructs, SameBios, Exists
<1>3. ASSUME NEW p \in Proc, Writing(p)'
      PROVE  obj'[proc'[p].to] # NULL /\ file'[proc'[p].filp].f_qos # NULL
  <2>1. Writing(p) /\ proc'[p].to = proc[p].to /\ proc'[p].filp = proc[p].filp
    BY <1>3 DEF Quiet, SameWriters
  <2>2. proc[p].filp \in File
    BY <2>1, WriterFile
  <2>3. Same(proc[p].filp)
    BY <2>1, <2>2 DEF Quiet, Cleared
  <2> QED
    BY <2>1, <2>3 DEF Quiet, SameStructs, Exists, Writing, Same
<1> QED
  BY <1>1, <1>2, <1>3 DEF Exists, Writing

LEMMA QuietInitialised ==
  ASSUME Initialised, Quiet
  PROVE  Initialised'
<1>1. ASSUME NEW s \in Obj, writing(s)
      PROVE  writing(s)'
  BY <1>1 DEF writing, Quiet, SameWriters, Writing
<1> QED
  BY <1>1 DEF Initialised, Quiet, SameStructs

LEMMA QuietOwned ==
  ASSUME Shape, Owned, Quiet
  PROVE  Owned'
<1>1. ASSUME NEW f \in File, NEW g \in File, file'[f].f_qos # NULL, file'[f].f_qos = file'[g].f_qos
      PROVE  f = g
  BY <1>1 DEF Quiet, Same, Cleared, Owned
<1>2. ASSUME NEW p \in Proc, NEW g \in File, Writing(p)', file'[g].f_qos = proc'[p].to
      PROVE  g = proc'[p].filp
  <2>1. Writing(p) /\ proc'[p].to = proc[p].to /\ proc'[p].filp = proc[p].filp
    BY <1>2 DEF Quiet, SameWriters
  <2>2. proc[p].to # NULL
    BY <2>1, WriterFile, FileQosAssumption
  <2>3. file[g].f_qos = proc[p].to
    BY <1>2, <2>1, <2>2 DEF Quiet, Same, Cleared
  <2> QED
    BY <2>1, <2>3 DEF Owned, Writing
<1>3. ASSUME NEW p \in Proc, Writing(p)', proc'[p].filp \notin hist'.raced
      PROVE  file'[proc'[p].filp].f_qos = proc'[p].to
  <2>1. Writing(p) /\ proc'[p].to = proc[p].to /\ proc'[p].filp = proc[p].filp
    BY <1>3 DEF Quiet, SameWriters
  <2>2. proc[p].filp \in File
    BY <2>1, WriterFile
  <2>3. Same(proc[p].filp)
    BY <2>1, <2>2 DEF Quiet, Cleared
  <2> QED
    BY <1>3, <2>1, <2>3 DEF Same, Owned, Writing
<1> QED
  BY <1>1, <1>2, <1>3 DEF Owned, Writing

LEMMA QuietAcked ==
  ASSUME Shape, Acked, PriorityKept, Quiet
  PROVE  Acked' /\ PriorityKept'
<1>1. ASSUME NEW f \in File, file'[f].f_qos = NULL, file'[f].stage = "open"
      PROVE  hist'.acked[f] = NULL
  BY <1>1 DEF Quiet, Same, Cleared, Acked
<1>2. ASSUME NEW f \in Private
      PROVE  hist'.acked[f] = NULL
  <2>1. f \in File /\ hist.acked[f] = NULL
    BY FileQosAssumption DEF Acked
  <2> QED
    BY <2>1 DEF Quiet, Same, Cleared
<1>3. ASSUME NEW p \in Proc, proc'[p].pc = "fields", proc'[p].filp \notin hist'.raced
      PROVE  hist'.acked[proc'[p].filp] = NULL
  <2>0. Writing(p)'
    BY <1>3 DEF Writing
  <2>1. Writing(p) /\ proc'[p].pc = proc[p].pc /\ proc'[p].filp = proc[p].filp
    BY <2>0 DEF Quiet, SameWriters
  <2>2. proc[p].filp \in File
    BY <2>1, WriterFile
  <2>3. Same(proc[p].filp)
    BY <2>1, <2>2 DEF Quiet, Cleared
  <2> QED
    BY <1>3, <2>1, <2>3 DEF Same, Acked
<1>4. ASSUME NEW f \in File, hist'.acked[f] # NULL, f \notin hist'.raced, file'[f].f_qos # NULL
      PROVE  obj'[file'[f].f_qos].priority = hist'.acked[f]
  <2>1. Same(f)
    BY <1>4 DEF Quiet, Cleared
  <2> QED
    BY <1>4, <2>1 DEF Same, Quiet, SameStructs, PriorityKept
<1>5. Acked'
  BY <1>1, <1>2, <1>3 DEF Acked
<1> QED
  BY <1>4, <1>5 DEF PriorityKept

LEMMA QuietKeeps ==
  ASSUME Shape, Structures, Quiet
  PROVE  Structures'
BY QuietExists, QuietInitialised, QuietOwned, QuietAcked DEF Structures

\* A process that does not write goes to where it does not write either.
LEMMA QuietMove ==
  ASSUME NEW p \in Proc, NEW l, NEW f, NEW c, NEW a, NEW t, NEW z, Becomes(p, l, f, c, a, t, z),
         ~Writing(p), l \notin {"fields", "copy"}
  PROVE  SameWriters
<1>1. ~Writing(p)'
  BY DEF Becomes, Writing
<1>2. \A r \in Proc \ {p} : proc'[r] = proc[r]
  BY DEF Becomes
<1> QED
  BY <1>1, <1>2 DEF SameWriters, Writing

LEMMA QuietRest ==
  ASSUME NEW p \in Proc, Becomes(p, "idle", NULL, NULL, NULL, NULL, FALSE), ~Writing(p)
  PROVE  SameWriters
<1>1. ~Writing(p)'
  BY DEF Becomes, Writing
<1>2. \A r \in Proc \ {p} : proc'[r] = proc[r]
  BY DEF Becomes
<1> QED
  BY <1>1, <1>2 DEF SameWriters, Writing

LEMMA QuietStill ==
  ASSUME UNCHANGED proc
  PROVE  SameWriters
BY DEF SameWriters, Writing

LEMMA QuietBios ==
  ASSUME UNCHANGED io
  PROVE  SameBios
BY DEF SameBios

\* A step that keeps the QoS of every file.
LEMMA QuietStep ==
  ASSUME UNCHANGED <<obj, hist>>, SameWriters, SameBios,
         \A f \in File : /\ file'[f].f_qos = file[f].f_qos
                         /\ file'[f].stage = "open" => file[f].stage = "open"
  PROVE  Quiet
BY DEF Quiet, SameStructs, Same

\* A step that changes one file, and keeps its QoS.
LEMMA QuietFile ==
  ASSUME UNCHANGED <<obj, hist>>, SameWriters, SameBios, NEW f \in File,
         \A g \in File \ {f} : file'[g] = file[g],
         file'[f].f_qos = file[f].f_qos, file'[f].stage = "open" => file[f].stage = "open"
  PROVE  Quiet
<1>1. ASSUME NEW g \in File
      PROVE  /\ file'[g].f_qos = file[g].f_qos
             /\ file'[g].stage = "open" => file[g].stage = "open"
  BY Zenon
<1> QED
  BY <1>1, QuietStep

LEMMA QuietPut ==
  ASSUME UNCHANGED <<obj, hist>>, SameWriters, SameBios, NEW f \in File, Put(f)
  PROVE  Quiet
<1>1. /\ \A g \in File \ {f} : file'[g] = file[g]
      /\ file'[f].f_qos = file[f].f_qos
      /\ file'[f].stage = IF file[f].f_count = 1 THEN "release" ELSE file[f].stage
  BY DEF Put, FileBecomes
<1> QED
  BY <1>1, QuietFile

\* A step that makes or frees one file.
LEMMA QuietClear ==
  ASSUME UNCHANGED obj, SameWriters, SameBios, NEW f \in File,
         \A g \in File \ {f} : file'[g] = file[g],
         \A g \in File \ {f} : hist'.acked[g] = hist.acked[g],
         \A g \in File \ {f} : g \in hist'.raced <=> g \in hist.raced,
         hist'.failed = hist.failed, Cleared(f)
  PROVE  Quiet
<1>1. ASSUME NEW g \in File \ {f}
      PROVE  Same(g)
  BY DEF Same
<1> QED
  BY <1>1 DEF Quiet, SameStructs

LEMMA OpenQuiet ==
  ASSUME Shape, Counted, ObjTyped, NEW p \in Proc, NEW f \in File, get_empty_filp(p, f)
  PROVE  Quiet /\ ObjTyped'
<1>1. /\ Becomes(p, "open", f, proc[p].cmd, proc[p].arg, proc[p].to, proc[p].asleep)
      /\ FileBecomes(f, 1, NULL, FALSE, "open")
  BY OpenShape
<1>2. /\ proc[p].pc = "idle" /\ file[f].stage = "free" /\ f \notin Private
      /\ UNCHANGED <<obj, io>>
      /\ hist' = [hist EXCEPT !.acked[f] = NULL, !.raced = @ \ {f}]
  BY DEF get_empty_filp, At
<1>3. SameWriters
  BY <1>1, <1>2, QuietMove DEF Writing
<1>4. /\ hist' \in [acked : [File -> Int \cup {NULL}], raced : SUBSET File, failed : SUBSET Obj]
      /\ hist'.failed = hist.failed
  BY <1>2 DEF ObjTyped
<1>5. hist'.acked = [hist.acked EXCEPT ![f] = NULL]
  BY <1>2 DEF ObjTyped
<1>6. hist'.raced = hist.raced \ {f}
  BY <1>2 DEF ObjTyped
<1>7. hist'.acked[f] = NULL /\ \A g \in File \ {f} : hist'.acked[g] = hist.acked[g]
  BY <1>5 DEF ObjTyped
<1>8. file'[f].f_qos = NULL /\ \A g \in File \ {f} : file'[g] = file[g]
  BY <1>1 DEF FileBecomes
<1>9. Cleared(f)
  BY <1>2, <1>7, <1>8, FreeUnused DEF Cleared
<1>10. Quiet
  BY <1>2, <1>3, <1>4, <1>6, <1>7, <1>8, <1>9, QuietBios, QuietClear
<1> QED
  BY <1>2, <1>4, <1>10 DEF ObjTyped

LEMMA OpenPrivateQuiet ==
  ASSUME Shape, Counted, ObjTyped, Acked, NEW p \in Proc, NEW f \in File, open_private_file(p, f)
  PROVE  Quiet /\ ObjTyped'
<1>1. /\ Becomes(p, "private", f, proc[p].cmd, proc[p].arg, proc[p].to, proc[p].asleep)
      /\ FileBecomes(f, 1, NULL, FALSE, "open")
  BY OpenPrivateShape
<1>2. /\ proc[p].pc = "idle" /\ file[f].stage = "free" /\ f \in Private
      /\ UNCHANGED <<obj, io, hist>>
  BY DEF open_private_file, At
<1>3. SameWriters
  BY <1>1, <1>2, QuietMove DEF Writing
<1>4. file'[f].f_qos = NULL /\ \A g \in File \ {f} : file'[g] = file[g]
  BY <1>1 DEF FileBecomes
<1>5. hist'.acked[f] = NULL
  BY <1>2 DEF Acked
<1>6. Cleared(f)
  BY <1>2, <1>4, <1>5, FreeUnused DEF Cleared
<1>7. Quiet
  BY <1>2, <1>3, <1>4, <1>6, QuietBios, QuietClear
<1> QED
  BY <1>2, <1>7 DEF ObjTyped

\* The process that gives up the file it was opening, or the kernel's own file, is alone with it.
LEMMA LeaveQuiet ==
  ASSUME Shape, Alone, ObjTyped, Exists, Acked, NEW p \in Proc,
         put_filp(p) \/ close_private_file(p)
  PROVE  Quiet /\ ObjTyped'
<1>1. /\ Becomes(p, "idle", NULL, NULL, NULL, NULL, FALSE)
      /\ FileBecomes(proc[p].filp, 0, NULL, FALSE, "free") /\ proc[p].filp \in File
  BY PutFilpShape, ClosePrivateShape
<1>2. proc[p].pc \in {"open", "private"} /\ UNCHANGED <<io, hist>>
  BY DEF put_filp, close_private_file, At
<1>3. UNCHANGED obj
  <2>1. CASE put_filp(p)
    BY <2>1 DEF put_filp
  <2>2. CASE close_private_file(p)
    <3>1. proc[p].filp \in Private
      BY <2>2, Using DEF close_private_file, At, Placed
    <3>2. file[proc[p].filp].f_qos = NULL
      BY <1>1, <3>1 DEF Exists
    <3>3. \A s \in Obj : s # file[proc[p].filp].f_qos
      BY <3>2, FileQosAssumption
    <3>4. obj' = [s \in Obj |-> obj[s]]
      BY <2>2, <3>3 DEF close_private_file
    <3> QED
      BY <3>4 DEF ObjTyped
  <2> QED
    BY <2>1, <2>2
<1>4. PICK f \in File : f = proc[p].filp
  BY <1>1
<1>5. FileBecomes(f, 0, NULL, FALSE, "free")
  BY <1>1, <1>4
<1>6. /\ file'[f].f_qos = NULL /\ file'[f].stage = "free"
      /\ \A g \in File \ {f} : file'[g] = file[g]
  BY <1>5 DEF FileBecomes
<1>7. \A r \in Proc : Writing(r) => proc[r].filp # f
  BY <1>2, <1>4 DEF Alone, Writing
<1>8. Cleared(f)
  <2>1. f \in Private => hist'.acked[f] = NULL
    BY <1>2 DEF Acked
  <2> QED
    BY <1>6, <1>7, <2>1 DEF Cleared
<1>9. SameWriters
  BY <1>1, <1>2, QuietRest DEF Writing
<1>10. Quiet
  BY <1>2, <1>3, <1>6, <1>8, <1>9, QuietBios, QuietClear
<1> QED
  BY <1>2, <1>3, <1>10 DEF ObjTyped

LEMMA ReleaseQuiet ==
  ASSUME Shape, Counted, ObjTyped, Acked, NEW f \in File, file_kill(f) \/ file_free(f)
  PROVE  Quiet /\ ObjTyped'
<1>1. UNCHANGED <<obj, io, hist, proc>>
  BY DEF file_kill, file_free
<1>2. SameWriters /\ SameBios
  BY <1>1, QuietStill, QuietBios
<1>3. CASE file_kill(f)
  <2>1. FileBecomes(f, file[f].f_count, file[f].f_qos, FALSE, "killed")
    BY <1>3, KillShape
  <2>2. /\ file'[f].f_qos = file[f].f_qos /\ file'[f].stage = "killed"
        /\ \A g \in File \ {f} : file'[g] = file[g]
    BY <2>1 DEF FileBecomes
  <2> QED
    BY <1>1, <1>2, <2>2, QuietFile DEF ObjTyped
<1>4. CASE file_free(f)
  <2>1. FileBecomes(f, 0, NULL, FALSE, "free")
    BY <1>4, FreeShape
  <2>2. /\ file'[f].f_qos = NULL /\ file'[f].stage = "free"
        /\ \A g \in File \ {f} : file'[g] = file[g]
    BY <2>1 DEF FileBecomes
  <2>3. file[f].stage = "killed"
    BY <1>4 DEF file_free
  <2>4. Cleared(f)
    BY <1>1, <2>2, <2>3, FreeUnused DEF Cleared, Acked
  <2> QED
    BY <1>1, <1>2, <2>2, <2>4, QuietClear DEF ObjTyped
<1> QED
  BY <1>3, <1>4

LEMMA InstallQuiet ==
  ASSUME Shape, ObjTyped, NEW p \in Proc, NEW d \in Fds, fd_install(p, d)
  PROVE  Quiet /\ ObjTyped'
<1>1. /\ Becomes(p, "idle", NULL, NULL, NULL, NULL, FALSE)
      /\ FileBecomes(proc[p].filp, file[proc[p].filp].f_count, file[proc[p].filp].f_qos, TRUE,
                     file[proc[p].filp].stage)
      /\ proc[p].filp \in File
  BY InstallShape
<1>2. proc[p].pc = "open" /\ UNCHANGED <<obj, io, hist>>
  BY DEF fd_install, At
<1>3. SameWriters /\ SameBios
  BY <1>1, <1>2, QuietRest, QuietBios DEF Writing
<1>4. /\ \A g \in File \ {proc[p].filp} : file'[g] = file[g]
      /\ file'[proc[p].filp].f_qos = file[proc[p].filp].f_qos
      /\ file'[proc[p].filp].stage = file[proc[p].filp].stage
  BY <1>1 DEF FileBecomes
<1> QED
  BY <1>1, <1>2, <1>3, <1>4, QuietFile DEF ObjTyped

LEMMA FputQuiet ==
  ASSUME Shape, ObjTyped,
         \/ \E p \in Proc, d \in Fds : sys_close(p, d)
         \/ \E p \in Proc : unlock_kernel(p)
         \/ \E i \in Io : end_io(i)
  PROVE  Quiet /\ ObjTyped'
<1>1. UNCHANGED <<obj, hist>>
  BY DEF sys_close, unlock_kernel, end_io
<1>2. ASSUME NEW p \in Proc, NEW d \in Fds, sys_close(p, d)
      PROVE  Quiet
  <2>1. Put(fd[d]) /\ fd[d] \in File
    BY <1>2, CloseShape
  <2>2. SameWriters /\ SameBios
    BY <1>2, QuietStill, QuietBios DEF sys_close
  <2> QED
    BY <1>1, <2>1, <2>2, QuietPut
<1>3. ASSUME NEW p \in Proc, unlock_kernel(p)
      PROVE  Quiet
  <2>1. /\ Becomes(p, "idle", NULL, NULL, NULL, NULL, FALSE)
        /\ Put(proc[p].filp) /\ proc[p].filp \in File
    BY <1>3, UnlockShape
  <2>2. ~Writing(p) /\ SameBios
    BY <1>3, QuietBios DEF unlock_kernel, Writing, At
  <2>3. SameWriters
    BY <2>1, <2>2, QuietRest
  <2> QED
    BY <1>1, <2>1, <2>2, <2>3, QuietPut
<1>4. ASSUME NEW i \in Io, end_io(i)
      PROVE  Quiet
  <2>1. Put(io[i].filp) /\ io[i].filp \in File
    BY <1>4, EndIoShape
  <2>2. SameWriters
    BY <1>4, QuietStill DEF end_io
  <2>3. SameBios
    BY <1>4 DEF end_io, SameBios, Shape, Typed
  <2> QED
    BY <1>1, <2>1, <2>2, <2>3, QuietPut
<1> QED
  BY <1>1, <1>2, <1>3, <1>4 DEF ObjTyped

LEMMA IoctlBegins ==
  ASSUME NEW p, NEW d, NEW cmd, NEW arg, sys_ioctl(p, d, cmd, arg)
  PROVE  UNCHANGED <<obj, hist, io>> /\ ~Writing(p)
BY DEF sys_ioctl, Writing, At

LEMMA StartIoBegins ==
  ASSUME NEW p, NEW d, start_io(p, d)
  PROVE  UNCHANGED <<obj, hist, io>> /\ ~Writing(p)
BY DEF start_io, fget, Writing, At

LEMMA FgetQuiet ==
  ASSUME Shape, ObjTyped, NEW p \in Proc, NEW d \in Fds,
         \/ \E cmd \in Cmds : \E arg \in Args(cmd) : sys_ioctl(p, d, cmd, arg)
         \/ start_io(p, d)
  PROVE  Quiet /\ ObjTyped'
<1>1. UNCHANGED <<obj, hist, io>> /\ ~Writing(p)
  BY IoctlBegins, StartIoBegins
<1>2. /\ Gotten(fd[d]) /\ fd[d] \in File
      /\ ~Writing(p)'
      /\ \A r \in Proc \ {p} : proc'[r] = proc[r]
  <2>1. ASSUME NEW cmd \in Cmds, NEW arg \in Args(cmd), sys_ioctl(p, d, cmd, arg)
        PROVE  /\ Gotten(fd[d]) /\ fd[d] \in File /\ proc'[p].pc = "lock"
               /\ \A r \in Proc \ {p} : proc'[r] = proc[r]
    BY <2>1, IoctlShape DEF Becomes
  <2>2. ASSUME start_io(p, d)
        PROVE  /\ Gotten(fd[d]) /\ fd[d] \in File /\ proc'[p].pc = "submit"
               /\ \A r \in Proc \ {p} : proc'[r] = proc[r]
    BY <2>2, StartIoShape DEF Becomes
  <2> QED
    BY <2>1, <2>2 DEF Writing
<1>3. SameWriters /\ SameBios
  BY <1>1, <1>2, QuietBios DEF SameWriters, Writing
<1>4. /\ \A g \in File \ {fd[d]} : file'[g] = file[g]
      /\ file'[fd[d]].f_qos = file[fd[d]].f_qos
      /\ file'[fd[d]].stage = file[fd[d]].stage
  BY <1>2 DEF FileBecomes, Gotten
<1> QED
  BY <1>1, <1>2, <1>3, <1>4, QuietFile DEF ObjTyped

\* The bio takes its structure from the file.
LEMMA SubmitQuiet ==
  ASSUME Shape, ObjTyped, NEW p \in Proc, NEW i \in Io, dio_bio_submit(p, i)
  PROVE  Quiet /\ ObjTyped'
<1>1. /\ Becomes(p, "idle", NULL, NULL, NULL, NULL, FALSE)
      /\ io'[i].bi_qos = qos(p) /\ \A j \in Io \ {i} : io'[j] = io[j]
      /\ proc[p].filp \in File
  BY SubmitShape
<1>2. UNCHANGED <<obj, hist, file>> /\ ~Writing(p)
  BY DEF dio_bio_submit, Writing, At
<1>3. SameWriters
  BY <1>1, <1>2, QuietRest
<1>4. SameBios
  BY <1>1 DEF SameBios, qos
<1> QED
  BY <1>2, <1>3, <1>4, QuietStep DEF ObjTyped

\* The steps of an ioctl that do not touch a structure.
LEMMA InsideQuiet ==
  ASSUME Shape, ObjTyped, NEW p \in Proc,
         \/ lock_kernel(p) \/ UCSB_IO_GET_QOS(p) \/ UCSB_IO_BESTEFFORT(p)
         \/ set_qos(p) /\ qos(p) = NULL
         \/ sleep(p) \/ wake(p)
  PROVE  Quiet /\ ObjTyped'
<1>1. UNCHANGED <<obj, hist, io, file>>
  BY DEF lock_kernel, UCSB_IO_GET_QOS, UCSB_IO_BESTEFFORT, set_qos, sleep, wake
<1>2. SameWriters
  <2>1. CASE lock_kernel(p)
    <3>1. Inside(p, proc[p].cmd, proc[p].to, proc[p].asleep) /\ proc[p].cmd \in Cmds
      BY <2>1, LockShape
    <3>2. ~Writing(p) /\ proc[p].cmd \notin {"fields", "copy"}
      BY <2>1, <3>1 DEF lock_kernel, At, Writing, Cmds
    <3> QED
      BY <3>1, <3>2, QuietMove DEF Inside
  <2>2. CASE UCSB_IO_GET_QOS(p)
    BY <2>2, GetQosShape, QuietMove DEF Inside, UCSB_IO_GET_QOS, At, Writing
  <2>3. CASE UCSB_IO_BESTEFFORT(p)
    <3>1. \/ Inside(p, "unlock", proc[p].to, proc[p].asleep)
          \/ Inside(p, "oops", proc[p].to, proc[p].asleep)
      BY <2>3, BesteffortShape
    <3>2. ~Writing(p)
      BY <2>3 DEF UCSB_IO_BESTEFFORT, At, Writing
    <3> QED
      BY <3>1, <3>2, QuietMove DEF Inside
  <2>4. CASE set_qos(p) /\ qos(p) = NULL
    <3>1. Inside(p, "alloc", proc[p].to, proc[p].asleep)
      BY <2>4, SetQosShape, FileQosAssumption
    <3>2. ~Writing(p)
      BY <2>4 DEF set_qos, Writing
    <3> QED
      BY <3>1, <3>2, QuietMove DEF Inside
  <2>5. CASE sleep(p) \/ wake(p)
    <3>1. PICK z \in BOOLEAN : Inside(p, proc[p].pc, proc[p].to, z)
      BY <2>5, SleepShape
    <3> QED
      BY <3>1 DEF Inside, Becomes, SameWriters, Writing
  <2> QED
    BY <2>1, <2>2, <2>3, <2>4, <2>5
<1> QED
  BY <1>1, <1>2, QuietBios, QuietStep DEF ObjTyped

(***************************************************************************)
(* The steps that write a structure                                        *)
(***************************************************************************)
\* One structure changes, and is a structure still.
Written(s) ==
  /\ obj' \in [Obj -> Struct \cup {NULL}]
  /\ obj'[s] \in Struct /\ obj'[s] # NULL
  /\ \A u \in Obj \ {s} : obj'[u] = obj[u]

LEMMA StructWritten ==
  ASSUME ObjTyped, NEW s \in Obj, NEW x \in Struct, obj' = [obj EXCEPT ![s] = x]
  PROVE  Written(s) /\ obj'[s] = x
<1>1. x # NULL
  BY FileQosAssumption DEF Struct
<1>2. obj' \in [Obj -> Struct \cup {NULL}] /\ obj'[s] = x
  BY DEF ObjTyped
<1>3. \A u \in Obj \ {s} : obj'[u] = obj[u]
  BY DEF ObjTyped
<1> QED
  BY <1>1, <1>2, <1>3 DEF Written

\* What a file, a bio or an ioctl leads to stays.
LEMMA WrittenExists ==
  ASSUME Shape, Exists, NEW s \in Obj, Written(s), UNCHANGED <<file, io>>,
         NEW p \in Proc, \A r \in Proc \ {p} : proc'[r] = proc[r],
         Writing(p)' => obj'[proc'[p].to] # NULL /\ file[proc'[p].filp].f_qos # NULL
  PROVE  Exists'
<1>0. \A u \in Obj : obj[u] # NULL => obj'[u] # NULL
  BY DEF Written
<1>1. ASSUME NEW f \in File, file'[f].f_qos # NULL
      PROVE  obj'[file'[f].f_qos] # NULL /\ f \notin Private
  <2>1. file[f].f_qos \in Obj
    BY <1>1, FileFields DEF Shape, Typed
  <2> QED
    BY <1>0, <1>1, <2>1 DEF Exists
<1>2. ASSUME NEW i \in Io, io'[i] # NULL, io'[i].bi_qos # NULL
      PROVE  obj'[io'[i].bi_qos] # NULL
  <2>1. io[i].bi_qos \in Obj
    BY <1>2 DEF Shape, Typed, Bio
  <2> QED
    BY <1>0, <1>2, <2>1 DEF Exists
<1>3. ASSUME NEW r \in Proc, Writing(r)'
      PROVE  obj'[proc'[r].to] # NULL /\ file'[proc'[r].filp].f_qos # NULL
  <2>1. CASE r = p
    BY <1>3, <2>1
  <2>2. CASE r # p
    <3>1. proc'[r] = proc[r] /\ Writing(r)
      BY <1>3, <2>2 DEF Writing
    <3>2. proc[r].to \in Obj
      BY <3>1, WriterFile
    <3> QED
      BY <1>0, <3>1, <3>2 DEF Exists, Writing
  <2> QED
    BY <2>1, <2>2
<1> QED
  BY <1>1, <1>2, <1>3 DEF Exists, Writing

\* Writers of the other structures go on, and every structure without a priority but s has one.
LEMMA WrittenInitialised ==
  ASSUME Initialised, NEW s \in Obj, Written(s),
         NEW p \in Proc, \A r \in Proc \ {p} : proc'[r] = proc[r],
         Writing(p) => proc[p].to = s,
         hist.failed \ {s} \subseteq hist'.failed,
         obj'[s].priority = junk => writing(s)' \/ s \in hist'.failed
  PROVE  Initialised'
<1> SUFFICES ASSUME NEW u \in Obj \ {s}, obj'[u] # NULL, obj'[u].priority = junk
             PROVE  writing(u)' \/ u \in hist'.failed
  BY DEF Initialised
<1>1. obj'[u] = obj[u]
  BY DEF Written
<1>2. CASE u \in hist.failed
  BY <1>2
<1>3. CASE writing(u)
  <2>1. PICK r \in Proc :
          /\ proc[r].to = u
          /\ proc[r].pc = "fields" \/ (proc[r].pc = "copy" /\ proc[r].cmd = "UCSB_IO_PRIORITY")
    BY <1>3 DEF writing
  <2>2. r # p
    BY <2>1 DEF Writing
  <2> QED
    BY <2>1, <2>2 DEF writing
<1> QED
  BY <1>1, <1>2, <1>3 DEF Initialised

\* A writer goes on with the same file and structure, or stops.
LEMMA WrittenOwned ==
  ASSUME Owned, UNCHANGED file, hist'.raced = hist.raced,
         NEW p \in Proc, \A r \in Proc \ {p} : proc'[r] = proc[r],
         Writing(p)' => /\ Writing(p)
                        /\ proc'[p].to = proc[p].to /\ proc'[p].filp = proc[p].filp
  PROVE  Owned'
<1>1. ASSUME NEW r \in Proc, Writing(r)'
      PROVE  Writing(r) /\ proc'[r].to = proc[r].to /\ proc'[r].filp = proc[r].filp
  BY <1>1, Zenon DEF Writing
<1> QED
  BY <1>1 DEF Owned, Writing

\* The priority of a file changes only through its own structure, by the one ioctl that has
\* the lock.
LEMMA WrittenAcked ==
  ASSUME Shape, Locked, Exists, Owned, Acked, PriorityKept,
         NEW p \in Proc, Writing(p), Holds(p), Written(proc[p].to), UNCHANGED file,
         \A r \in Proc \ {p} : proc'[r] = proc[r], proc'[p].pc # "fields",
         hist'.raced = hist.raced,
         \A f \in File \ {proc[p].filp} : hist'.acked[f] = hist.acked[f],
         proc[p].filp \notin hist.raced =>
           \/ hist'.acked[proc[p].filp] = NULL
           \/ hist'.acked[proc[p].filp] = obj'[proc[p].to].priority
  PROVE  Acked' /\ PriorityKept'
<1>0. proc[p].filp \in File /\ proc[p].filp \notin Private /\ proc[p].to \in Obj
  BY WriterFile
<1>1. file[proc[p].filp].f_qos # NULL
  BY DEF Exists, Writing
<1>2. ASSUME NEW f \in File, file'[f].f_qos = NULL, file'[f].stage = "open"
      PROVE  hist'.acked[f] = NULL
  BY <1>1, <1>2 DEF Acked
<1>3. ASSUME NEW f \in Private
      PROVE  hist'.acked[f] = NULL
  <2>1. f \in File /\ f # proc[p].filp
    BY <1>0, FileQosAssumption
  <2> QED
    BY <2>1 DEF Acked
<1>4. ASSUME NEW r \in Proc
      PROVE  proc'[r].pc # "fields"
  <2>1. CASE r = p
    BY <2>1
  <2>2. CASE r # p
    <3>1. kernel_lock # r
      BY <2>2 DEF Holds
    <3> QED
      BY <2>2, <3>1 DEF Locked, Holds
  <2> QED
    BY <2>1, <2>2
<1>5. ASSUME NEW f \in File, hist'.acked[f] # NULL, f \notin hist'.raced, file'[f].f_qos # NULL
      PROVE  obj'[file'[f].f_qos].priority = hist'.acked[f]
  <2>1. CASE f = proc[p].filp
    <3>1. file[f].f_qos = proc[p].to
      BY <1>5, <2>1 DEF Owned, Writing
    <3> QED
      BY <1>5, <2>1, <3>1
  <2>2. CASE f # proc[p].filp
    <3>1. file[f].f_qos # proc[p].to
      BY <2>2 DEF Owned, Writing
    <3>2. file[f].f_qos \in Obj
      BY <1>5, FileFields DEF Shape, Typed
    <3>3. obj'[file[f].f_qos] = obj[file[f].f_qos]
      BY <3>1, <3>2 DEF Written
    <3>4. hist'.acked[f] = hist.acked[f]
      BY <2>2
    <3> QED
      BY <1>5, <3>3, <3>4 DEF PriorityKept
  <2> QED
    BY <2>1, <2>2
<1>6. Acked'
  BY <1>2, <1>3, <1>4 DEF Acked
<1> QED
  BY <1>5, <1>6 DEF PriorityKept

\* SOFT_RT of a structure that exists: its type changes, not its priority.
LEMMA SetQosKeeps ==
  ASSUME Shape, ObjTyped, Structures, NEW p \in Proc, set_qos(p), qos(p) # NULL
  PROVE  ObjTyped' /\ Structures'
<1>0. Exists /\ Initialised /\ Owned /\ Acked /\ PriorityKept
  BY DEF Structures
<1>1. /\ qos(p) \in Obj /\ Inside(p, "copy", qos(p), proc[p].asleep)
      /\ proc[p].filp \in File
  BY SetQosShape
<1>2. PICK s \in Obj : s = file[proc[p].filp].f_qos
  BY <1>1 DEF qos
<1>3. obj[s] # NULL /\ obj[s] \in Struct
  BY <1>0, <1>1, <1>2, FileQosAssumption DEF Exists, ObjTyped
<1>4. /\ UNCHANGED <<file, io, hist>> /\ ~Writing(p)
      /\ obj' = [obj EXCEPT ![s] = [obj[s] EXCEPT !.type = "SOFT_RT"]] \/ obj' = obj
  BY <1>2 DEF set_qos, qos, soft_rt, Writing
<1>5. /\ proc'[p].pc = "copy" /\ proc'[p].to = s /\ proc'[p].filp = proc[p].filp
      /\ \A r \in Proc \ {p} : proc'[r] = proc[r]
  BY <1>1, <1>2 DEF Inside, Becomes, qos
<1>6. [obj[s] EXCEPT !.type = "SOFT_RT"] \in Struct
  BY <1>3 DEF Struct
<1>7. [obj[s] EXCEPT !.type = "SOFT_RT"].priority = obj[s].priority
  BY <1>3 DEF Struct
<1>8. Written(s) /\ obj'[s].priority = obj[s].priority
  <2>1. CASE obj' = obj
    BY <1>3, <2>1 DEF Written, ObjTyped
  <2>2. CASE obj' = [obj EXCEPT ![s] = [obj[s] EXCEPT !.type = "SOFT_RT"]]
    BY <1>6, <1>7, <2>2, StructWritten
  <2> QED
    BY <1>4, <2>1, <2>2
<1>9. ObjTyped'
  BY <1>4, <1>8 DEF ObjTyped, Written
<1>10. Exists'
  <2>1. obj'[proc'[p].to] # NULL /\ file[proc'[p].filp].f_qos # NULL
    BY <1>2, <1>5, <1>8, FileQosAssumption DEF Written
  <2> QED
    BY <1>0, <1>4, <1>5, <1>8, <2>1, WrittenExists
<1>11. Initialised'
  <2>1. ASSUME NEW u, writing(u)
        PROVE  writing(u)'
    BY <1>4, <1>5, <2>1 DEF writing, Writing
  <2>2. ASSUME obj'[s].priority = junk
        PROVE  writing(s)' \/ s \in hist'.failed
    BY <1>0, <1>3, <1>4, <1>8, <2>1, <2>2 DEF Initialised
  <2> QED
    BY <1>0, <1>4, <1>5, <1>8, <2>2, WrittenInitialised
<1>12. Owned'
  <2>1. ASSUME NEW f \in File, NEW g \in File,
               file'[f].f_qos # NULL, file'[f].f_qos = file'[g].f_qos
        PROVE  f = g
    BY <1>0, <1>4, <2>1 DEF Owned
  <2>2. ASSUME NEW r \in Proc, NEW g \in File, Writing(r)', file'[g].f_qos = proc'[r].to
        PROVE  g = proc'[r].filp
    <3>1. CASE r = p
      <4>1. file[g].f_qos = s /\ file[proc[p].filp].f_qos = s /\ s # NULL
        BY <1>2, <1>4, <1>5, <2>2, <3>1, FileQosAssumption
      <4> QED
        BY <1>0, <1>1, <1>5, <3>1, <4>1 DEF Owned
    <3>2. CASE r # p
      BY <1>0, <1>4, <1>5, <2>2, <3>2 DEF Owned, Writing
    <3> QED
      BY <3>1, <3>2
  <2>3. ASSUME NEW r \in Proc, Writing(r)', proc'[r].filp \notin hist'.raced
        PROVE  file'[proc'[r].filp].f_qos = proc'[r].to
    <3>1. CASE r = p
      BY <1>2, <1>4, <1>5, <3>1
    <3>2. CASE r # p
      BY <1>0, <1>4, <1>5, <2>3, <3>2 DEF Owned, Writing
    <3> QED
      BY <3>1, <3>2
  <2> QED
    BY <2>1, <2>2, <2>3 DEF Owned, Writing
<1>13. Acked'
  <2>1. ASSUME NEW r \in Proc, proc'[r].pc = "fields"
        PROVE  r # p /\ proc'[r] = proc[r]
    BY <1>5, <2>1
  <2> QED
    BY <1>0, <1>4, <2>1 DEF Acked
<1>14. PriorityKept'
  <2> SUFFICES ASSUME NEW f \in File, hist'.acked[f] # NULL, f \notin hist'.raced,
                      file'[f].f_qos # NULL
               PROVE  obj'[file'[f].f_qos].priority = hist'.acked[f]
    BY DEF PriorityKept
  <2>1. file[f].f_qos \in Obj
    BY <1>4, FileFields DEF Shape, Typed
  <2>2. obj'[file[f].f_qos].priority = obj[file[f].f_qos].priority
    BY <1>8, <2>1 DEF Written
  <2> QED
    BY <1>0, <1>4, <2>2 DEF PriorityKept
<1> QED
  BY <1>9, <1>10, <1>11, <1>12, <1>13, <1>14 DEF Structures

LEMMA SetFieldsKeeps ==
  ASSUME Shape, Locked, ObjTyped, Structures, NEW p \in Proc, set_fields(p)
  PROVE  ObjTyped' /\ Structures'
<1>0. Exists /\ Initialised /\ Owned /\ Acked /\ PriorityKept
  BY DEF Structures
<1>1. Inside(p, "copy", proc[p].to, proc[p].asleep)
  BY SetFieldsShape
<1>2. /\ proc[p].pc = "fields" /\ Writing(p) /\ UNCHANGED <<file, io>>
      /\ obj' = [obj EXCEPT ![proc[p].to] = new_fields(proc[p].cmd)]
      /\ hist' = IF proc[p].cmd = "UCSB_IO_SOFT_RT"
                 THEN [hist EXCEPT !.acked[proc[p].filp] = 18] ELSE hist
  BY DEF set_fields, At, Writing, UCSB_DEF_PRIORITY
<1>3. /\ proc[p].to \in Obj /\ proc[p].filp \in File /\ Holds(p)
      /\ proc[p].cmd \in {"UCSB_IO_SOFT_RT", "UCSB_IO_PRIORITY"}
  BY <1>2, WriterFile, Using DEF Locked, Placed
<1>4. PICK s \in Obj : s = proc[p].to
  BY <1>3
<1>5. /\ new_fields(proc[p].cmd) \in Struct
      /\ proc[p].cmd = "UCSB_IO_SOFT_RT" => new_fields(proc[p].cmd).priority = 18
  BY DEF new_fields, Struct, UCSB_DEF_PRIORITY
<1>6. Written(s) /\ (proc[p].cmd = "UCSB_IO_SOFT_RT" => obj'[s].priority = 18)
  BY <1>2, <1>4, <1>5, StructWritten
<1>7. /\ proc'[p].pc = "copy" /\ proc'[p].to = s /\ proc'[p].filp = proc[p].filp
      /\ proc'[p].cmd = proc[p].cmd /\ Writing(p)'
      /\ \A r \in Proc \ {p} : proc'[r] = proc[r]
  BY <1>1, <1>4 DEF Inside, Becomes, Writing
<1>8. hist' \in [acked : [File -> Int \cup {NULL}], raced : SUBSET File, failed : SUBSET Obj]
  BY <1>2 DEF ObjTyped
<1>9. hist'.raced = hist.raced /\ hist'.failed = hist.failed
  BY <1>2 DEF ObjTyped
<1>10. /\ \A f \in File \ {proc[p].filp} : hist'.acked[f] = hist.acked[f]
       /\ hist'.acked[proc[p].filp]
            = IF proc[p].cmd = "UCSB_IO_SOFT_RT" THEN 18 ELSE hist.acked[proc[p].filp]
  BY <1>2, <1>3 DEF ObjTyped
<1>11. ObjTyped'
  BY <1>6, <1>8 DEF ObjTyped, Written
<1>12. Exists'
  <2>1. obj'[proc'[p].to] # NULL
    BY <1>6, <1>7 DEF Written
  <2>2. file[proc'[p].filp].f_qos # NULL
    BY <1>0, <1>2, <1>7 DEF Exists
  <2> QED
    BY <1>0, <1>2, <1>6, <1>7, <2>1, <2>2, WrittenExists
<1>13. Initialised'
  <2>1. ASSUME obj'[s].priority = junk
        PROVE  writing(s)'
    <3>1. proc[p].cmd = "UCSB_IO_PRIORITY"
      BY <1>3, <1>6, <2>1, FileQosAssumption
    <3> QED
      BY <1>7, <3>1 DEF writing
  <2> QED
    BY <1>0, <1>4, <1>6, <1>7, <1>9, <2>1, WrittenInitialised
<1>14. Owned'
  BY <1>0, <1>2, <1>4, <1>7, <1>9, WrittenOwned
<1>15. Acked' /\ PriorityKept'
  <2>1. ASSUME proc[p].filp \notin hist.raced
        PROVE  \/ hist'.acked[proc[p].filp] = NULL
               \/ hist'.acked[proc[p].filp] = obj'[proc[p].to].priority
    BY <1>0, <1>2, <1>4, <1>6, <1>10, <2>1 DEF Acked
  <2>2. Written(proc[p].to) /\ proc'[p].pc # "fields"
    BY <1>4, <1>6, <1>7
  <2> QED
    BY <1>0, <1>2, <1>3, <1>7, <1>9, <1>10, <2>1, <2>2, WrittenAcked
<1> QED
  BY <1>11, <1>12, <1>13, <1>14, <1>15 DEF Structures

LEMMA CopyBegins ==
  ASSUME NEW p, copy_from_user(p)
  PROVE  proc[p].pc = "copy" /\ Writing(p) /\ Holds(p) /\ UNCHANGED <<file, io>>
BY Zenon DEF copy_from_user, At, Writing

\* The priority of f, and the structures whose ioctl failed, are noted anew.
Noted(f, v, F) ==
  /\ hist' \in [acked : [File -> Int \cup {NULL}], raced : SUBSET File, failed : SUBSET Obj]
  /\ hist'.raced = hist.raced /\ hist'.failed = F /\ hist'.acked[f] = v
  /\ \A g \in File \ {f} : hist'.acked[g] = hist.acked[g]

LEMMA HistNoted ==
  ASSUME ObjTyped, NEW f \in File, NEW v \in Int \cup {NULL}, NEW F \in SUBSET Obj,
         hist' = [hist EXCEPT !.acked[f] = v, !.failed = F]
  PROVE  Noted(f, v, F)
<1>1. hist' \in [acked : [File -> Int \cup {NULL}], raced : SUBSET File, failed : SUBSET Obj]
  BY DEF ObjTyped
<1>2. hist'.raced = hist.raced /\ hist'.failed = F
  BY DEF ObjTyped
<1>3. hist'.acked = [hist.acked EXCEPT ![f] = v]
  BY DEF ObjTyped
<1>4. hist'.acked[f] = v /\ \A g \in File \ {f} : hist'.acked[g] = hist.acked[g]
  BY <1>3 DEF ObjTyped
<1> QED
  BY <1>1, <1>2, <1>4 DEF Noted

\* What the copy of the argument does to the structure and to what is known of it.
LEMMA CopyEffect ==
  ASSUME Shape, ObjTyped, Exists, NEW p \in Proc, copy_from_user(p),
         NEW s \in Obj, s = proc[p].to, NEW f \in File, f = proc[p].filp
  PROVE  /\ ObjTyped' /\ Written(s) /\ hist'.raced = hist.raced
         /\ \A g \in File \ {f} : hist'.acked[g] = hist.acked[g]
         /\ hist.failed \ {s} \subseteq hist'.failed
         /\ \/ /\ proc[p].cmd = "UCSB_IO_SOFT_RT" /\ obj'[s] = obj[s]
               /\ hist'.acked[f] = hist.acked[f] /\ hist'.failed = hist.failed
            \/ obj'[s].priority \in Int /\ hist'.acked[f] = obj'[s].priority
            \/ hist'.acked[f] = NULL /\ s \in hist'.failed
<1>0. Writing(p)
  BY CopyBegins
<1>1. obj[s] # NULL /\ obj[s] \in Struct
  BY <1>0 DEF Writing, Exists, ObjTyped
<1>2. proc[p].cmd = "UCSB_IO_PRIORITY" => proc[p].arg \in Int
  BY CopyShape
<1>3. ASSUME NEW v \in Int \cup {junk}, obj' = [obj EXCEPT ![s].priority = v]
      PROVE  Written(s) /\ obj'[s].priority = v
  <2>1. [obj[s] EXCEPT !.priority = v] \in Struct
    BY <1>1 DEF Struct
  <2>2. [obj[s] EXCEPT !.priority = v].priority = v
    BY <1>1 DEF Struct
  <2>3. obj' = [obj EXCEPT ![s] = [obj[s] EXCEPT !.priority = v]]
    BY <1>3
  <2> QED
    BY <2>1, <2>2, <2>3, StructWritten
<1>4. CASE proc[p].cmd = "UCSB_IO_SOFT_RT" /\ UNCHANGED <<obj, hist>>
  <2>1. Written(s) /\ ObjTyped'
    BY <1>1, <1>4 DEF Written, ObjTyped
  <2> QED
    BY <1>4, <2>1
<1>5. CASE /\ proc[p].cmd = "UCSB_IO_PRIORITY"
           /\ obj' = [obj EXCEPT ![s].priority = proc[p].arg]
           /\ hist' = [hist EXCEPT !.acked[f] = proc[p].arg, !.failed = hist.failed \ {s}]
  <2>1. Written(s) /\ obj'[s].priority = proc[p].arg /\ proc[p].arg \in Int
    BY <1>2, <1>3, <1>5
  <2>2. hist.failed \ {s} \in SUBSET Obj
    BY DEF ObjTyped
  <2>3. Noted(f, proc[p].arg, hist.failed \ {s})
    <3>1. hist' = [hist EXCEPT !.acked[f] = proc[p].arg, !.failed = hist.failed \ {s}]
      BY <1>5
    <3>2. proc[p].arg \in Int \cup {NULL}
      BY <2>1
    <3> QED
      BY <2>2, <3>1, <3>2, HistNoted, Zenon
  <2>4. ObjTyped'
    BY <2>1, <2>3 DEF ObjTyped, Written, Noted
  <2> QED
    BY <2>1, <2>3, <2>4 DEF Noted
<1>6. CASE /\ proc[p].cmd = "UCSB_IO_PRIORITY"
           /\ \E v \in {obj[s].priority, 0} : obj' = [obj EXCEPT ![s].priority = v]
           /\ hist' = [hist EXCEPT !.acked[f] = NULL, !.failed = hist.failed \cup {s}]
  <2>1. PICK v \in {obj[s].priority, 0} : obj' = [obj EXCEPT ![s].priority = v]
    BY <1>6
  <2>2. v \in Int \cup {junk}
    BY <1>1 DEF Struct
  <2>3. Written(s)
    BY <1>3, <2>1, <2>2
  <2>4. hist.failed \cup {s} \in SUBSET Obj
    BY DEF ObjTyped
  <2>5. Noted(f, NULL, hist.failed \cup {s})
    <3>1. hist' = [hist EXCEPT !.acked[f] = NULL, !.failed = hist.failed \cup {s}]
      BY <1>6
    <3>2. NULL \in Int \cup {NULL}
      OBVIOUS
    <3> QED
      BY <2>4, <3>1, <3>2, HistNoted, Zenon
  <2>6. ObjTyped'
    BY <2>3, <2>5 DEF ObjTyped, Written, Noted
  <2> QED
    BY <2>3, <2>5, <2>6 DEF Noted
<1> QED
  BY <1>4, <1>5, <1>6 DEF copy_from_user

LEMMA CopyKeeps ==
  ASSUME Shape, Locked, ObjTyped, Structures, NEW p \in Proc, copy_from_user(p)
  PROVE  ObjTyped' /\ Structures'
<1>0. Exists /\ Initialised /\ Owned /\ Acked /\ PriorityKept
  BY DEF Structures
<1>1. Inside(p, "unlock", proc[p].to, proc[p].asleep)
  BY CopyShape
<1>2. proc[p].pc = "copy" /\ Writing(p) /\ Holds(p) /\ UNCHANGED <<file, io>>
  BY CopyBegins
<1>3. proc[p].to \in Obj /\ proc[p].filp \in File
  BY <1>2, WriterFile
<1>4. PICK s \in Obj : s = proc[p].to
  BY <1>3
<1>5. PICK f \in File : f = proc[p].filp
  BY <1>3
<1>6. /\ ObjTyped' /\ Written(s) /\ hist'.raced = hist.raced
      /\ \A g \in File \ {f} : hist'.acked[g] = hist.acked[g]
      /\ hist.failed \ {s} \subseteq hist'.failed
      /\ \/ /\ proc[p].cmd = "UCSB_IO_SOFT_RT" /\ obj'[s] = obj[s]
            /\ hist'.acked[f] = hist.acked[f] /\ hist'.failed = hist.failed
         \/ obj'[s].priority \in Int /\ hist'.acked[f] = obj'[s].priority
         \/ hist'.acked[f] = NULL /\ s \in hist'.failed
  BY <1>0, <1>4, <1>5, CopyEffect
<1>7. ~Writing(p)' /\ proc'[p].pc # "fields" /\ \A r \in Proc \ {p} : proc'[r] = proc[r]
  BY <1>1 DEF Inside, Becomes, Writing
<1>8. Exists'
  BY <1>0, <1>2, <1>6, <1>7, WrittenExists
<1>9. Initialised'
  <2>1. ASSUME obj'[s].priority = junk
        PROVE  writing(s)' \/ s \in hist'.failed
    <3>1. CASE obj'[s].priority \in Int
      BY <2>1, <3>1, FileQosAssumption
    <3>2. CASE s \in hist'.failed
      BY <3>2
    <3>3. CASE /\ proc[p].cmd = "UCSB_IO_SOFT_RT" /\ obj'[s] = obj[s]
               /\ hist'.failed = hist.failed
      <4>1. obj[s] # NULL /\ obj[s].priority = junk
        BY <1>0, <1>2, <1>4, <2>1, <3>3 DEF Exists
      <4>2. CASE s \in hist.failed
        BY <3>3, <4>2
      <4>3. CASE writing(s)
        <5>1. PICK r \in Proc :
                /\ proc[r].to = s
                /\ \/ proc[r].pc = "fields"
                   \/ proc[r].pc = "copy" /\ proc[r].cmd = "UCSB_IO_PRIORITY"
          BY <4>3 DEF writing
        <5>2. r # p
          BY <1>2, <3>3, <5>1
        <5> QED
          BY <1>7, <5>1, <5>2 DEF writing
      <4> QED
        BY <1>0, <4>1, <4>2, <4>3 DEF Initialised
    <3> QED
      BY <1>6, <3>1, <3>2, <3>3
  <2> QED
    BY <1>0, <1>4, <1>6, <1>7, <2>1, WrittenInitialised
<1>10. Owned'
  BY <1>0, <1>2, <1>6, <1>7, WrittenOwned
<1>11. Acked' /\ PriorityKept'
  <2>1. ASSUME proc[p].filp \notin hist.raced
        PROVE  \/ hist'.acked[proc[p].filp] = NULL
               \/ hist'.acked[proc[p].filp] = obj'[proc[p].to].priority
    <3>1. CASE obj'[s] = obj[s] /\ hist'.acked[f] = hist.acked[f]
      <4>1. file[f].f_qos = s /\ s # NULL
        BY <1>0, <1>2, <1>4, <1>5, <2>1, FileQosAssumption DEF Owned, Writing
      <4>2. hist.acked[f] # NULL => obj[s].priority = hist.acked[f]
        BY <1>0, <1>5, <2>1, <4>1 DEF PriorityKept
      <4> QED
        BY <1>4, <1>5, <3>1, <4>2
    <3> QED
      BY <1>4, <1>5, <1>6, <3>1
  <2>2. Written(proc[p].to)
    BY <1>4, <1>6
  <2>3. \A g \in File \ {proc[p].filp} : hist'.acked[g] = hist.acked[g]
    BY <1>5, <1>6
  <2> QED
    BY <1>0, <1>2, <1>6, <1>7, <2>1, <2>2, <2>3, WrittenAcked
<1> QED
  BY <1>6, <1>8, <1>9, <1>10, <1>11 DEF Structures

\* Nothing leads to a structure before it is allocated.  An ioctl that allocates for a file that
\* got one in the meantime is noted as a race.
LEMMA KmallocKeeps ==
  ASSUME Shape, Counted, Locked, ObjTyped, Structures, NEW p \in Proc, NEW s \in Obj, kmalloc(p, s)
  PROVE  ObjTyped' /\ Structures'
<1>0. Exists /\ Initialised /\ Owned /\ Acked /\ PriorityKept
  BY DEF Structures
<1>1. /\ Inside(p, "fields", s, proc[p].asleep)
      /\ FileBecomes(proc[p].filp, file[proc[p].filp].f_count, s, file[proc[p].filp].listed,
                     file[proc[p].filp].stage)
      /\ proc[p].filp \in File /\ proc[p].filp \notin Private
  BY KmallocShape
<1>2. PICK f \in File : f = proc[p].filp
  BY <1>1
<1>3. /\ proc[p].pc = "alloc" /\ ~Writing(p) /\ Holds(p) /\ obj[s] = NULL /\ UNCHANGED io
      /\ obj' = [obj EXCEPT ![s] = [type |-> junk, priority |-> junk]]
      /\ hist' = IF file[f].f_qos # NULL THEN [hist EXCEPT !.raced = @ \cup {f}] ELSE hist
  BY <1>2 DEF kmalloc, At, Writing, qos
<1>4. /\ proc'[p].pc = "fields" /\ proc'[p].to = s /\ proc'[p].filp = f
      /\ \A r \in Proc \ {p} : proc'[r] = proc[r]
  BY <1>1, <1>2 DEF Inside, Becomes
<1>5. /\ file'[f].f_qos = s /\ file'[f].stage = file[f].stage
      /\ \A g \in File \ {f} : file'[g] = file[g]
  BY <1>1, <1>2 DEF FileBecomes
<1>6. Written(s)
  <2>1. [type |-> junk, priority |-> junk] \in Struct
    BY DEF Struct
  <2> QED
    BY <1>3, <2>1, StructWritten
<1>7. hist' \in [acked : [File -> Int \cup {NULL}], raced : SUBSET File, failed : SUBSET Obj]
  BY <1>3 DEF ObjTyped
<1>8. hist'.acked = hist.acked /\ hist'.failed = hist.failed
  BY <1>3 DEF ObjTyped
<1>9. hist'.raced = IF file[f].f_qos # NULL THEN hist.raced \cup {f} ELSE hist.raced
  BY <1>3 DEF ObjTyped
<1>10. s # NULL /\ f \notin Private
  BY <1>1, <1>2, FileQosAssumption
<1>11. /\ \A g \in File : file[g].f_qos # s
       /\ \A r \in Proc : Writing(r) => proc[r].to # s
  BY <1>0, <1>3, <1>10 DEF Exists, Writing
<1>12. \A u \in Obj : obj[u] # NULL => u # s /\ obj'[u] = obj[u]
  BY <1>3, <1>6 DEF Written
<1>13. ObjTyped'
  BY <1>6, <1>7 DEF ObjTyped, Written
<1>14. Exists'
  <2>1. ASSUME NEW g \in File, file'[g].f_qos # NULL
        PROVE  obj'[file'[g].f_qos] # NULL /\ g \notin Private
    <3>1. CASE g = f
      BY <1>5, <1>6, <1>10, <3>1 DEF Written
    <3>2. CASE g # f
      <4>1. file[g].f_qos \in Obj /\ file'[g] = file[g]
        BY <1>5, <2>1, <3>2, FileFields DEF Shape, Typed
      <4> QED
        BY <1>0, <1>12, <2>1, <4>1 DEF Exists
    <3> QED
      BY <3>1, <3>2
  <2>2. ASSUME NEW i \in Io, io'[i] # NULL, io'[i].bi_qos # NULL
        PROVE  obj'[io'[i].bi_qos] # NULL
    <3>1. io[i].bi_qos \in Obj
      BY <1>3, <2>2 DEF Shape, Typed, Bio
    <3> QED
      BY <1>0, <1>3, <1>12, <2>2, <3>1 DEF Exists
  <2>3. ASSUME NEW r \in Proc, Writing(r)'
        PROVE  obj'[proc'[r].to] # NULL /\ file'[proc'[r].filp].f_qos # NULL
    <3>1. CASE r = p
      BY <1>4, <1>5, <1>6, <1>10, <3>1 DEF Written
    <3>2. CASE r # p
      <4>1. Writing(r) /\ proc'[r] = proc[r]
        BY <1>4, <2>3, <3>2 DEF Writing
      <4>2. proc[r].to \in Obj /\ proc[r].filp \in File
        BY <4>1, WriterFile
      <4>3. obj[proc[r].to] # NULL /\ file[proc[r].filp].f_qos # NULL
        BY <1>0, <4>1 DEF Exists, Writing
      <4>4. file'[proc[r].filp].f_qos # NULL
        BY <1>5, <1>10, <4>2, <4>3
      <4> QED
        BY <1>12, <4>1, <4>2, <4>3, <4>4
    <3> QED
      BY <3>1, <3>2
  <2> QED
    BY <2>1, <2>2, <2>3 DEF Exists, Writing
<1>15. Initialised'
  <2>1. writing(s)'
    BY <1>4 DEF writing
  <2> QED
    BY <1>0, <1>3, <1>4, <1>6, <1>8, <2>1, WrittenInitialised
<1>16. Owned'
  <2>1. ASSUME NEW g \in File, NEW h \in File,
               file'[g].f_qos # NULL, file'[g].f_qos = file'[h].f_qos
        PROVE  g = h
    BY <1>0, <1>5, <1>11, <2>1 DEF Owned
  <2>2. ASSUME NEW r \in Proc, NEW g \in File, Writing(r)', file'[g].f_qos = proc'[r].to
        PROVE  g = proc'[r].filp
    <3>1. CASE r = p
      BY <1>4, <1>5, <1>11, <2>2, <3>1
    <3>2. CASE r # p
      <4>1. Writing(r) /\ proc'[r] = proc[r]
        BY <1>4, <2>2, <3>2 DEF Writing
      <4>2. g # f
        BY <1>5, <1>11, <2>2, <4>1
      <4> QED
        BY <1>0, <1>5, <2>2, <4>1, <4>2 DEF Owned, Writing
    <3> QED
      BY <3>1, <3>2
  <2>3. ASSUME NEW r \in Proc, Writing(r)', proc'[r].filp \notin hist'.raced
        PROVE  file'[proc'[r].filp].f_qos = proc'[r].to
    <3>1. CASE r = p
      BY <1>4, <1>5, <3>1
    <3>2. CASE r # p
      <4>1. Writing(r) /\ proc'[r] = proc[r] /\ proc[r].filp \in File
        BY <1>4, <2>3, <3>2, WriterFile DEF Writing
      <4>2. file[proc[r].filp].f_qos # NULL
        BY <1>0, <4>1 DEF Exists, Writing
      <4>3. proc[r].filp # f /\ proc[r].filp \notin hist.raced
        BY <1>9, <2>3, <4>1, <4>2
      <4> QED
        BY <1>0, <1>5, <4>1, <4>3 DEF Owned, Writing
    <3> QED
      BY <3>1, <3>2
  <2> QED
    BY <2>1, <2>2, <2>3 DEF Owned, Writing
<1>17. f \notin hist'.raced => hist.acked[f] = NULL
  <2>1. file[f].stage = "open"
    BY <1>2, FreeUnused
  <2> QED
    BY <1>0, <1>9, <2>1 DEF Acked
<1>18. Acked'
  <2>1. ASSUME NEW g \in File, file'[g].f_qos = NULL, file'[g].stage = "open"
        PROVE  hist'.acked[g] = NULL
    BY <1>0, <1>5, <1>8, <1>10, <2>1 DEF Acked
  <2>2. \A g \in Private : hist'.acked[g] = NULL
    BY <1>0, <1>8 DEF Acked
  <2>3. ASSUME NEW r \in Proc, proc'[r].pc = "fields", proc'[r].filp \notin hist'.raced
        PROVE  hist'.acked[proc'[r].filp] = NULL
    <3>1. CASE r = p
      BY <1>4, <1>8, <1>17, <2>3, <3>1
    <3>2. CASE r # p
      BY <1>0, <1>4, <1>8, <1>9, <2>3, <3>2 DEF Acked
    <3> QED
      BY <3>1, <3>2
  <2> QED
    BY <2>1, <2>2, <2>3 DEF Acked
<1>19. PriorityKept'
  <2> SUFFICES ASSUME NEW g \in File, hist'.acked[g] # NULL, g \notin hist'.raced,
                      file'[g].f_qos # NULL
               PROVE  obj'[file'[g].f_qos].priority = hist'.acked[g]
    BY DEF PriorityKept
  <2>1. g # f
    BY <1>8, <1>17
  <2>2. file'[g] = file[g] /\ file[g].f_qos \in Obj /\ g \notin hist.raced
    BY <1>5, <1>9, <2>1, FileFields DEF Shape, Typed
  <2>3. obj'[file[g].f_qos] = obj[file[g].f_qos]
    BY <1>0, <1>12, <2>2 DEF Exists
  <2> QED
    BY <1>0, <1>8, <2>2, <2>3 DEF PriorityKept
<1> QED
  BY <1>13, <1>14, <1>15, <1>16, <1>18, <1>19 DEF Structures

(***************************************************************************)
(* The invariant holds of every behaviour                                  *)
(***************************************************************************)
LEMMA InvInit ==
  ASSUME Init
  PROVE  Inv
<1>1. no_file \in FileType /\ resting \in ProcType /\ Placed(resting)
  BY FileQosAssumption DEF no_file, FileType, resting, ProcType, Labels, Placed, Cmds
<1>2. \A p \in Proc : proc[p] = resting
  BY DEF Init
<1>3. \A f \in File : file[f] = no_file
  BY DEF Init
<1>4. Shape
  <2>1. Typed
    BY <1>1 DEF Init, Typed
  <2> QED
    BY <1>1, <1>2, <2>1 DEF Shape
<1>5. Counted
  <2>1. ASSUME NEW f \in File
        PROVE  uses(f) = 0
    <3>1. descriptors(f) = {} /\ bios(f) = {}
      BY FileQosAssumption DEF Init, descriptors, bios
    <3>2. callers(f) = {}
      BY <1>2, FileQosAssumption DEF callers, resting
    <3>3. /\ Cardinality(descriptors(f)) = 0 /\ Cardinality(callers(f)) = 0
          /\ Cardinality(bios(f)) = 0
      BY <3>1, <3>2, FS_EmptySet
    <3> QED
      BY <3>3 DEF uses
  <2>2. no_file.f_count = 0 /\ no_file.listed = FALSE
    BY DEF no_file
  <2> QED
    BY <1>3, <2>1, <2>2 DEF Counted
<1>6. Alone /\ Locked
  BY <1>2 DEF Alone, Locked, resting, Cmds
<1>7. ObjTyped
  BY DEF Init, ObjTyped
<1>8. Exists /\ Owned
  BY <1>2, <1>3 DEF Init, Exists, Owned, resting, no_file
<1>9. Initialised /\ Acked /\ PriorityKept
  <2>1. /\ \A s \in Obj : obj[s] = NULL
        /\ \A f \in File : hist.acked[f] = NULL
    BY DEF Init
  <2> QED
    BY <1>2, <2>1, FileQosAssumption DEF Initialised, Acked, PriorityKept, resting
<1> QED
  BY <1>4, <1>5, <1>6, <1>7, <1>8, <1>9 DEF Inv, Referenced, Structures

LEMMA InvParts ==
  ASSUME Inv
  PROVE  /\ Shape /\ Referenced /\ Counted /\ Alone /\ Locked /\ ObjTyped /\ Structures
         /\ Exists /\ Acked
BY DEF Inv, Referenced, Structures

LEMMA InvQuiet ==
  ASSUME Inv, Shape', Referenced', Locked', ObjTyped', Quiet
  PROVE  Inv'
BY QuietKeeps DEF Inv

\* Opening and closing, with the process outside any ioctl before and after.
LEMMA OpenKeeps ==
  ASSUME Inv, NEW p \in Proc, Open(p)
  PROVE  Inv'
<1>0. /\ Shape /\ Referenced /\ Counted /\ Alone /\ Locked /\ ObjTyped /\ Structures
      /\ Exists /\ Acked
  BY InvParts
<1>1. ASSUME NEW f \in File, get_empty_filp(p, f)
      PROVE  Inv'
  <2>1. /\ Becomes(p, "open", f, proc[p].cmd, proc[p].arg, proc[p].to, proc[p].asleep)
        /\ FileBecomes(f, 1, NULL, FALSE, "open") /\ Shape'
    BY <1>0, <1>1, OpenShape
  <2>2. /\ proc[p].pc = "idle" /\ file[f].stage # "open" /\ UNCHANGED <<fd, io, kernel_lock>>
    BY <1>1 DEF get_empty_filp, At
  <2>3. Referenced'
    BY <1>0, <2>1, <2>2, EnterCounted
  <2>4. Locked'
    BY <1>0, <2>1, <2>2, LockedOutside DEF Outside
  <2> QED
    BY <1>0, <1>1, <2>1, <2>3, <2>4, OpenQuiet, InvQuiet
<1>2. ASSUME NEW f \in File, open_private_file(p, f)
      PROVE  Inv'
  <2>1. /\ Becomes(p, "private", f, proc[p].cmd, proc[p].arg, proc[p].to, proc[p].asleep)
        /\ FileBecomes(f, 1, NULL, FALSE, "open") /\ Shape'
    BY <1>0, <1>2, OpenPrivateShape
  <2>2. /\ proc[p].pc = "idle" /\ file[f].stage # "open" /\ UNCHANGED <<fd, io, kernel_lock>>
    BY <1>2 DEF open_private_file, At
  <2>3. Referenced'
    BY <1>0, <2>1, <2>2, EnterCounted
  <2>4. Locked'
    BY <1>0, <2>1, <2>2, LockedOutside DEF Outside
  <2> QED
    BY <1>0, <1>2, <2>1, <2>3, <2>4, OpenPrivateQuiet, InvQuiet
<1>3. ASSUME NEW d \in Fds, fd_install(p, d)
      PROVE  Inv'
  <2>1. Becomes(p, "idle", NULL, NULL, NULL, NULL, FALSE) /\ Shape'
    BY <1>0, <1>3, InstallShape
  <2>2. Locked'
    BY <1>0, <1>3, <2>1, LockedRest DEF fd_install, At, Outside
  <2>3. Referenced'
    BY <1>0, <1>3, InstallCounted
  <2> QED
    BY <1>0, <1>3, <2>1, <2>2, <2>3, InstallQuiet, InvQuiet
<1>4. ASSUME put_filp(p) \/ close_private_file(p)
      PROVE  Inv'
  <2>1. /\ Becomes(p, "idle", NULL, NULL, NULL, NULL, FALSE)
        /\ FileBecomes(proc[p].filp, 0, NULL, FALSE, "free") /\ Shape'
    BY <1>0, <1>4, PutFilpShape, ClosePrivateShape
  <2>2. proc[p].pc \in {"open", "private"} /\ UNCHANGED <<fd, io, kernel_lock>>
    BY <1>4 DEF put_filp, close_private_file, At
  <2>3. Locked'
    BY <1>0, <2>1, <2>2, LockedRest DEF Outside
  <2>4. Referenced'
    BY <1>0, <2>1, <2>2, LeaveCounted
  <2> QED
    BY <1>0, <1>4, <2>1, <2>3, <2>4, LeaveQuiet, InvQuiet
<1>5. ASSUME NEW d \in Fds, sys_close(p, d)
      PROVE  Inv'
  <2>1. Shape' /\ Referenced'
    BY <1>0, <1>5, CloseShape, CloseCounted
  <2>2. Locked'
    BY <1>0, <1>5 DEF sys_close, Locked, Holds
  <2> QED
    BY <1>0, <1>5, <2>1, <2>2, FputQuiet, InvQuiet
<1>6. ASSUME NEW d \in Fds, start_io(p, d)
      PROVE  Inv'
  <2>1. /\ Becomes(p, "submit", fd[d], proc[p].cmd, proc[p].arg, proc[p].to, proc[p].asleep)
        /\ Gotten(fd[d]) /\ Shape'
    BY <1>0, <1>6, StartIoShape
  <2>2. proc[p].pc = "idle" /\ fd[d] # NULL /\ UNCHANGED <<fd, io, kernel_lock>>
    BY <1>6 DEF start_io, fget, At
  <2>3. Referenced'
    BY <1>0, <2>1, <2>2, FgetCounted
  <2>4. Locked'
    BY <1>0, <2>1, <2>2, LockedOutside DEF Outside
  <2> QED
    BY <1>0, <1>6, <2>1, <2>3, <2>4, FgetQuiet, InvQuiet
<1> QED
  BY <1>1, <1>2, <1>3, <1>4, <1>5, <1>6 DEF Open

\* A process that falls asleep or wakes stays where it is.
LEMMA SleepReferenced ==
  ASSUME Shape, Referenced, NEW p \in Proc, NEW z, Inside(p, proc[p].pc, proc[p].to, z),
         UNCHANGED <<fd, io, file>>
  PROVE  Referenced'
<1>1. \A r \in Proc : proc'[r].pc = proc[r].pc /\ proc'[r].filp = proc[r].filp
  BY Zenon DEF Inside, Becomes
<1>2. ASSUME NEW f
      PROVE  uses(f)' = uses(f)
  <2>1. descriptors(f)' = descriptors(f) /\ bios(f)' = bios(f)
    BY DEF descriptors, bios
  <2>2. callers(f)' = callers(f)
    BY <1>1 DEF callers
  <2> QED
    BY <2>1, <2>2 DEF uses
<1>3. Counted'
  BY <1>2 DEF Referenced, Counted
<1>4. Alone'
  BY <1>1 DEF Referenced, Alone
<1> QED
  BY <1>3, <1>4 DEF Referenced

\* A step inside an ioctl leaves the references alone.
LEMMA InsideReferenced ==
  ASSUME Shape, Referenced, NEW p \in Proc,
         \/ lock_kernel(p) \/ UCSB_IO_GET_QOS(p) \/ UCSB_IO_BESTEFFORT(p) \/ set_qos(p)
         \/ set_fields(p) \/ copy_from_user(p) \/ sleep(p) \/ wake(p)
  PROVE  Shape' /\ Referenced'
<1>1. UNCHANGED <<fd, io, file>>
  BY Zenon DEF lock_kernel, UCSB_IO_GET_QOS, UCSB_IO_BESTEFFORT, set_qos, set_fields, copy_from_user,
     sleep, wake
<1>2. Cmds \cap {"open", "private"} = {}
  BY DEF Cmds
<1>3. proc[p].pc \in Labels
  BY Using, ProcFields
<1>4. CASE lock_kernel(p)
  BY <1>1, <1>2, <1>4, LockShape, InsideCounted, LabelsHas
<1>5. CASE UCSB_IO_GET_QOS(p)
  BY <1>1, <1>5, GetQosShape, InsideCounted, LabelsHas
<1>6. CASE UCSB_IO_BESTEFFORT(p)
  BY <1>1, <1>6, BesteffortShape, InsideCounted, LabelsHas
<1>7. CASE set_qos(p)
  BY <1>1, <1>7, SetQosShape, InsideCounted, LabelsHas
<1>8. CASE set_fields(p)
  BY <1>1, <1>8, SetFieldsShape, InsideCounted, LabelsHas
<1>9. CASE copy_from_user(p)
  BY <1>1, <1>9, CopyShape, InsideCounted, LabelsHas
<1>10. CASE sleep(p) \/ wake(p)
  <2>1. PICK z \in BOOLEAN : Inside(p, proc[p].pc, proc[p].to, z) /\ Shape'
    BY <1>10, SleepShape
  <2> QED
    BY <1>1, <2>1, SleepReferenced
<1> QED
  BY <1>4, <1>5, <1>6, <1>7, <1>8, <1>9, <1>10

LEMMA IoctlKeeps ==
  ASSUME Inv, NEW p \in Proc, Ioctl(p)
  PROVE  Inv'
<1>0. /\ Shape /\ Referenced /\ Counted /\ Alone /\ Locked /\ ObjTyped /\ Structures
      /\ Exists /\ Acked
  BY InvParts
<1>1. ASSUME NEW d \in Fds, NEW cmd \in Cmds, NEW arg \in Args(cmd), sys_ioctl(p, d, cmd, arg)
      PROVE  Inv'
  <2>1. Becomes(p, "lock", fd[d], cmd, arg, NULL, FALSE) /\ Gotten(fd[d]) /\ Shape'
    BY <1>0, <1>1, IoctlShape
  <2>2. proc[p].pc = "idle" /\ fd[d] # NULL /\ UNCHANGED <<fd, io, kernel_lock>>
    BY <1>1 DEF sys_ioctl, At
  <2>3. PICK z : z = FALSE /\ Becomes(p, "lock", fd[d], cmd, arg, NULL, z)
    BY <2>1
  <2>4. Referenced'
    BY <1>0, <2>1, <2>2, <2>3, FgetCounted
  <2>5. Locked'
    BY <1>0, <2>2, <2>3, LockedOutside DEF Outside
  <2> QED
    BY <1>0, <1>1, <2>1, <2>4, <2>5, FgetQuiet, InvQuiet
<1>2. ASSUME \/ lock_kernel(p) \/ UCSB_IO_GET_QOS(p) \/ UCSB_IO_BESTEFFORT(p)
             \/ set_qos(p) /\ qos(p) = NULL
             \/ sleep(p) \/ wake(p)
      PROVE  Inv'
  BY <1>0, <1>2, InsideReferenced, LockedIoctl, InsideQuiet, InvQuiet
<1>3. ASSUME set_qos(p), qos(p) # NULL
      PROVE  Inv'
  BY <1>0, <1>3, InsideReferenced, LockedIoctl, SetQosKeeps DEF Inv
<1>4. ASSUME NEW s \in Obj, kmalloc(p, s)
      PROVE  Inv'
  <2>1. /\ Inside(p, "fields", s, proc[p].asleep)
        /\ FileBecomes(proc[p].filp, file[proc[p].filp].f_count, s, file[proc[p].filp].listed,
                       file[proc[p].filp].stage)
        /\ proc[p].filp \in File /\ Shape'
    BY <1>0, <1>4, KmallocShape
  <2>2. \A g \in File : /\ file'[g].f_count = file[g].f_count /\ file'[g].stage = file[g].stage
                        /\ file'[g].listed = file[g].listed
    BY <2>1 DEF FileBecomes
  <2>3. UNCHANGED <<fd, io>>
    BY <1>4 DEF kmalloc
  <2>4. Referenced'
    BY <1>0, <2>1, <2>2, <2>3, InsideCounted, LabelsHas
  <2>5. Locked'
    BY <1>0, <1>4, LockedIoctl
  <2> QED
    BY <1>0, <1>4, <2>1, <2>4, <2>5, KmallocKeeps DEF Inv
<1>5. ASSUME set_fields(p)
      PROVE  Inv'
  BY <1>0, <1>5, InsideReferenced, LockedIoctl, SetFieldsKeeps DEF Inv
<1>6. ASSUME copy_from_user(p)
      PROVE  Inv'
  BY <1>0, <1>6, InsideReferenced, LockedIoctl, CopyKeeps DEF Inv
<1>7. ASSUME unlock_kernel(p)
      PROVE  Inv'
  BY <1>0, <1>7, UnlockShape, UnlockCounted, LockedIoctl, FputQuiet, InvQuiet
<1> QED
  BY <1>1, <1>2, <1>3, <1>4, <1>5, <1>6, <1>7 DEF Ioctl

LEMMA InvNext ==
  ASSUME Inv, [Next]_vars
  PROVE  Inv'
<1>0. /\ Shape /\ Referenced /\ Counted /\ Alone /\ Locked /\ ObjTyped /\ Structures
      /\ Exists /\ Acked
  BY InvParts
<1>1. ASSUME NEW p \in Proc, NEW i \in Io, dio_bio_submit(p, i)
      PROVE  Inv'
  <2>1. Becomes(p, "idle", NULL, NULL, NULL, NULL, FALSE) /\ Shape' /\ Referenced'
    BY <1>0, <1>1, SubmitShape, SubmitCounted
  <2>2. Locked'
    BY <1>0, <1>1, <2>1, LockedRest DEF dio_bio_submit, At, Outside
  <2> QED
    BY <1>0, <1>1, <2>1, <2>2, SubmitQuiet, InvQuiet
<1>2. ASSUME NEW i \in Io, end_io(i)
      PROVE  Inv'
  <2>1. Shape' /\ Referenced'
    BY <1>0, <1>2, EndIoShape, EndIoCounted
  <2>2. Locked'
    BY <1>0, <1>2 DEF end_io, Locked, Holds
  <2> QED
    BY <1>0, <1>2, <2>1, <2>2, FputQuiet, InvQuiet
<1>3. ASSUME NEW f \in File, file_kill(f) \/ file_free(f)
      PROVE  Inv'
  <2>1. Shape' /\ Referenced'
    BY <1>0, <1>3, KillShape, FreeShape, ReleaseCounted
  <2>2. Locked'
    BY <1>0, <1>3 DEF file_kill, file_free, Locked, Holds
  <2> QED
    BY <1>0, <1>3, <2>1, <2>2, ReleaseQuiet, InvQuiet
<1>4. ASSUME UNCHANGED vars
      PROVE  Inv'
  <2>1. /\ fd' = fd /\ file' = file /\ obj' = obj /\ kernel_lock' = kernel_lock
        /\ proc' = proc /\ io' = io /\ hist' = hist
    BY <1>4 DEF vars
  <2>2. Shape' /\ Locked' /\ ObjTyped'
    BY <1>0, <2>1 DEF Shape, Typed, Locked, Holds, ObjTyped
  <2>3. \A f : uses(f)' = uses(f)
    BY <2>1 DEF uses, descriptors, callers, bios
  <2>4. Referenced'
    BY <1>0, <2>1, <2>3 DEF Referenced, Counted, Alone
  <2>5. Quiet
    BY <2>1, QuietStill, QuietBios, QuietStep
  <2> QED
    BY <2>2, <2>4, <2>5, InvQuiet
<1> QED
  BY <1>1, <1>2, <1>3, <1>4, OpenKeeps, IoctlKeeps DEF Next

\* Every reachable state satisfies the inductive invariant: the references are counted, an
\* ioctl has the lock where it must, and what f_qos, bi_qos and a running ioctl lead to exists
\* and belongs to one file.
THEOREM FileQosInvariant == Spec => []Inv
<1>1. Init => Inv
  BY InvInit
<1>2. Inv /\ [Next]_vars => Inv'
  BY InvNext
<1> QED
  BY <1>1, <1>2, PTL DEF Spec

LEMMA InvSafe ==
  ASSUME Inv
  PROVE  NoUseAfterFree /\ QosOutlivesBio /\ SuccessInitialises /\ PriorityKept
<1>0. Shape /\ Counted /\ Exists /\ Initialised /\ PriorityKept
  BY DEF Inv, Referenced, Structures
<1>1. NoUseAfterFree
  <2> SUFFICES ASSUME NEW f \in File
               PROVE  /\ descriptors(f) \cup callers(f) \cup bios(f) # {} => file[f].stage = "open"
                      /\ file[f].f_count = uses(f)
                      /\ file[f].listed => file[f].stage \in {"open", "release"}
    BY DEF NoUseAfterFree, uses
  <2>1. ASSUME file[f].stage # "open"
        PROVE  descriptors(f) = {} /\ callers(f) = {} /\ bios(f) = {}
    BY <1>0, <2>1, FreeUnused DEF descriptors, callers, bios
  <2>2. file[f].f_count = uses(f) /\ (file[f].listed => file[f].stage \in {"open", "release"})
    BY <1>0, CountedAs
  <2> QED
    BY <2>1, <2>2
<1>2. QosOutlivesBio
  BY <1>0 DEF Exists, QosOutlivesBio
<1>3. SuccessInitialises
  BY <1>0 DEF Initialised, SuccessInitialises, writing, fresh
<1> QED
  BY <1>0, <1>1, <1>2, <1>3

\* f_count is the number of descriptors, system calls and bios that lead to the file, and fput
\* frees it only when there are none, however close, ioctl and I/O interleave.
THEOREM ReferencesCounted == Spec => []NoUseAfterFree
BY FileQosInvariant, InvSafe, PTL

\* The structure that dio_bio_submit took for a bio exists until the bio ends.
THEOREM BiosHaveQos == Spec => []QosOutlivesBio
BY FileQosInvariant, InvSafe, PTL

\* No successful ioctl leaves an uninitialised priority behind.
THEOREM PriorityInitialised == Spec => []SuccessInitialises
BY FileQosInvariant, InvSafe, PTL

\* Unless two first ioctls race, a file keeps the priority it was given last.
THEOREM PriorityStays == Spec => []PriorityKept
BY FileQosInvariant, InvSafe, PTL

=============================================================================
