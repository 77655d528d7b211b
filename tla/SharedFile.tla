----------------------------- MODULE SharedFile -----------------------------
(***************************************************************************)
(* One File of src/file.cpp called by several threads: open, close,        *)
(* setFilename, the calls that look at or move the position, and the       *)
(* transfers (both reads, traverse, the four writes) chunk by chunk.       *)
(* Beside it other code of the process opens and closes descriptors, whose *)
(* numbers the kernel uses again, lowest first.  Descriptor 0 stands for   *)
(* -1.  Files are opened without O_TRUNC or O_APPEND.  A callback runs     *)
(* outside every lock: what it may call is what another thread may call.   *)
(***************************************************************************)
EXTENDS Integers, Sequences, SharedMutex

CONSTANTS
    Thread,       \* threads that call
    Nobody,       \* not a thread
    Name,         \* paths
    Torn,         \* what a reader may see of a path that is being assigned
    StartName,    \* the path given to the constructor
    StartSize,    \* bytes in each file
    Fd,           \* descriptors the process may have open: 1, 2, ...
    PageSize,     \* the page of mmap
    UpperBound,   \* kFileIoUpperBound
    Wants,        \* bytes a transfer asks for
    Eachs,        \* its eachRead or eachWrite, 0 for the default
    Offsets,      \* arguments of jump2Offset and rjump2Offset
    Ops,          \* calls the threads make
    Faults,       \* system calls that may fail
    MaxCalls,     \* bound: calls
    MaxOthers     \* bound: files that other code opens

Transfers == {"readOnce", "traverse", "read", "write"}

ASSUME NameAssumption  == StartName \in Name /\ Torn \notin Name /\ Nobody \notin Thread
ASSUME SizeAssumption  ==
    /\ StartSize \in [Name -> Nat]
    /\ PageSize \in Nat \ {0} /\ UpperBound \in Nat \ {0}
    /\ Wants \subseteq Nat /\ Eachs \subseteq Nat /\ Offsets \subseteq Int
ASSUME FdAssumption    == Fd \subseteq Nat \ {0}
ASSUME OpsAssumption   == Ops \subseteq Transfers \cup {"open", "close", "set", "seek"}
ASSUME FaultAssumption == Faults \subseteq {"open", "stat", "seek", "io"}
ASSUME BoundAssumption == MaxCalls \in Nat /\ MaxOthers \in Nat

VARIABLES
    fd, filename, ioBusy,           \* members
    fdRw, nameRw, ioMutex,          \* fdRwlock, filenameRwlock, ioMutex
    table,        \* open descriptors: file and position
    size,         \* bytes in each file
    others,       \* descriptors that other code opened
    pc, op, arg,  \* where a thread is, in which call, with which argument
    local,        \* its descriptor: initfd, or what ::open returned
    seen,         \* its initfilename
    max, total,   \* maxRead or maxWrite, and the bytes moved so far
    ret,          \* its return code; "unset" when not initialised
    moved,        \* history: the pieces moved by the transfer
    quiet,        \* history: no call of another thread overlapped the transfer
    calls, opens

members == <<fd, filename, ioBusy>>
locks   == <<fdRw, nameRw, ioMutex>>
kernel  == <<table, size, others, opens>>
locals  == <<op, arg, local, seen, max, total, ret, moved>>
vars    == <<members, locks, kernel, pc, locals, quiet, calls>>

Labels == {"idle", "name", "upgrade", "exclude", "open", "publish", "close",
           "assign", "assigned", "seek", "position", "mark", "primary", "size",
           "check", "lock", "io", "rewind", "return"}

NoFile == [file |-> Torn, pos |-> 0]
NoArg  == [name |-> StartName, want |-> 0, each |-> 0]

\* The File was constructed, and perhaps opened, before the threads share it.
Init ==
    /\ fd \in {0} \cup {d \in Fd : \A e \in Fd : d <= e}
    /\ filename = StartName /\ ioBusy = FALSE
    /\ fdRw = Unlocked /\ nameRw = Unlocked /\ ioMutex = Nobody
    /\ table = [d \in Fd |-> IF d = fd THEN [file |-> StartName, pos |-> 0] ELSE NoFile]
    /\ size = StartSize
    /\ others = {} /\ opens = 0
    /\ pc = [t \in Thread |-> "idle"]
    /\ op = [t \in Thread |-> "close"]
    /\ arg = [t \in Thread |-> NoArg]
    /\ local = [t \in Thread |-> 0]
    /\ seen = [t \in Thread |-> StartName]
    /\ max = [t \in Thread |-> 0]
    /\ total = [t \in Thread |-> 0]
    /\ ret = [t \in Thread |-> "unset"]
    /\ moved = [t \in Thread |-> << >>]
    /\ quiet = [t \in Thread |-> TRUE]
    /\ calls = 0

Lower(m, n) == IF m < n THEN m ELSE n

IsOpen(d) == d # 0 /\ table[d] # NoFile
Free == {d \in Fd : ~IsOpen(d)}

Go(t, label) == pc' = [pc EXCEPT ![t] = label]

\* The locals of a call are gone when it returns.
Forget(t) ==
    /\ arg' = [arg EXCEPT ![t] = NoArg]
    /\ local' = [local EXCEPT ![t] = 0]
    /\ seen' = [seen EXCEPT ![t] = StartName]
    /\ max' = [max EXCEPT ![t] = 0]
    /\ total' = [total EXCEPT ![t] = 0]
    /\ ret' = [ret EXCEPT ![t] = "unset"]
    /\ moved' = [moved EXCEPT ![t] = << >>]
    /\ op' = [op EXCEPT ![t] = "close"]
    /\ quiet' = [quiet EXCEPT ![t] = TRUE]
    /\ Go(t, "idle")

Begin(t, o) ==
    /\ pc[t] = "idle"
    /\ o \in Ops
    /\ calls < MaxCalls
    /\ calls' = calls + 1
    /\ op' = [op EXCEPT ![t] = o]
    /\ quiet' = [u \in Thread |-> IF u = t THEN \A v \in Thread : pc[v] = "idle"
                                 ELSE pc[u] = "idle"]

-----------------------------------------------------------------------------
\* Code elsewhere in the process opens a file: open(2) gives the lowest number.
OtherOpens ==
    /\ opens < MaxOthers
    /\ opens' = opens + 1
    /\ \E f \in Name, d \in Free :
         /\ \A e \in Free : d <= e
         /\ table' = [table EXCEPT ![d] = [file |-> f, pos |-> 0]]
         /\ others' = others \cup {d}
    /\ UNCHANGED <<members, locks, size, pc, locals, quiet, calls>>

OtherCloses ==
    /\ \E d \in others : /\ table' = [table EXCEPT ![d] = NoFile]
                         /\ others' = others \ {d}
    /\ UNCHANGED <<members, locks, size, opens, pc, locals, quiet, calls>>

-----------------------------------------------------------------------------
(* open, close and setFilename hold fdRwlock exclusively. *)

BeginOpenOrClose(t) ==
    /\ Begin(t, "open") \/ Begin(t, "close")
    /\ Go(t, "upgrade")
    /\ UNCHANGED <<members, locks, kernel, arg, local, seen, max, total, ret, moved>>

EnterUpgrade(t) ==
    /\ pc[t] = "upgrade"
    /\ CanUpgrade(fdRw)
    /\ fdRw' = LockUpgrade(fdRw, t)
    /\ Go(t, "exclude")
    /\ UNCHANGED <<members, nameRw, ioMutex, kernel, locals, quiet, calls>>

EnterExclusive(t) ==
    /\ pc[t] = "exclude"
    /\ CanExclude(fdRw)
    /\ fdRw' = LockExclusive(fdRw, t)
    /\ Go(t, IF op[t] = "open" THEN "open" ELSE "close")
    /\ UNCHANGED <<members, nameRw, ioMutex, kernel, locals, quiet, calls>>

\* Mutant: a File that is open is opened again.
OpenAgain(t) ==
    /\ pc[t] = "open"
    /\ \E d \in Free :
         /\ filename # Torn
         /\ \A e \in Free : d <= e
         /\ table' = [table EXCEPT ![d] = [file |-> filename, pos |-> 0]]
         /\ local' = [local EXCEPT ![t] = d]
    /\ Go(t, "publish")
    /\ UNCHANGED <<members, locks, size, others, opens, op, arg, seen, max, total,
                   ret, moved, quiet, calls>>

\* AlreadyOpen, InvalidFilename or a failing ::open: nothing was opened.
OpenFails(t) ==
    /\ pc[t] = "open"
    /\ fd # 0 \/ filename = Torn \/ Free = {} \/ "open" \in Faults
    /\ fdRw' = UnlockExclusive(fdRw, t)
    /\ Forget(t)
    /\ UNCHANGED <<members, nameRw, ioMutex, kernel, calls>>

\* ::open of the filename, which filenameRwlock does not protect here.
Open(t) ==
    /\ pc[t] = "open"
    /\ fd = 0 /\ filename # Torn
    /\ \E d \in Free :
         /\ \A e \in Free : d <= e
         /\ table' = [table EXCEPT ![d] = [file |-> filename, pos |-> 0]]
         /\ local' = [local EXCEPT ![t] = d]
    /\ Go(t, "publish")
    /\ UNCHANGED <<members, locks, size, others, opens, op, arg, seen, max, total,
                   ret, moved, quiet, calls>>

Publish(t) ==
    /\ pc[t] = "publish"
    /\ ioMutex = Nobody
    /\ fd' = local[t]
    /\ fdRw' = UnlockExclusive(fdRw, t)
    /\ Forget(t)
    /\ UNCHANGED <<filename, ioBusy, nameRw, ioMutex, kernel, calls>>

\* The end of File::close, called by itself or by setFilename.
Closed(t) ==
    /\ fd' = 0
    /\ table' = IF fd = 0 THEN table ELSE [table EXCEPT ![fd] = NoFile]
    /\ fdRw' = UnlockExclusive(fdRw, t)
    /\ IF op[t] = "set" THEN Go(t, "assign") /\ UNCHANGED <<locals, quiet>>
                        ELSE Forget(t)
    /\ UNCHANGED <<filename, ioBusy, nameRw, ioMutex, size, others, opens, calls>>

\* Mutant: ::close without ioMutex.
CloseAtOnce(t) == pc[t] = "close" /\ Closed(t)

Close(t) ==
    /\ pc[t] = "close"
    /\ fd # 0 => ioMutex = Nobody
    /\ Closed(t)

BeginSet(t) ==
    /\ Begin(t, "set")
    /\ \E n \in Name : arg' = [arg EXCEPT ![t].name = n]
    /\ Go(t, "name")
    /\ UNCHANGED <<members, locks, kernel, local, seen, max, total, ret, moved>>

\* setFilename: filenameRwlock is taken by nobody else.  A path that is the
\* same is assigned too, which changes nothing.
EnterName(t) ==
    /\ pc[t] = "name"
    /\ CanUpgrade(nameRw)
    /\ IF filename # arg[t].name
       THEN /\ nameRw' = LockExclusive(nameRw, t)
            /\ Go(t, "upgrade")
            /\ UNCHANGED <<locals, quiet>>
       ELSE Forget(t) /\ UNCHANGED nameRw
    /\ UNCHANGED <<members, fdRw, ioMutex, kernel, calls>>

\* The assignment races with those who read the path under fdRwlock.
StartAssign(t) ==
    /\ pc[t] = "assign"
    /\ filename' = Torn
    /\ Go(t, "assigned")
    /\ UNCHANGED <<fd, ioBusy, locks, kernel, locals, quiet, calls>>

Assign(t) ==
    /\ pc[t] = "assigned"
    /\ filename' = arg[t].name
    /\ nameRw' = UnlockExclusive(nameRw, t)
    /\ Forget(t)
    /\ UNCHANGED <<fd, ioBusy, fdRw, ioMutex, kernel, calls>>

-----------------------------------------------------------------------------
(* Seeks keep fdRwlock shared and take ioMutex under it. *)

BeginSeek(t) ==
    /\ Begin(t, "seek")
    /\ Go(t, "seek")
    /\ UNCHANGED <<members, locks, kernel, arg, local, seen, max, total, ret, moved>>

\* The caller goes on: read calls jump2Offset before it returns.
SeekDone(t) ==
    IF op[t] = "read" THEN Go(t, "return") /\ UNCHANGED <<locals, quiet>>
                      ELSE Forget(t)

\* A File that is not open gives its lock back at once.
EnterSeek(t) ==
    /\ pc[t] \in {"seek", "rewind"}
    /\ CanShare(fdRw)
    /\ IF fd = 0
       THEN SeekDone(t) /\ UNCHANGED fdRw
       ELSE /\ Go(t, "position")
            /\ fdRw' = LockShared(fdRw, t)
            /\ UNCHANGED <<locals, quiet>>
    /\ UNCHANGED <<members, nameRw, ioMutex, kernel, calls>>

\* Mutant: a place before the beginning is not refused.
AnyTargets(t) ==
    LET here == table[fd].pos IN
    IF op[t] = "read" THEN {here + total[t]} ELSE {here + o : o \in Offsets}

\* Where lseek leaves the position: jump2Begin, jump2Offset, rjump2Offset, or
\* unmoved, as ioPostion and ioRestPostion leave it.
Targets(t) ==
    LET here == table[fd].pos IN
    IF op[t] = "read" THEN {here + total[t]}
    ELSE {0, here} \cup {p \in {here + o : o \in Offsets} \cup
                               {size[table[fd].file] + o : o \in Offsets} : p >= 0}

\* Mutant: the early return on a failing lseek leaves the lock behind.
SeekKeepingLock(t) ==
    /\ pc[t] = "position"
    /\ ioMutex = Nobody
    /\ \/ /\ \E p \in Targets(t) : table' = [table EXCEPT ![fd].pos = p]
          /\ fdRw' = UnlockShared(fdRw, t)
       \/ "seek" \in Faults /\ UNCHANGED <<table, fdRw>>
    /\ SeekDone(t)
    /\ UNCHANGED <<members, nameRw, ioMutex, size, others, opens, calls>>

Seek(t) ==
    /\ pc[t] = "position"
    /\ ioMutex = Nobody
    /\ \/ \E p \in Targets(t) : table' = [table EXCEPT ![fd].pos = p]
       \/ "seek" \in Faults /\ UNCHANGED table
    /\ fdRw' = UnlockShared(fdRw, t)
    /\ SeekDone(t)
    /\ UNCHANGED <<members, nameRw, ioMutex, size, others, opens, calls>>

-----------------------------------------------------------------------------
(* Transfers. *)

\* A transfer that finds ioBusy set returns Busy, and one without data returns
\* InvalidData: nothing happens.  The others have not set ioBusy yet.
BeginTransfer(t) ==
    /\ \E o \in Transfers, w \in Wants, e \in Eachs :
         /\ Begin(t, o)
         /\ ~ioBusy
         /\ arg' = [arg EXCEPT ![t].want = w, ![t].each = e]
    /\ Go(t, "mark")
    /\ UNCHANGED <<members, locks, kernel, local, seen, max, total, ret, moved>>

\* The guard of IoBusyGuard.  traverse starts from a code that is set.
Mark(t) ==
    /\ pc[t] = "mark"
    /\ ioBusy' = TRUE
    /\ ret' = [ret EXCEPT ![t] = IF op[t] = "traverse" THEN "ok" ELSE "unset"]
    /\ Go(t, "primary")
    /\ UNCHANGED <<fd, filename, locks, kernel, op, arg, local, seen, max, total,
                   moved, quiet, calls>>

\* To the label end, where read moves the position once more.
End(t, code) ==
    /\ ret' = [ret EXCEPT ![t] = code]
    /\ Go(t, IF op[t] = "read" THEN "rewind" ELSE "return")

\* Mutant: the File is not open and ioBusy stays.
PrimaryForgetting(t) ==
    /\ pc[t] = "primary"
    /\ CanShare(fdRw)
    /\ local' = [local EXCEPT ![t] = fd]
    /\ seen' = [seen EXCEPT ![t] = filename]
    /\ IF fd = 0
       THEN Go(t, "idle") /\ UNCHANGED ret
       ELSE Go(t, "size") /\ UNCHANGED ret
    /\ UNCHANGED <<members, locks, kernel, op, arg, max, total, moved, quiet, calls>>

\* initfd and initfilename, under fdRwlock.
Primary(t) ==
    /\ pc[t] = "primary"
    /\ CanShare(fdRw)
    /\ local' = [local EXCEPT ![t] = fd]
    /\ seen' = [seen EXCEPT ![t] = filename]
    /\ IF fd = 0
       THEN End(t, "fail")
       ELSE Go(t, "size") /\ UNCHANGED ret
    /\ UNCHANGED <<members, locks, kernel, op, arg, max, total, moved, quiet, calls>>

\* __size reads fd and filename without a lock.
Sizes ==
    IF IsOpen(fd) THEN {size[table[fd].file]}
    ELSE IF filename # Torn THEN {size[filename]} ELSE {}

\* How far the transfer will go; read(size) need not ask for the file's size.
\* A write has its limit from its arguments, and may get its data from an Any,
\* which sets the code, or fails when it holds none.
Limits(t) ==
    LET asked == arg[t].want IN
    CASE op[t] = "write"    -> {asked}
      [] op[t] = "readOnce" -> {asked} \cup {Lower(asked, s) : s \in Sizes}
      [] OTHER              -> {Lower(asked, s) : s \in Sizes}

SizeUp(t) ==
    /\ pc[t] = "size"
    /\ \/ \E m \in Limits(t) :
            /\ max' = [max EXCEPT ![t] = m]
            /\ IF op[t] = "readOnce" /\ m > UpperBound
               THEN End(t, "fail")
               ELSE /\ Go(t, "check")
                    /\ \E code \in {ret[t]} \cup (IF op[t] = "write" THEN {"ok"} ELSE {}) :
                         ret' = [ret EXCEPT ![t] = code]
       \/ /\ op[t] = "write" \/ Sizes = {} \/ "stat" \in Faults
          /\ End(t, "fail")
          /\ UNCHANGED max
    /\ UNCHANGED <<members, locks, kernel, op, arg, local, seen, total, moved, quiet,
                   calls>>

\* "get init incase changed": descriptor and path are compared under fdRwlock.
Check(t) ==
    /\ pc[t] = "check"
    /\ CanShare(fdRw)
    /\ IF fd # local[t] \/ filename # seen[t]
       THEN End(t, "fail")
       ELSE Go(t, "lock") /\ UNCHANGED ret
    /\ UNCHANGED <<members, locks, kernel, op, arg, local, seen, max, total, moved,
                   quiet, calls>>

LockIo(t) ==
    /\ pc[t] = "lock"
    /\ ioMutex = Nobody
    /\ ioMutex' = t
    /\ Go(t, "io")
    /\ UNCHANGED <<members, fdRw, nameRw, kernel, locals, quiet, calls>>

\* eachRead or eachWrite.  Above kMaxFileRdMem it is that value, and a negative
\* eachWrite is the whole: both are in Eachs.
EachSize(t) ==
    Lower(IF arg[t].each = 0 THEN UpperBound ELSE arg[t].each, max[t])

\* Mutant: the last piece is not cut to what is left.
WholeChunk(t) == IF op[t] = "readOnce" THEN max[t] ELSE EachSize(t)

\* The bytes of the next system call.
Chunk(t) ==
    IF op[t] = "readOnce" THEN max[t] ELSE Lower(EachSize(t), max[t] - total[t])

\* Mutant: every piece is mapped from the first page.
FirstPage(t) == 0

\* traverse maps from the start of a page and hands out the start of the map.
PageStart(t) == (total[t] \div PageSize) * PageSize

From(t) == IF op[t] = "traverse" THEN PageStart(t) ELSE table[local[t]].pos

\* What the kernel may move.  mmap maps all or fails; mapping nothing fails.
Counts(t) ==
    LET n     == Chunk(t)
        there == size[table[local[t]].file] - table[local[t]].pos
        upTo(k) == IF k <= 0 THEN {0} ELSE 1 .. k IN
    CASE op[t] = "traverse" -> {n} \ {0}
      [] op[t] = "write"    -> upTo(n)
      [] OTHER              -> upTo(Lower(n, there))

\* After n bytes: the callback may cancel; nothing moved is the end; the loop may
\* end with the code as it was.
AfterChunk(t, n) ==
    \/ op[t] # "readOnce" /\ End(t, "cancelled")
    \/ /\ n = 0 \/ op[t] = "readOnce"
       /\ End(t, "ok")
    \/ /\ n # 0 /\ op[t] # "readOnce"
       /\ IF total[t] + n < max[t]
          THEN Go(t, "check") /\ UNCHANGED ret
          ELSE End(t, ret[t])

Io(t) ==
    /\ pc[t] = "io"
    /\ IsOpen(local[t])
    /\ \E n \in Counts(t) :
         LET d    == local[t]
             file == table[d].file IN
         /\ total' = [total EXCEPT ![t] = @ + n]
         /\ moved' = [moved EXCEPT ![t] = Append(@,
                        [file |-> file, own |-> d \notin others,
                         from |-> From(t), len |-> n])]
         /\ table' = IF op[t] = "traverse" THEN table
                     ELSE [table EXCEPT ![d].pos = @ + n]
         /\ size' = IF op[t] = "write" /\ n > 0 /\ size[file] < table[d].pos + n
                    THEN [size EXCEPT ![file] = table[d].pos + n] ELSE size
         /\ AfterChunk(t, n)
    /\ ioMutex' = Nobody
    /\ UNCHANGED <<members, fdRw, nameRw, others, opens, op, arg, local, seen, max,
                   quiet, calls>>

\* EBADF, EINVAL for an empty map, and every other error of the system call.
IoFails(t) ==
    /\ pc[t] = "io"
    /\ \/ ~IsOpen(local[t])
       \/ op[t] = "traverse" /\ Chunk(t) = 0
       \/ "io" \in Faults
    /\ ioMutex' = Nobody
    /\ End(t, "fail")
    /\ UNCHANGED <<members, fdRw, nameRw, kernel, op, arg, local, seen, max, total,
                   moved, quiet, calls>>

\* The guard is destroyed; a code that is not set is whatever the memory held.
Return(t) ==
    /\ pc[t] = "return"
    /\ ioBusy' = FALSE
    /\ Forget(t)
    /\ UNCHANGED <<fd, filename, locks, kernel, calls>>

-----------------------------------------------------------------------------
\* The program stops calling: not a deadlock.
Done ==
    /\ calls = MaxCalls
    /\ \A t \in Thread : pc[t] = "idle"
    /\ UNCHANGED vars

Start(t) == BeginOpenOrClose(t) \/ BeginSet(t) \/ BeginSeek(t) \/ BeginTransfer(t)
Continue(t) ==
    \/ EnterUpgrade(t) \/ EnterExclusive(t) \/ Open(t) \/ OpenFails(t) \/ Publish(t)
    \/ Close(t) \/ EnterName(t) \/ StartAssign(t) \/ Assign(t)
    \/ EnterSeek(t) \/ Seek(t)
    \/ Mark(t) \/ Primary(t) \/ SizeUp(t) \/ Check(t) \/ LockIo(t) \/ Io(t)
    \/ IoFails(t) \/ Return(t)

Next ==
    \/ \E t \in Thread : Start(t) \/ Continue(t)
    \/ OtherOpens \/ OtherCloses \/ Done

Spec == Init /\ [][Next]_vars

\* A thread inside a call keeps running; calls and bytes are bounded, so a
\* thread that waits for a lock finds it free in the end.
FairSpec == Spec /\ \A t \in Thread : WF_vars(Continue(t))

-----------------------------------------------------------------------------
(* Properties. *)

Piece == [file : Name, own : BOOLEAN, from : Nat, len : Nat]

\* Labels, calls and locks.
ControlOK ==
    /\ fdRw \in MutexType(Thread) /\ nameRw \in MutexType(Thread)
    /\ ioMutex \in Thread \cup {Nobody}
    /\ pc \in [Thread -> Labels]
    /\ op \in [Thread -> Transfers \cup {"open", "close", "set", "seek"}]

\* The descriptors, the files and the numbers that a call computes with.
DataOK ==
    /\ fd \in Fd \cup {0} /\ filename \in Name \cup {Torn}
    /\ table \in [Fd -> [file : Name, pos : Nat] \cup {NoFile}]
    /\ size \in [Name -> Nat]
    /\ others \in SUBSET Fd
    /\ arg \in [Thread -> [name : Name, want : Nat, each : Nat]]
    /\ local \in [Thread -> Fd \cup {0}]
    /\ max \in [Thread -> Nat] /\ total \in [Thread -> Nat]

\* Every variable has its type (the members and locals of File).
TypeOK ==
    /\ ControlOK /\ DataOK
    /\ ioBusy \in BOOLEAN
    /\ seen \in [Thread -> Name \cup {Torn}]
    /\ ret \in [Thread -> {"unset", "ok", "cancelled", "fail"}]
    /\ moved \in [Thread -> Seq(Piece)]
    /\ quiet \in [Thread -> BOOLEAN]
    /\ calls \in Nat /\ opens \in Nat

\* Every path through open, close, setFilename and the seeks gives fdRwlock and
\* filenameRwlock back, and who holds one exclusively is alone.
LocksHeld ==
    /\ \A t \in Thread :
         /\ pc[t] = "position" <=> t \in fdRw.shared
         /\ pc[t] = "exclude" <=> t \in fdRw.upgrade
         /\ pc[t] \in {"open", "publish", "close"} <=> t \in fdRw.exclusive
         /\ pc[t] = "io" <=> ioMutex = t
         /\ t \in nameRw.exclusive =>
              op[t] = "set" /\ pc[t] \in {"upgrade", "exclude", "close", "assign", "assigned"}
    /\ MutexSafe(fdRw) /\ MutexSafe(nameRw)

\* open and close lose no descriptor and close none that is not the File's: one
\* that is open belongs to other code, to the File, or to an open in progress,
\* and the File's own is open.
DescriptorsOwned ==
    /\ \A d \in Fd : IsOpen(d) =>
         \/ d \in others
         \/ d = fd
         \/ \E t \in Thread : pc[t] = "publish" /\ local[t] = d
    /\ fd # 0 => IsOpen(fd) /\ fd \notin others
    /\ \A d \in others : IsOpen(d)

\* close waits for the system call in progress ("exclusive io"): the File's
\* descriptor is not closed under it.
CloseOutsideIo ==
    [][fd # 0 /\ fd' = 0 => \A t \in Thread : pc[t] # "io"]_vars

\* Every way out of a transfer clears ioBusy: with none running it is clear, else
\* the File would refuse every later transfer.
BusyFreed ==
    (\A t \in Thread :
        pc[t] \notin {"primary", "size", "check", "lock", "io", "rewind", "return"}
            /\ (pc[t] = "position" => op[t] # "read")) => ~ioBusy

\* A transfer never moves more than it was limited to, however the kernel cuts
\* the pieces and whatever other threads do between two of them.
WithinLimit == \A t \in Thread : total[t] <= max[t]

\* A transfer that no call of another thread overlapped works on the File's own
\* descriptor and on one file, its pieces follow each other without gap or
\* overlap, and, unless its code says that it failed or was cancelled, they add up
\* to the limit, or to the end of the file for a read (read(size) reads once and
\* may be cut short).  traverse starts at the
\* beginning; its pieces are the right ones only if they are whole pages.
QuietExact ==
    \A t \in Thread :
        LET m == moved[t]
            whole == op[t] # "traverse" \/ EachSize(t) % PageSize = 0 \/ Len(m) <= 1 IN
        pc[t] = "return" /\ quiet[t] /\ whole /\ Len(m) > 0 =>
            /\ \A i \in 1 .. Len(m) : m[i].own /\ m[i].file = m[1].file
            /\ \A i \in 1 .. Len(m) - 1 : m[i + 1].from = m[i].from + m[i].len
            /\ op[t] = "traverse" => m[1].from = 0
            /\ ret[t] \in {"ok", "unset"} =>
                 \/ total[t] = max[t] \/ op[t] = "readOnce"
                 \/ op[t] = "read" /\ m[Len(m)].from + m[Len(m)].len >= size[m[1].file]

\* "check fd .. changed", "lock to read! (exclusive io)": a transfer moves no
\* bytes through a descriptor that belongs to other code.
OwnDescriptor ==
    \A t \in Thread : \A i \in 1 .. Len(moved[t]) : moved[t][i].own

\* Every call returns: the three locks are taken in one order and each transfer
\* comes to its end.
CallsReturn == \A t \in Thread : pc[t] # "idle" ~> pc[t] = "idle"

=============================================================================
