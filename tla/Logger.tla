------------------------------- MODULE Logger -------------------------------
(***************************************************************************)
(* One Logger of src/log.cpp, called by several threads: the level gate    *)
(* with its use-once level, the two overloads of append, reset, finish,    *)
(* and the rotation that shrinkToFit makes, over the stdio stream `log`,   *)
(* the live file and its ".1" backup.                                      *)
(*                                                                         *)
(* A thread walks through the labels of pc; a label is a point of the code *)
(* where another thread may come in between.  What the code does while it  *)
(* holds writemutex is split only where an unlocked reader can look (the   *)
(* test of this->log in append, kLogIdx) or where the process can die.     *)
(* A record is the number of its fwrite; every record has size 1, so sizes *)
(* and offsets count records.                                              *)
(***************************************************************************)
EXTENDS LogLevel, Sequences, FiniteSets

CONSTANTS
    Thread,           \* threads that use the Logger
    NoThread,         \* owner of writemutex when it is free
    Ops,              \* API calls the threads make
    LevelArgs,        \* levels passed to append and setLogLevel
    SpinArgs,         \* levels passed to getLogger, Unchange for none
    OutputArgs,       \* outputs passed to getLogger and setOutputs
    SizeArgs,         \* arguments of setMaxSize
    Names, NoName,    \* record names and callback filters; the empty name
    FlushInterval,    \* kFlushInteval
    ShrinkInterval,   \* kShrinkToFitInteval
    MinLogSize,       \* kMinLogSize
    DefaultLogSize,   \* kDefaultLogSize
    ChunkSize,        \* records in one chunk of File::traverse, kBigPerReadBytes
    WriteCodes,       \* outcomes of File::write that the build may produce
    Faults,           \* system calls that may fail
    MaxCalls,         \* bound: API calls, those on other Loggers included
    MaxCrashes        \* bound: crashes of the process

Calls == {"append", "stream", "raw", "comma", "reset", "truncate", "finish",
          "shrink", "setLogLevel", "toggleLogLevel", "getLogger", "setOutputs",
          "setMaxSize", "setAppendCallback", "addAcNameFilter",
          "removeAcNameFilter", "clearAcNameFilters", "otherLogger"}

Output == {"CoutOrCerr", "File"}

ASSUME ThreadAssumption == NoThread \notin Thread /\ IsFiniteSet(Thread)
ASSUME CallAssumption   == Ops \subseteq Calls
ASSUME NameAssumption   == NoName \in Names
ASSUME LevelAssumption  == /\ LevelArgs \subseteq Level
                           /\ SpinArgs \subseteq LevelOrUnchange
ASSUME OutputAssumption == OutputArgs \subseteq SUBSET Output
ASSUME SizeAssumption   == /\ SizeArgs \subseteq Nat
                           /\ MinLogSize \in Nat \ {0}
                           /\ DefaultLogSize \in Nat
                           /\ DefaultLogSize >= MinLogSize
                           /\ ChunkSize \in Nat \ {0}
ASSUME IntervalAssumption == /\ FlushInterval \in Nat \ {0}
                             /\ ShrinkInterval \in Nat \ {0}
ASSUME CodeAssumption   == WriteCodes \subseteq {"ok", "negative"}
ASSUME FaultAssumption  ==
    Faults \subseteq {"stat", "open", "mmap", "write", "fwrite", "fopen"}
ASSUME BoundAssumption  == MaxCalls \in Nat /\ MaxCrashes \in Nat

VARIABLES
    \* members of Logger
    logLevel, spin, outputs, maxSize, callback, filters,
    log,              \* is the stream open
    mutex,            \* owner of writemutex
    \* process and disk
    idx,              \* kLogIdx
    buf,              \* records in the stdio buffer of `log`
    live, backup,     \* contents of the file and of its ".1" copy
    \* locals of the threads
    pc, call, lvl, name, out, rtn,
    \* locals of the owner of writemutex
    num,              \* kLogIdx as printed in the record being formatted
    limit, torn,      \* bytes traverse will read; has doWrite2Tmp cancelled it
    \* history
    count,            \* records written so far
    ids,              \* ids printed by this process, in file order
    gone,             \* records dropped by a truncating reset or by a crash
    uses,             \* appends that took the current use-once level
    calls, crashes

conf   == <<logLevel, spin, outputs, maxSize, callback, filters>>
locals == <<call, lvl, name, out, rtn>>
rot    == <<limit, torn>>
disk   == <<buf, live, backup>>
hist   == <<count, ids, gone>>
bounds == <<calls, crashes>>
vars   == <<conf, log, mutex, idx, disk, pc, locals, num, rot, hist, uses,
            bounds>>

Least(a, b) == IF a < b THEN a ELSE b
Elems(s) == {s[i] : i \in DOMAIN s}

Labels == {"idle", "gate", "spin", "level", "outputs", "check", "index", "lock",
           "write", "raw", "after", "callback", "filter", "invoke", "toggle",
           "configure", "reset", "finish", "close", "open", "shrink", "remove",
           "copy", "retire", "reopen"}

\* Where a thread that is inside writemutex can be seen.
Critical == {"write", "open", "remove", "copy", "retire", "reopen"}

StartOutputs(o) == IF o = {} THEN {"CoutOrCerr"} ELSE o

\* The members a Logger is constructed with.  Its constructor resets while
\* outputs still is CoutOrCerr, so it leaves the file closed and untouched.
Configured ==
    /\ logLevel = Note
    /\ spin = Unchange
    /\ outputs \in {StartOutputs(o) : o \in OutputArgs}
    /\ maxSize = DefaultLogSize
    /\ callback = FALSE
    /\ filters = {}
    /\ log = FALSE

Init ==
    /\ Configured
    /\ mutex = NoThread
    /\ idx = 0
    /\ buf = <<>> /\ live = <<>> /\ backup = <<>>
    /\ pc = [t \in Thread |-> "idle"]
    /\ call = [t \in Thread |-> "append"]
    /\ lvl = [t \in Thread |-> Unchange]
    /\ name = [t \in Thread |-> NoName]
    /\ out = [t \in Thread |-> {}]
    /\ rtn = [t \in Thread |-> "idle"]
    /\ num = 0 /\ limit = 0 /\ torn = FALSE
    /\ count = 0 /\ ids = <<>> /\ gone = {} /\ uses = 0
    /\ calls = 0 /\ crashes = 0

Go(t, label) == pc' = [pc EXCEPT ![t] = label]

\* reset, finish and shrinkToFit are called from several places.
Enter(t, label, back) == Go(t, label) /\ rtn' = [rtn EXCEPT ![t] = back]
Return(t) == Enter(t, rtn[t], "idle")

Begin(t, c) ==
    /\ pc[t] = "idle"
    /\ c \in Ops
    /\ calls < MaxCalls
    /\ calls' = calls + 1
    /\ UNCHANGED crashes

Lock(t)   == mutex = NoThread /\ mutex' = t
Unlock(t) == mutex = t /\ mutex' = NoThread

-----------------------------------------------------------------------------
(* Configuration calls.  None of them takes writemutex. *)

SetLogLevel(t) ==
    /\ Begin(t, "setLogLevel")
    /\ \E l \in LevelArgs \cup {Unchange} : logLevel' = Clamped(logLevel, l)
    /\ UNCHANGED <<spin, outputs, maxSize, callback, filters, log, mutex, idx,
                   disk, pc, locals, num, rot, hist, uses>>

\* toggleLogLevel reads the member and writes it back in two steps.
ToggleRead(t) ==
    /\ Begin(t, "toggleLogLevel")
    /\ lvl' = [lvl EXCEPT ![t] = Toggled(logLevel)]
    /\ Go(t, "toggle")
    /\ UNCHANGED <<conf, log, mutex, idx, disk, call, name, out, rtn, num, rot,
                   hist, uses>>

ToggleWrite(t) ==
    /\ pc[t] = "toggle"
    /\ logLevel' = lvl[t]
    /\ lvl' = [lvl EXCEPT ![t] = Unchange]
    /\ Go(t, "idle")
    /\ UNCHANGED <<spin, outputs, maxSize, callback, filters, log, mutex, idx,
                   disk, call, name, out, rtn, num, rot, hist, uses, bounds>>

\* getLogger on a Logger that exists: it hands the use-once level over and
\* then sets the outputs, unless they are 0.
GetLogger(t) ==
    /\ Begin(t, "getLogger")
    /\ \E s \in SpinArgs, o \in OutputArgs :
         /\ spin' = IF s # Unchange THEN s ELSE spin
         /\ uses' = IF s # Unchange THEN 0 ELSE uses
         /\ out' = [out EXCEPT ![t] = o]
    /\ Go(t, "configure")
    /\ UNCHANGED <<logLevel, outputs, maxSize, callback, filters, log, mutex,
                   idx, disk, call, lvl, name, rtn, num, rot, hist>>

GetLoggerOutputs(t) ==
    /\ pc[t] = "configure"
    /\ outputs' = IF out[t] # {} THEN out[t] ELSE outputs
    /\ out' = [out EXCEPT ![t] = {}]
    /\ Go(t, "idle")
    /\ UNCHANGED <<logLevel, spin, maxSize, callback, filters, log, mutex, idx,
                   disk, call, lvl, name, rtn, num, rot, hist, uses, bounds>>

SetOutputs(t) ==
    /\ Begin(t, "setOutputs")
    /\ outputs' \in OutputArgs
    /\ UNCHANGED <<logLevel, spin, maxSize, callback, filters, log, mutex, idx,
                   disk, pc, locals, num, rot, hist, uses>>

\* A negative argument changes nothing and is not enumerated.
ClampedSize(s) == IF s < MinLogSize THEN MinLogSize ELSE s

SetMaxSize(t) ==
    /\ Begin(t, "setMaxSize")
    /\ \E s \in SizeArgs : maxSize' = ClampedSize(s)
    /\ UNCHANGED <<logLevel, spin, outputs, callback, filters, log, mutex, idx,
                   disk, pc, locals, num, rot, hist, uses>>

SetAppendCallback(t) ==
    /\ Begin(t, "setAppendCallback")
    /\ callback' \in BOOLEAN
    /\ UNCHANGED <<logLevel, spin, outputs, maxSize, filters, log, mutex, idx,
                   disk, pc, locals, num, rot, hist, uses>>

ChangeFilters(t) ==
    /\ \/ Begin(t, "addAcNameFilter") /\ \E n \in Names : filters' = filters \cup {n}
       \/ Begin(t, "removeAcNameFilter") /\ \E n \in Names : filters' = filters \ {n}
       \/ Begin(t, "clearAcNameFilters") /\ filters' = {}
    /\ UNCHANGED <<logLevel, spin, outputs, maxSize, callback, log, mutex, idx,
                   disk, pc, locals, num, rot, hist, uses>>

\* An append to another Logger of the process: kLogIdx is one for them all.
OtherLogger(t) ==
    /\ Begin(t, "otherLogger")
    /\ idx' = idx + 1
    /\ UNCHANGED <<conf, log, mutex, disk, pc, locals, num, rot, hist, uses>>

-----------------------------------------------------------------------------
(* append: the gate, before any lock is taken. *)

ByReference == {"stream", "comma"}   \* operator<< and operator, pass this->logLevel
Raw == {"raw", "comma"}              \* append(msg, logLevel)

BeginAppend(t) ==
    /\ \E c \in {"append", "stream", "raw", "comma"} :
         /\ Begin(t, c)
         /\ call' = [call EXCEPT ![t] = c]
         /\ IF c \in ByReference THEN UNCHANGED lvl
            ELSE \E l \in LevelArgs : lvl' = [lvl EXCEPT ![t] = l]
         /\ IF c = "append" THEN \E n \in Names : name' = [name EXCEPT ![t] = n]
            ELSE UNCHANGED name
    /\ Go(t, "gate")
    /\ UNCHANGED <<conf, log, mutex, idx, disk, out, rtn, num, rot, hist, uses>>

ReadSpin(t) ==
    /\ pc[t] = "gate"
    /\ IF spin # Unchange
       THEN /\ lvl' = [lvl EXCEPT ![t] = spin]
            /\ uses' = uses + 1
            /\ Go(t, "spin")
       ELSE Go(t, "level") /\ UNCHANGED <<lvl, uses>>
    /\ UNCHANGED <<conf, log, mutex, idx, disk, call, name, out, rtn, num, rot,
                   hist, bounds>>

\* Mutant: the level is used without being cleared.
KeepSpin(t) ==
    /\ pc[t] = "spin"
    /\ Go(t, "level")
    /\ UNCHANGED <<conf, log, mutex, idx, disk, locals, num, rot, hist, uses,
                   bounds>>

ClearSpin(t) ==
    /\ pc[t] = "spin"
    /\ spin' = Unchange
    /\ Go(t, "level")
    /\ UNCHANGED <<logLevel, outputs, maxSize, callback, filters, log, mutex,
                   idx, disk, locals, num, rot, hist, uses, bounds>>

\* A level passed by reference is this->logLevel itself and never filtered.
CheckLevel(t) ==
    /\ pc[t] = "level"
    /\ LET l == IF lvl[t] = Unchange THEN logLevel ELSE lvl[t]
       IN  IF IsLogable(logLevel, l) THEN Go(t, "outputs") /\ UNCHANGED name
           ELSE Go(t, "idle") /\ name' = [name EXCEPT ![t] = NoName]
    /\ lvl' = [lvl EXCEPT ![t] = Unchange]
    /\ UNCHANGED <<conf, log, mutex, idx, disk, call, out, rtn, num, rot, hist,
                   uses, bounds>>

\* The outputs are read once and used for the whole append.
SnapshotOutputs(t) ==
    /\ pc[t] = "outputs"
    /\ out' = [out EXCEPT ![t] = outputs]
    /\ name' = IF outputs = {} THEN [name EXCEPT ![t] = NoName] ELSE name
    /\ Go(t, CASE outputs = {}         -> "idle"
               [] call[t] \in Raw      -> "raw"
               [] "File" \in outputs   -> "check"
               [] OTHER                -> "index")
    /\ UNCHANGED <<conf, log, mutex, idx, disk, call, lvl, rtn, num, rot, hist,
                   uses, bounds>>

\* append(name, ...) looks at this->log without the lock.
CheckLog(t) ==
    /\ pc[t] = "check"
    /\ IF log THEN Go(t, "index") /\ UNCHANGED rtn
       ELSE Enter(t, "reset", "opened")
    /\ UNCHANGED <<conf, log, mutex, idx, disk, call, lvl, name, out, num, rot,
                   hist, uses, bounds>>

\* Mutant: the counter does not move.
SkipIdx(t) ==
    /\ pc[t] = "index"
    /\ Go(t, "lock")
    /\ UNCHANGED <<conf, log, mutex, idx, disk, locals, num, rot, hist, uses,
                   bounds>>

IncrementIdx(t) ==
    /\ pc[t] = "index"
    /\ idx' = idx + 1
    /\ Go(t, "lock")
    /\ UNCHANGED <<conf, log, mutex, disk, locals, num, rot, hist, uses, bounds>>

-----------------------------------------------------------------------------
(* append: the section under writemutex. *)

\* Mutant: the buffer lands in front of the file.
FlushedInFront == buf \o live
\* stdio writes its buffer to the file on fflush and fclose.
Flushed == live \o buf

\* The fwrite of one record.  stdio may write the buffer out at any time
\* because it is full; `flush` is the explicit fflush.
WriteRecord(flush) ==
    /\ count' = count + 1
    /\ \/ /\ ~flush
          /\ buf' = Append(buf, count + 1)
          /\ UNCHANGED live
       \/ /\ live' = Append(Flushed, count + 1)
          /\ buf' = <<>>

\* Mutant: the flush follows the other interval.
FlushWithShrink == idx % ShrinkInterval = 0
FlushDue == idx % FlushInterval = 0

\* A short fwrite: the record is not in the file.
LoseRecord == "fwrite" \in Faults /\ UNCHANGED <<count, buf, live>>

AcquireAppend(t) ==
    /\ pc[t] = "lock"
    /\ Lock(t)
    /\ num' = idx
    /\ Go(t, "write")
    /\ UNCHANGED <<conf, log, idx, disk, locals, rot, hist, uses, bounds>>

\* kLogIdx is read again for the flush: other threads may have moved it.
WriteAppend(t) ==
    /\ pc[t] = "write"
    /\ Unlock(t)
    /\ \/ /\ "File" \notin out[t]
          /\ Go(t, "after")
          /\ UNCHANGED <<rtn, disk, hist>>
       \/ /\ "File" \in out[t] /\ ~log
          /\ Enter(t, "reset", "callback")
          /\ UNCHANGED <<disk, hist>>
       \/ /\ "File" \in out[t] /\ log
          /\ WriteRecord(FlushDue)
          /\ ids' = Append(ids, num)
          /\ Go(t, "after")
          /\ UNCHANGED <<rtn, backup, gone>>
       \/ /\ "File" \in out[t] /\ log
          /\ LoseRecord
          /\ Enter(t, "reset", "callback")
          /\ UNCHANGED <<backup, ids, gone>>
    /\ num' = 0
    /\ out' = [out EXCEPT ![t] = {}]
    /\ UNCHANGED <<conf, log, idx, call, lvl, name, rot, uses, bounds>>

\* append(msg, level): one section under the lock; it neither moves kLogIdx nor
\* reopens or rotates the file.
RawAppend(t) ==
    /\ pc[t] = "raw"
    /\ mutex = NoThread
    /\ \/ /\ "File" \notin out[t]
          /\ Go(t, "callback")
          /\ UNCHANGED <<count, disk>>
       \/ /\ "File" \in out[t] /\ ~log
          /\ Go(t, "idle")
          /\ UNCHANGED <<count, disk>>
       \/ /\ "File" \in out[t] /\ log
          /\ WriteRecord(FlushDue)
          /\ Go(t, "callback")
          /\ UNCHANGED backup
       \/ /\ "File" \in out[t] /\ log
          /\ LoseRecord
          /\ Go(t, "idle")
          /\ UNCHANGED backup
    /\ out' = [out EXCEPT ![t] = {}]
    /\ UNCHANGED <<conf, log, mutex, idx, call, lvl, name, rtn, num, rot, ids,
                   gone, uses, bounds>>

ShrinkDue == idx % ShrinkInterval = 0

\* Mutant: the counter starts again at every shrink.
AfterAppendRestartingIdx(t) ==
    /\ pc[t] = "after"
    /\ IF ShrinkDue THEN Enter(t, "shrink", "callback") /\ idx' = 0
       ELSE Go(t, "callback") /\ UNCHANGED <<rtn, idx>>
    /\ UNCHANGED <<conf, log, mutex, disk, call, lvl, name, out, num, rot, hist,
                   uses, bounds>>

\* kLogIdx is read a third time, after the lock is released.
AfterAppend(t) ==
    /\ pc[t] = "after"
    /\ IF ShrinkDue THEN Enter(t, "shrink", "callback")
       ELSE Go(t, "callback") /\ UNCHANGED rtn
    /\ UNCHANGED <<conf, log, mutex, idx, disk, call, lvl, name, out, num, rot,
                   hist, uses, bounds>>

-----------------------------------------------------------------------------
(* tryDoAcCb: the callback, invoked without any lock. *)

ReadCallback(t) ==
    /\ pc[t] = "callback"
    /\ IF callback THEN Go(t, "filter") /\ UNCHANGED name
       ELSE Go(t, "idle") /\ name' = [name EXCEPT ![t] = NoName]
    /\ UNCHANGED <<conf, log, mutex, idx, disk, call, lvl, out, rtn, num, rot,
                   hist, uses, bounds>>

CheckFilter(t) ==
    /\ pc[t] = "filter"
    /\ Go(t, IF name[t] \in filters THEN "invoke" ELSE "idle")
    /\ name' = [name EXCEPT ![t] = NoName]
    /\ UNCHANGED <<conf, log, mutex, idx, disk, call, lvl, out, rtn, num, rot,
                   hist, uses, bounds>>

\* What the callback does is the caller's; an exception of it is swallowed.
InvokeCallback(t) ==
    /\ pc[t] = "invoke"
    /\ Go(t, "idle")
    /\ UNCHANGED <<conf, log, mutex, idx, disk, locals, num, rot, hist, uses,
                   bounds>>

-----------------------------------------------------------------------------
(* reset and finish. *)

BeginReset(t) ==
    /\ \E c \in {"reset", "truncate"} :
         Begin(t, c) /\ call' = [call EXCEPT ![t] = c]
    /\ Enter(t, "reset", "idle")
    /\ UNCHANGED <<conf, log, mutex, idx, disk, lvl, name, out, num, rot, hist,
                   uses>>

BeginFinish(t) ==
    /\ Begin(t, "finish")
    /\ Enter(t, "finish", "idle")
    /\ UNCHANGED <<conf, log, mutex, idx, disk, call, lvl, name, out, num, rot,
                   hist, uses>>

\* Where reset(false) returns to: an append that found no file goes on to
\* shrinkToFit, or without it when it can still print, or gives up.
Returned(t, ok) ==
    \/ /\ rtn[t] # "opened"
       /\ Return(t)
       /\ UNCHANGED <<name, out>>
    \/ /\ rtn[t] = "opened" /\ ok
       /\ Enter(t, "shrink", "index")
       /\ UNCHANGED <<name, out>>
    \/ /\ rtn[t] = "opened" /\ ~ok /\ "CoutOrCerr" \in out[t]
       /\ Enter(t, "index", "idle")
       /\ UNCHANGED <<name, out>>
    \/ /\ rtn[t] = "opened" /\ ~ok /\ "CoutOrCerr" \notin out[t]
       /\ Enter(t, "idle", "idle")
       /\ name' = [name EXCEPT ![t] = NoName]
       /\ out' = [out EXCEPT ![t] = {}]

\* reset looks at the outputs as they are now, not at the append's snapshot.
ReadOutputs(t) ==
    /\ pc[t] = "reset"
    /\ Go(t, IF "File" \in outputs THEN "close" ELSE "finish")
    /\ UNCHANGED <<conf, log, mutex, idx, disk, locals, num, rot, hist, uses,
                   bounds>>

Finish(t) ==
    /\ pc[t] = "finish"
    /\ mutex = NoThread
    /\ live' = Flushed /\ buf' = <<>>
    /\ log' = FALSE
    /\ Returned(t, TRUE)
    /\ UNCHANGED <<conf, mutex, idx, backup, call, lvl, num, rot, hist, uses,
                   bounds>>

CloseLog(t) ==
    /\ pc[t] = "close"
    /\ Lock(t)
    /\ live' = Flushed /\ buf' = <<>>
    /\ log' = FALSE
    /\ Go(t, "open")
    /\ UNCHANGED <<conf, idx, backup, locals, num, rot, hist, uses, bounds>>

\* Only a call of reset(true) by the user truncates.
OpenLog(t) ==
    /\ pc[t] = "open"
    /\ Unlock(t)
    /\ \/ /\ log' = TRUE
          /\ IF call[t] = "truncate"
             THEN live' = <<>> /\ gone' = gone \cup Elems(live)
             ELSE UNCHANGED <<live, gone>>
          /\ Returned(t, TRUE)
       \/ /\ "fopen" \in Faults
          /\ UNCHANGED <<log, live, gone>>
          /\ Returned(t, FALSE)
    /\ UNCHANGED <<conf, idx, buf, backup, call, lvl, num, rot, count, ids, uses,
                   bounds>>

-----------------------------------------------------------------------------
(* shrinkToFit: copy the file to ".1" and start it again. *)

BeginShrink(t) ==
    /\ Begin(t, "shrink")
    /\ Enter(t, "shrink", "idle")
    /\ UNCHANGED <<conf, log, mutex, idx, disk, call, lvl, name, out, num, rot,
                   hist, uses>>

\* Mutant: the log may grow to the whole of maxSize.
AboveMaxSize == Len(live) > maxSize
\* The size is that of the file on disk: buffered records do not count.
AboveHalf == Len(live) > maxSize \div 2

SkipShrink(t) ==
    /\ pc[t] = "shrink"
    /\ mutex = NoThread
    /\ ~log \/ "stat" \in Faults \/ ~AboveHalf
    /\ Return(t)
    /\ UNCHANGED <<conf, log, mutex, idx, disk, call, lvl, name, out, num, rot,
                   hist, uses, bounds>>

\* Mutant: the buffer is not flushed before the copy.
StartShrinkUnflushed(t) ==
    /\ pc[t] = "shrink"
    /\ Lock(t)
    /\ log
    /\ AboveHalf
    /\ Go(t, "remove")
    /\ UNCHANGED <<conf, log, idx, disk, locals, num, rot, hist, uses, bounds>>

StartShrink(t) ==
    /\ pc[t] = "shrink"
    /\ Lock(t)
    /\ log
    /\ AboveHalf
    /\ live' = Flushed /\ buf' = <<>>
    /\ Go(t, "remove")
    /\ UNCHANGED <<conf, log, idx, backup, locals, num, rot, hist, uses, bounds>>

\* Mutant: the early return forgets the lock.
OpenReadFailsLocked(t) ==
    /\ pc[t] = "remove"
    /\ "open" \in Faults
    /\ Return(t)
    /\ UNCHANGED <<conf, log, mutex, idx, disk, call, lvl, name, out, num, rot,
                   hist, uses, bounds>>

\* Opening the live file for reading fails before the old backup is removed.
OpenReadFails(t) ==
    /\ pc[t] = "remove"
    /\ Unlock(t)
    /\ "open" \in Faults
    /\ Return(t)
    /\ UNCHANGED <<conf, log, idx, disk, call, lvl, name, out, num, rot, hist,
                   uses, bounds>>

\* Mutant: only half of maxSize is copied.
HalfLimit == Least(maxSize \div 2, Len(live))
\* maxSize is read again here, for the number of bytes to copy.
CopyLimit == Least(maxSize, Len(live))

\* The old backup is removed first, then a new one is created.
CreateBackup(t) ==
    /\ pc[t] = "remove"
    /\ backup' = <<>>
    /\ \/ /\ Go(t, "copy")
          /\ limit' = CopyLimit
          /\ UNCHANGED <<mutex, rtn>>
       \/ /\ "open" \in Faults
          /\ Unlock(t)
          /\ Return(t)
          /\ UNCHANGED limit
    /\ UNCHANGED <<conf, log, idx, buf, live, call, lvl, name, out, num, torn,
                   hist, uses, bounds>>

\* Mutant: one chunk is taken for the whole file.
CopyFirstChunk(t) ==
    /\ pc[t] = "copy"
    /\ backup' = SubSeq(live, 1, Least(Len(backup) + ChunkSize, limit))
    /\ Go(t, "retire")
    /\ UNCHANGED <<conf, log, mutex, idx, buf, live, locals, num, rot, hist,
                   uses, bounds>>

\* File::traverse hands the next chunk to doWrite2Tmp, which writes it and asks
\* traverse to stop when File::write returns a negative code; File::write leaves
\* its code uninitialised when it succeeds.  Stopped or finished, traverse
\* returns a code >= 0.
CopyChunk(t) ==
    /\ pc[t] = "copy"
    /\ backup' = SubSeq(live, 1, Least(Len(backup) + ChunkSize, limit))
    /\ \E code \in WriteCodes :
         /\ torn' = (code = "negative")
         /\ Go(t, IF torn' \/ Len(backup') = limit THEN "retire" ELSE "copy")
    /\ UNCHANGED <<conf, log, mutex, idx, buf, live, locals, num, limit, hist,
                   uses, bounds>>

\* The write of a chunk fails, possibly after a part of it.
CopyFails(t) ==
    /\ pc[t] = "copy"
    /\ "write" \in Faults
    /\ \E n \in Len(backup) .. Least(Len(backup) + ChunkSize, limit) - 1 :
         backup' = SubSeq(live, 1, n)
    /\ torn' = TRUE
    /\ Go(t, "retire")
    /\ UNCHANGED <<conf, log, mutex, idx, buf, live, locals, num, limit, hist,
                   uses, bounds>>

\* Mutant: the code of traverse is not looked at.
MapFailureIgnored(t) ==
    /\ pc[t] = "copy"
    /\ "mmap" \in Faults
    /\ Go(t, "retire")
    /\ UNCHANGED <<conf, log, mutex, idx, disk, locals, num, rot, hist, uses,
                   bounds>>

\* Only a failing mmap gives a negative code: the log stays as it is.
MapFails(t) ==
    /\ pc[t] = "copy"
    /\ "mmap" \in Faults
    /\ Unlock(t)
    /\ Return(t)
    /\ limit' = 0
    /\ UNCHANGED <<conf, log, idx, disk, call, lvl, name, out, num, torn, hist,
                   uses, bounds>>

RetireLog(t) ==
    /\ pc[t] = "retire"
    /\ log' = FALSE
    /\ Go(t, "reopen")
    /\ UNCHANGED <<conf, mutex, idx, disk, locals, num, rot, hist, uses, bounds>>

\* fopen(path, "wb") truncates; when it fails twice there is no log.
ReopenLog(t) ==
    /\ pc[t] = "reopen"
    /\ Unlock(t)
    /\ \/ log' = TRUE /\ live' = <<>>
       \/ "fopen" \in Faults /\ UNCHANGED <<log, live>>
    /\ Return(t)
    /\ limit' = 0 /\ torn' = FALSE
    /\ UNCHANGED <<conf, idx, buf, backup, call, lvl, name, out, num, hist, uses,
                   bounds>>

-----------------------------------------------------------------------------
\* The process dies and starts again: what stdio held is lost, the files stay.
Crash ==
    /\ crashes < MaxCrashes
    /\ crashes' = crashes + 1
    /\ logLevel' = Note /\ spin' = Unchange
    /\ outputs' \in {StartOutputs(o) : o \in OutputArgs}
    /\ maxSize' = DefaultLogSize
    /\ callback' = FALSE /\ filters' = {}
    /\ log' = FALSE /\ mutex' = NoThread /\ idx' = 0
    /\ buf' = <<>> /\ gone' = gone \cup Elems(buf)
    /\ pc' = [t \in Thread |-> "idle"]
    /\ call' = [t \in Thread |-> "append"]
    /\ lvl' = [t \in Thread |-> Unchange]
    /\ name' = [t \in Thread |-> NoName]
    /\ out' = [t \in Thread |-> {}]
    /\ rtn' = [t \in Thread |-> "idle"]
    /\ num' = 0 /\ limit' = 0 /\ torn' = FALSE
    /\ ids' = <<>> /\ uses' = 0
    /\ UNCHANGED <<live, backup, count, calls>>

\* The program stops calling: not a deadlock.
Done ==
    /\ calls = MaxCalls
    /\ \A t \in Thread : pc[t] = "idle"
    /\ UNCHANGED vars

Configure(t) ==
    \/ SetLogLevel(t) \/ ToggleRead(t) \/ GetLogger(t) \/ SetOutputs(t)
    \/ SetMaxSize(t) \/ SetAppendCallback(t) \/ ChangeFilters(t) \/ OtherLogger(t)

\* The caller decides to call; a call that has begun runs to its end.
Start(t) == Configure(t) \/ BeginAppend(t) \/ BeginReset(t) \/ BeginFinish(t)
            \/ BeginShrink(t)

Continue(t) ==
    \/ ToggleWrite(t) \/ GetLoggerOutputs(t)
    \/ ReadSpin(t) \/ ClearSpin(t) \/ CheckLevel(t) \/ SnapshotOutputs(t)
    \/ CheckLog(t) \/ IncrementIdx(t) \/ AcquireAppend(t) \/ WriteAppend(t)
    \/ RawAppend(t) \/ AfterAppend(t)
    \/ ReadCallback(t) \/ CheckFilter(t) \/ InvokeCallback(t)
    \/ ReadOutputs(t) \/ Finish(t) \/ CloseLog(t) \/ OpenLog(t)
    \/ SkipShrink(t) \/ StartShrink(t) \/ OpenReadFails(t) \/ CreateBackup(t)
    \/ CopyChunk(t) \/ CopyFails(t) \/ MapFails(t) \/ RetireLog(t) \/ ReopenLog(t)

Next == (\E t \in Thread : Start(t) \/ Continue(t)) \/ Crash \/ Done

Spec == Init /\ [][Next]_vars

\* A thread inside a call keeps running.  A caller need not call, and the mutex
\* is not fair: with a bounded number of calls whoever waits for it gets it.
FairSpec == Spec /\ \A t \in Thread : WF_vars(Continue(t))

-----------------------------------------------------------------------------
(* Properties. *)

Record == Nat \ {0}

ConfOK ==
    /\ logLevel \in Level /\ spin \in LevelOrUnchange /\ outputs \in SUBSET Output
    /\ maxSize \in Nat \ {0} /\ callback \in BOOLEAN /\ filters \in SUBSET Names

ControlOK ==
    /\ pc \in [Thread -> Labels]
    /\ rtn \in [Thread -> {"idle", "opened", "index", "callback"}]
    /\ mutex \in Thread \cup {NoThread}

DiskOK ==
    /\ log \in BOOLEAN /\ idx \in Nat
    /\ buf \in Seq(Record) /\ live \in Seq(Record) /\ backup \in Seq(Record)

LocalsOK ==
    /\ call \in [Thread -> Calls] /\ lvl \in [Thread -> LevelOrUnchange]
    /\ name \in [Thread -> Names] /\ out \in [Thread -> SUBSET Output]

CountersOK ==
    /\ num \in Nat /\ limit \in Nat
    /\ count \in Nat /\ uses \in Nat /\ calls \in Nat /\ crashes \in Nat

HistoryOK == ids \in Seq(Nat) /\ gone \in SUBSET Record /\ torn \in BOOLEAN

\* Every variable has its type (the members of Logger and the locals of append,
\* reset and shrinkToFit); in particular logLevel stays in Min..Max under
\* setLogLevel and toggleLogLevel, and maxSize never falls to 0.
TypeOK == ConfOK /\ ControlOK /\ DiskOK /\ LocalsOK /\ CountersOK /\ HistoryOK

\* writemutex is held exactly by the thread inside one of the locked sections of
\* append, reset and shrinkToFit: every return path gives it back, and two
\* threads are never in such sections together.
LockInv == \A t \in Thread : pc[t] \in Critical <=> mutex = t

\* stdio holds records only of an open log, and a rotation or a reset finds the
\* stream in the state it left it in: nobody reopens, closes or appends to the
\* log between two steps of shrinkToFit or of reset.
StreamInv ==
    /\ buf # <<>> => log
    /\ \A t \in Thread :
         /\ pc[t] \in {"open", "reopen"} => ~log
         /\ pc[t] \in {"remove", "copy", "retire"} => log /\ buf = <<>>

Increasing(s) == \A i, j \in DOMAIN s : i < j => s[i] < s[j]
Prefix(s, t) == Len(s) <= Len(t) /\ \A i \in DOMAIN s : s[i] = t[i]

\* The file and its backup hold records in the order they were written, and the
\* backup ends before the live log begins, unless the log could not be started
\* again after the copy and both begin alike.
DiskOrder ==
    LET stream == live \o buf
    IN  /\ Increasing(stream)
        /\ Increasing(backup)
        /\ \/ Prefix(backup, live)
           \/ \A n \in Elems(backup), m \in Elems(stream) : n < m

\* When shrinkToFit is about to drop the log ("wb"), the backup is an exact copy
\* of the part it meant to keep, unless a write of the copy reported a failure.
RotationKeeps ==
    \A t \in Thread :
        pc[t] \in {"retire", "reopen"} /\ ~torn => backup = SubSeq(live, 1, limit)

NoLossStep ==
    \A n \in Elems(live) \cup Elems(buf) :
        \/ n \in Elems(live') \cup Elems(buf') \cup Elems(backup') \cup gone'
        \/ \E t \in Thread : pc[t] = "reopen" /\ (torn \/ limit < Len(live))

\* A record leaves the live log only into the backup, through reset(true) or a
\* crash, or in a rotation that was cut short or that copied fewer records than
\* the log has.
NoRecordLost == [][NoLossStep]_vars

\* The ids of the lines of one process never go down in the file: the id is
\* taken inside the lock, whatever other threads do to kLogIdx.
LineIdsOrdered == \A i, j \in DOMAIN ids : i < j => ids[i] <= ids[j]

\* The sequence number that hasIdx prints identifies a line of the process.
LineIdsUnique == \A i, j \in DOMAIN ids : ids[i] = ids[j] => i = j

\* "If not Unchange, will be use once": a level handed to getLogger decides about
\* one append at most.
SpinUsedOnce == uses <= 1

\* Threads that read the level before any of them has cleared it all use it, but
\* each of them once.
SpinUsedOncePerThread == uses <= Cardinality(Thread)

Stored == Elems(backup) \cup Elems(live) \cup Elems(buf)

OnDisk == Elems(backup) \cup Elems(live)

Store == INSTANCE RecordStore
         WITH written <- count, stored <- Stored, durable <- OnDisk

\* The Logger is the store of RecordStore, through all its threads, rotations,
\* resets, failures and crashes: records enter one by one and in order, a record
\* that left the files does not come back, the files forget only their oldest or
\* their newest records, and a crash takes exactly those that stdio still held.
StoresRecords == Store!Spec

\* What is kept of the log has no hole: a record that is gone, and that neither
\* reset(true) nor a crash took, is older than every record that is kept.
NoGap ==
    \A n \in (1 .. count) \ (Stored \cup gone) : \A m \in Stored : n < m

\* The log outgrows half of maxSize by no more than the records of one shrink
\* interval and those stdio has not written when the size is taken.  A restart
\* sets kLogIdx back, so each one may add an interval: reset opens the old file
\* without looking at its size.
SizeBounded ==
    Len(live) + Len(buf) <=
        maxSize \div 2 + (crashes + 1) * ShrinkInterval + FlushInterval - 1

\* A crash costs less than one flush interval of records.
UnflushedBounded == Len(buf) < FlushInterval

\* "save old file last": when shrinkToFit is about to drop the log, the newest
\* record of the log is in the backup.
RotationKeepsNewest ==
    \A t \in Thread : pc[t] = "reopen" => live[Len(live)] \in Elems(backup)

\* Every call returns: no thread waits for ever for writemutex and no reset,
\* reopen and rotate in turn without end.
CallsReturn == \A t \in Thread : pc[t] # "idle" ~> pc[t] = "idle"

=============================================================================
