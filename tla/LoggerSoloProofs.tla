-------------------------- MODULE LoggerSoloProofs --------------------------
(***************************************************************************)
(* Proofs about the use-once level, for any finite set of threads, and of  *)
(* what a Logger promises as long as nothing disturbs it: ids that         *)
(* identify a line, a bound on what a crash costs, a bound on the log, and *)
(* no hole in what is kept.                                                *)
(*                                                                         *)
(* The last three rest on the alignment of kLogIdx with the two intervals: *)
(* one record for every number, a flush at every multiple of FlushInterval *)
(* and a look at the size at every multiple of ShrinkInterval.  Phase says *)
(* how far the records are behind at each label.                           *)
(***************************************************************************)
EXTENDS LoggerStoreProofs, FiniteSetTheorems

\* Nobody else calls the Logger.
Single == \E t : Thread = {t}

\* Nothing but append(name, ...) moves kLogIdx or writes, and it writes to the file.
Aligned ==
    /\ Ops \cap {"raw", "comma", "otherLogger"} = {}
    /\ \A o \in OutputArgs : "File" \in o

\* A rotation that is due takes place: no system call it needs fails, and the size
\* stays what it was.
Rotates ==
    /\ Faults \cap {"stat", "open", "mmap", "fwrite", "fopen"} = {}
    /\ "setMaxSize" \notin Ops

\* A rotation that takes place keeps the whole log: no copy is cut short, and
\* maxSize leaves room for what the log can outgrow its half by.
CopiesWhole ==
    /\ "write" \notin Faults /\ "negative" \notin WriteCodes
    /\ DefaultLogSize >=
         2 * ((MaxCrashes + 1) * ShrinkInterval + FlushInterval - 1)

-----------------------------------------------------------------------------
(* The invariants. *)

\* Where a thread that has read the level has not cleared it yet.
Holders == {t \in Thread : pc[t] = "spin"}

SpinInv ==
    /\ spin # Unchange => uses <= Cardinality(Holders)
    /\ uses <= Cardinality(Thread)

\* Every id printed so far is older than the one that is next.
IdsBelow(n) == \A i \in DOMAIN ids : ids[i] < n

UniqueInv ==
    /\ \A i, j \in DOMAIN ids : i < j => ids[i] < ids[j]
    /\ IdsBelow(idx + 1)
    /\ \A t \in Thread : /\ pc[t] = "lock" => IdsBelow(idx)
                         /\ pc[t] = "write" => IdsBelow(num) /\ num <= idx

Rotating == {"remove", "copy", "retire", "reopen"}
Resetting == {"reset", "close", "open", "finish"}

\* A record is on its way, with the outputs its append has read.
Carries(t) ==
    \/ pc[t] \in {"configure", "check", "index", "lock", "write"}
    \/ pc[t] \in Resetting \cup {"shrink"} \cup Rotating
       /\ rtn[t] \in {"opened", "index"}

\* What is written goes to the file, by append(name, ...) alone.
FileInv ==
    /\ "File" \in outputs
    /\ \A t \in Thread : /\ pc[t] # "raw" /\ call[t] \notin Raw
                         /\ Carries(t) => "File" \in out[t]

\* The number of the record on its way has been counted already.
Counted == {"lock", "write"}

\* How many records may be behind a multiple of n.
Phase(t, n) == IF pc[t] \in Counted THEN (idx - 1) % n ELSE idx % n

BufInv ==
    \A t \in Thread :
        /\ pc[t] \in Counted => idx > 0
        /\ IF pc[t] \in {"reset", "close", "finish"} THEN Len(buf) < FlushInterval
           ELSE Len(buf) <= Phase(t, FlushInterval)

\* Where the stream is open, or is not needed.
OpenInv ==
    \A t \in Thread :
        /\ pc[t] \in Counted \cup {"index", "after"} => log
        /\ pc[t] = "shrink" /\ rtn[t] # "idle" => log
        /\ pc[t] = "finish" => rtn[t] = "idle"
        /\ pc[t] \in Resetting => rtn[t] \in {"idle", "opened"}

\* What the log may have before the records of the current interval.
Base == maxSize \div 2 + crashes * ShrinkInterval + FlushInterval - 1

\* A look at the size is due, or a rotation is under way.
Late(t) ==
    \/ pc[t] = "after" /\ ShrinkDue
    \/ pc[t] = "shrink" /\ rtn[t] = "callback"
    \/ pc[t] \in Rotating

Size == Len(live) + Len(buf)

SizeInv ==
    /\ maxSize = DefaultLogSize /\ crashes <= MaxCrashes
    /\ \A t \in Thread :
         Size <= Base + (IF Late(t) THEN ShrinkInterval ELSE Phase(t, ShrinkInterval))

\* The copy is the whole log.
WholeInv ==
    /\ ~torn
    /\ \A t \in Thread : pc[t] \in {"copy", "retire", "reopen"} => limit = Len(live)

-----------------------------------------------------------------------------
(* The use-once level. *)

LEMMA HoldersFinite ==
  ASSUME NEW S \in SUBSET Thread
  PROVE  IsFiniteSet(S) /\ Cardinality(S) \in Nat /\ Cardinality(S) <= Cardinality(Thread)
         /\ Cardinality(Thread) \in Nat
  BY ThreadAssumption, FS_Subset, FS_CardinalityType

\* Three steps touch the level, the count of its uses or the threads that hold it.
LEMMA SpinFrame ==
  ASSUME ControlInv, NEW t \in Thread, Start(t) \/ Continue(t),
         ~GetLogger(t), ~ReadSpin(t), ~ClearSpin(t)
  PROVE  UNCHANGED <<spin, uses>> /\ Holders' = Holders
<1> USE DEF Go, Enter, Return, ControlInv, ControlOK, conf
<1>1. UNCHANGED <<spin, uses>> /\ \A s \in Thread : pc'[s] = "spin" <=> pc[s] = "spin"
  <2>1. CASE Start(t)
    BY <2>1 DEF Start, Configure, SetLogLevel, ToggleRead, SetOutputs, SetMaxSize,
       SetAppendCallback, ChangeFilters, OtherLogger, BeginAppend, BeginReset, BeginFinish,
       BeginShrink, Begin, locals
  <2>2. CASE \/ ToggleWrite(t) \/ GetLoggerOutputs(t)
             \/ CheckLevel(t) \/ SnapshotOutputs(t) \/ CheckLog(t) \/ IncrementIdx(t)
             \/ AfterAppend(t)
    BY <2>2 DEF ToggleWrite, GetLoggerOutputs, CheckLevel, SnapshotOutputs, CheckLog,
       IncrementIdx, AfterAppend
  <2>3. CASE \/ AcquireAppend(t) \/ WriteAppend(t) \/ RawAppend(t) \/ ReadCallback(t)
             \/ CheckFilter(t) \/ InvokeCallback(t) \/ ReadOutputs(t)
    BY <2>3 DEF AcquireAppend, WriteAppend, RawAppend, ReadCallback, CheckFilter,
       InvokeCallback, ReadOutputs
  <2>4. CASE Finish(t) \/ CloseLog(t) \/ OpenLog(t)
    BY <2>4 DEF Finish, CloseLog, OpenLog, Returned
  <2>5. CASE \/ SkipShrink(t) \/ StartShrink(t) \/ OpenReadFails(t) \/ CreateBackup(t)
             \/ CopyChunk(t) \/ CopyFails(t) \/ MapFails(t) \/ RetireLog(t) \/ ReopenLog(t)
    BY <2>5 DEF SkipShrink, StartShrink, OpenReadFails, CreateBackup, CopyChunk, CopyFails,
       MapFails, RetireLog, ReopenLog
  <2> QED
    BY <2>1, <2>2, <2>3, <2>4, <2>5 DEF Continue
<1> QED
  BY <1>1 DEF Holders

LEMMA SpinStep ==
  ASSUME ControlInv, CountersOK, SpinInv, [Next]_vars
  PROVE  SpinInv'
<1> USE DEF SpinInv
<1>1. ASSUME NEW t \in Thread, GetLogger(t) PROVE SpinInv'
  <2>1. \A s \in Thread : pc'[s] = "spin" <=> pc[s] = "spin"
    BY <1>1 DEF GetLogger, Begin, Go, ControlInv, ControlOK
  <2>2. Holders' = Holders
    BY <2>1 DEF Holders
  <2>3. \/ spin' = spin /\ uses' = uses
        \/ uses' = 0
    BY <1>1 DEF GetLogger
  <2>4. Cardinality(Holders) \in Nat /\ Cardinality(Thread) \in Nat
    BY HoldersFinite DEF Holders
  <2> QED
    BY <2>2, <2>3, <2>4
<1>2. ASSUME NEW t \in Thread, ReadSpin(t) PROVE SpinInv'
  <2>1. CASE spin = Unchange
    BY <1>2, <2>1 DEF ReadSpin, conf
  <2>2. CASE spin # Unchange
    <3>1. /\ pc[t] = "gate" /\ pc'[t] = "spin" /\ uses' = uses + 1
          /\ \A s \in Thread \ {t} : pc'[s] = pc[s]
      BY <1>2, <2>2 DEF ReadSpin, Go, ControlInv, ControlOK
    <3>2. Holders' = Holders \cup {t} /\ t \notin Holders
      BY <3>1 DEF Holders
    <3>3. /\ IsFiniteSet(Holders) /\ Cardinality(Holders) \in Nat
          /\ Cardinality(Holders') <= Cardinality(Thread) /\ Cardinality(Thread) \in Nat
          /\ Cardinality(Holders') \in Nat
      BY HoldersFinite DEF Holders
    <3>4. Cardinality(Holders') = Cardinality(Holders) + 1
      BY <3>2, <3>3, FS_AddElement
    <3> QED
      BY <2>2, <3>1, <3>3, <3>4 DEF CountersOK
  <2> QED
    BY <2>1, <2>2
<1>3. ASSUME NEW t \in Thread, ClearSpin(t) PROVE SpinInv'
  BY <1>3 DEF ClearSpin
<1>4. ASSUME NEW t \in Thread, Start(t) \/ Continue(t),
             ~GetLogger(t), ~ReadSpin(t), ~ClearSpin(t)
      PROVE  SpinInv'
  BY <1>4, SpinFrame
<1>5. CASE Crash
  <2>1. uses' = 0 /\ Cardinality(Holders') \in Nat /\ Cardinality(Thread) \in Nat
    BY <1>5, HoldersFinite DEF Crash, Holders
  <2> QED
    BY <2>1
<1>6. CASE UNCHANGED vars
  BY <1>6 DEF vars, conf, Holders
<1> QED
  BY <1>1, <1>2, <1>3, <1>4, <1>5, <1>6 DEF Next, Done

LEMMA SpinInvariance == Spec => []SpinInv
<1>1. Init => SpinInv
  BY HoldersFinite DEF Init, Configured, SpinInv
<1>2. IInv /\ SpinInv /\ [Next]_vars => SpinInv'
  BY SpinStep DEF IInv
<1> QED
  BY <1>1, <1>2, Invariance, PTL DEF Spec

\* However many threads share the Logger and whenever a level is handed to it, no
\* more appends use that level than there are threads.
THEOREM SpinCorrect == Spec => []SpinUsedOncePerThread
<1>1. SpinInv => SpinUsedOncePerThread
  BY DEF SpinInv, SpinUsedOncePerThread
<1> QED
  BY <1>1, SpinInvariance, PTL

\* A level handed to getLogger decides about one append at most when one thread
\* uses the Logger.
THEOREM SpinOnceCorrect ==
  ASSUME Single
  PROVE  Spec => []SpinUsedOnce
<1>1. Cardinality(Thread) = 1
  BY FS_Singleton DEF Single
<1>2. SpinUsedOncePerThread => SpinUsedOnce
  BY <1>1 DEF SpinUsedOncePerThread, SpinUsedOnce
<1> QED
  BY <1>2, SpinCorrect, PTL

-----------------------------------------------------------------------------
(* The ids of one thread. *)

LEMMA Only ==
  ASSUME Single, NEW s \in Thread, NEW t \in Thread
  PROVE  s = t
  BY DEF Single

\* The counter moves before the lock of append is asked for.
LEMMA BeforeLock ==
  ASSUME ControlInv, NEW t \in Thread, Start(t) \/ Continue(t), ~IncrementIdx(t)
  PROVE  pc'[t] # "lock"
<1> USE DEF Go, Enter, Return, ControlInv, ControlOK
<1>1. CASE Start(t)
  BY <1>1 DEF Start, Configure, SetLogLevel, ToggleRead, GetLogger, SetOutputs, SetMaxSize,
     SetAppendCallback, ChangeFilters, OtherLogger, BeginAppend, BeginReset, BeginFinish,
     BeginShrink, Begin, locals
<1>2. CASE \/ ToggleWrite(t) \/ GetLoggerOutputs(t) \/ ReadSpin(t) \/ ClearSpin(t)
           \/ CheckLevel(t) \/ SnapshotOutputs(t) \/ CheckLog(t) \/ AcquireAppend(t)
           \/ AfterAppend(t)
  BY <1>2 DEF ToggleWrite, GetLoggerOutputs, ReadSpin, ClearSpin, CheckLevel,
     SnapshotOutputs, CheckLog, AcquireAppend, AfterAppend
<1>3. CASE \/ WriteAppend(t) \/ RawAppend(t) \/ ReadCallback(t) \/ CheckFilter(t)
           \/ InvokeCallback(t) \/ ReadOutputs(t)
  BY <1>3 DEF WriteAppend, RawAppend, ReadCallback, CheckFilter, InvokeCallback,
     ReadOutputs
<1>4. CASE Finish(t) \/ CloseLog(t) \/ OpenLog(t)
  BY <1>4 DEF Finish, CloseLog, OpenLog, Returned
<1>5. CASE \/ SkipShrink(t) \/ StartShrink(t) \/ OpenReadFails(t) \/ CreateBackup(t)
           \/ CopyChunk(t) \/ CopyFails(t) \/ MapFails(t) \/ RetireLog(t) \/ ReopenLog(t)
  BY <1>5 DEF SkipShrink, StartShrink, OpenReadFails, CreateBackup, CopyChunk, CopyFails,
     MapFails, RetireLog, ReopenLog
<1> QED
  BY <1>1, <1>2, <1>3, <1>4, <1>5 DEF Continue

LEMMA UniqueStep ==
  ASSUME Single, IInv, IInv', UniqueInv, [Next]_vars
  PROVE  UniqueInv'
<1>1. /\ CountersOK /\ DiskOK /\ ControlInv /\ ControlOK
      /\ num \in Nat /\ idx \in Nat /\ idx' \in Nat /\ ids \in Seq(Nat)
  BY DEF IInv, RotationInv, DiskOK, CountersOK, HistoryOK, ControlInv
<1>2. \A i \in DOMAIN ids : ids[i] \in Nat
  BY <1>1, ElementOfSeq
<1>3. ASSUME NEW t \in Thread, IncrementIdx(t) PROVE UniqueInv'
  <2>1. idx' = idx + 1 /\ ids' = ids /\ pc'[t] = "lock"
    BY <1>1, <1>3 DEF IncrementIdx, hist, Go, ControlOK
  <2>2. \A s \in Thread : pc'[s] = "lock"
    BY <2>1, Only
  <2> QED
    BY <1>1, <1>2, <2>1, <2>2 DEF UniqueInv, IdsBelow
<1>4. ASSUME NEW t \in Thread, AcquireAppend(t) PROVE UniqueInv'
  <2>1. /\ num' = idx /\ idx' = idx /\ ids' = ids
        /\ pc[t] = "lock" /\ pc'[t] = "write"
    BY <1>1, <1>4 DEF AcquireAppend, hist, Go, ControlOK
  <2>2. \A s \in Thread : pc'[s] = "write"
    BY <2>1, Only
  <2> QED
    BY <1>1, <2>1, <2>2 DEF UniqueInv, IdsBelow
<1>5. ASSUME NEW t \in Thread, WriteAppend(t) PROVE UniqueInv'
  <2>1. /\ idx' = idx /\ ids' \in {ids, Append(ids, num)}
        /\ pc[t] = "write" /\ pc'[t] \notin {"lock", "write"}
    BY <1>1, <1>5 DEF WriteAppend, hist, Go, Enter, ControlOK
  <2>2. \A s \in Thread : pc'[s] \notin {"lock", "write"}
    BY <2>1, Only
  <2>3. IdsBelow(num) /\ num <= idx
    BY <2>1 DEF UniqueInv
  <2>4. CASE ids' = ids
    BY <2>1, <2>2, <2>4 DEF UniqueInv, IdsBelow
  <2>5. CASE ids' = Append(ids, num)
    <3>1. /\ Len(ids) \in Nat /\ DOMAIN ids = 1 .. Len(ids)
          /\ DOMAIN ids' = 1 .. Len(ids) + 1
          /\ \A i \in 1 .. Len(ids) : ids'[i] = ids[i]
          /\ ids'[Len(ids) + 1] = num
      BY <1>1, <2>5, LenProperties, AppendProperties
    <3>2. \A i, j \in DOMAIN ids' : i < j => ids'[i] < ids'[j]
      BY <1>1, <1>2, <2>3, <3>1 DEF UniqueInv, IdsBelow
    <3>3. \A i \in DOMAIN ids' : ids'[i] < idx' + 1
      BY <1>1, <1>2, <2>1, <2>3, <3>1 DEF UniqueInv, IdsBelow
    <3> QED
      BY <2>2, <3>2, <3>3 DEF UniqueInv, IdsBelow
  <2> QED
    BY <2>1, <2>4, <2>5
<1>6. ASSUME NEW t \in Thread, Start(t) \/ Continue(t),
             ~IncrementIdx(t), ~AcquireAppend(t), ~WriteAppend(t)
      PROVE  UniqueInv'
  <2>1. /\ UNCHANGED <<ids, num>> /\ idx' >= idx /\ pc'[t] # "lock"
        /\ pc'[t] = "write" => pc[t] = "write"
    BY <1>1, <1>6, IdsFrame, BeforeLock
  <2>2. \A s \in Thread : pc'[s] # "lock" /\ (pc'[s] = "write" => pc[s] = "write")
    BY <2>1, Only
  <2> QED
    BY <1>1, <1>2, <2>1, <2>2 DEF UniqueInv, IdsBelow
<1>7. CASE Crash
  <2>1. ids' = <<>> /\ \A t \in Thread : pc'[t] = "idle"
    BY <1>7 DEF Crash
  <2> QED
    BY <2>1 DEF UniqueInv, IdsBelow
<1>8. CASE UNCHANGED vars
  BY <1>8 DEF vars, hist, UniqueInv, IdsBelow
<1> QED
  BY <1>3, <1>4, <1>5, <1>6, <1>7, <1>8 DEF Next, Done

\* One thread never prints a number twice in the life of a process, whatever other
\* Loggers do to the counter and whatever fails.
THEOREM UniqueCorrect ==
  ASSUME Single
  PROVE  Spec => []LineIdsUnique
<1>1. Init => UniqueInv
  BY DEF Init, UniqueInv, IdsBelow
<1>2. IInv /\ IInv' /\ UniqueInv /\ [Next]_vars => UniqueInv'
  BY UniqueStep
<1>3. IInv /\ UniqueInv => LineIdsUnique
  <2> SUFFICES ASSUME IInv, UniqueInv, NEW i \in DOMAIN ids, NEW j \in DOMAIN ids,
                      ids[i] = ids[j]
               PROVE  i = j
    BY DEF LineIdsUnique
  <2>1. ids \in Seq(Nat)
    BY DEF IInv, HistoryOK
  <2>2. i \in Nat /\ j \in Nat /\ ids[i] \in Nat /\ ids[j] \in Nat
    BY <2>1, LenProperties, ElementOfSeq
  <2> QED
    BY <2>2 DEF UniqueInv
<1> QED
  BY <1>1, <1>2, <1>3, Invariance, PTL DEF Spec

-----------------------------------------------------------------------------
(* Everything goes to the file. *)

LEMMA FileInit ==
  ASSUME Aligned, Init
  PROVE  FileInv
<1>1. "File" \in outputs
  BY DEF Init, Configured, StartOutputs, Aligned
<1>2. \A t \in Thread : pc[t] = "idle" /\ call[t] = "append"
  BY DEF Init
<1> QED
  BY <1>1, <1>2 DEF FileInv, Carries, Raw, Resetting, Rotating

LEMMA FileConfigure ==
  ASSUME Aligned, ControlOK, LocalsOK, FileInv, NEW t \in Thread,
         \/ Configure(t) \/ ToggleWrite(t) \/ GetLoggerOutputs(t)
  PROVE  FileInv'
<1> USE DEF Aligned, ControlOK, LocalsOK, FileInv, Carries, Resetting, Rotating, Go
<1>1. CASE SetLogLevel(t) \/ SetMaxSize(t) \/ SetAppendCallback(t)
           \/ ChangeFilters(t) \/ OtherLogger(t)
  BY <1>1, SMT DEF SetLogLevel, SetMaxSize, SetAppendCallback, ChangeFilters, OtherLogger,
     conf, locals
<1>2. CASE SetOutputs(t)
  BY <1>2, SMT DEF SetOutputs, locals
<1>3. CASE ToggleRead(t) \/ GetLogger(t)
  BY <1>3, SMT DEF ToggleRead, GetLogger, Begin, conf
<1>4. CASE ToggleWrite(t) \/ GetLoggerOutputs(t)
  BY <1>4, SMT DEF ToggleWrite, GetLoggerOutputs
<1> QED
  BY <1>1, <1>2, <1>3, <1>4 DEF Configure

LEMMA FileAppend ==
  ASSUME Aligned, ControlOK, LocalsOK, FileInv, NEW t \in Thread,
         \/ BeginAppend(t) \/ BeginReset(t) \/ BeginFinish(t) \/ BeginShrink(t)
         \/ ReadSpin(t) \/ ClearSpin(t) \/ CheckLevel(t) \/ SnapshotOutputs(t)
         \/ CheckLog(t) \/ IncrementIdx(t) \/ AcquireAppend(t) \/ WriteAppend(t)
         \/ RawAppend(t) \/ AfterAppend(t) \/ ReadCallback(t) \/ CheckFilter(t)
         \/ InvokeCallback(t)
  PROVE  FileInv'
<1> USE DEF Aligned, ControlOK, LocalsOK, FileInv, Carries, Raw, Resetting, Rotating,
        Go, Enter, conf, locals
<1>1. CASE BeginAppend(t)
  BY <1>1, SMT DEF BeginAppend, Begin
<1>2. CASE BeginReset(t) \/ BeginFinish(t) \/ BeginShrink(t)
  BY <1>2, SMT DEF BeginReset, BeginFinish, BeginShrink, Begin
<1>3. CASE ReadSpin(t) \/ ClearSpin(t) \/ CheckLevel(t)
  BY <1>3, SMT DEF ReadSpin, ClearSpin, CheckLevel
<1>4. CASE SnapshotOutputs(t)
  BY <1>4, SMT DEF SnapshotOutputs
<1>5. CASE CheckLog(t) \/ IncrementIdx(t) \/ AcquireAppend(t)
  BY <1>5, SMT DEF CheckLog, IncrementIdx, AcquireAppend
<1>6. CASE WriteAppend(t) \/ RawAppend(t)
  <2>1. /\ pc' [t] \in {"after", "callback", "idle"} \/ (pc'[t] = "reset" /\ rtn'[t] = "callback")
        /\ \A s \in Thread \ {t} : pc'[s] = pc[s] /\ rtn'[s] = rtn[s] /\ out'[s] = out[s]
        /\ UNCHANGED <<call, outputs>>
    BY <1>6 DEF WriteAppend, RawAppend
  <2> QED
    BY <2>1, SMT
<1>7. CASE AfterAppend(t) \/ ReadCallback(t) \/ CheckFilter(t) \/ InvokeCallback(t)
  BY <1>7, SMT DEF AfterAppend, ReadCallback, CheckFilter, InvokeCallback
<1> QED
  BY <1>1, <1>2, <1>3, <1>4, <1>5, <1>6, <1>7

LEMMA FileRotate ==
  ASSUME Aligned, ControlOK, LocalsOK, FileInv, NEW t \in Thread,
         \/ ReadOutputs(t) \/ Finish(t) \/ CloseLog(t) \/ OpenLog(t)
         \/ SkipShrink(t) \/ StartShrink(t) \/ OpenReadFails(t) \/ CreateBackup(t)
         \/ CopyChunk(t) \/ CopyFails(t) \/ MapFails(t) \/ RetireLog(t) \/ ReopenLog(t)
  PROVE  FileInv'
<1> USE DEF Aligned, ControlOK, LocalsOK, FileInv, Carries, Raw, Resetting, Rotating,
        Go, Enter, Return, conf, locals
<1>1. CASE ReadOutputs(t) \/ CloseLog(t)
  BY <1>1, SMT DEF ReadOutputs, CloseLog
<1>2. CASE Finish(t)
  BY <1>2, SMT DEF Finish, Returned
<1>3. CASE OpenLog(t)
  BY <1>3, SMT DEF OpenLog, Returned
<1>4. CASE SkipShrink(t) \/ StartShrink(t)
  BY <1>4, SMT DEF SkipShrink, StartShrink
<1>5. CASE OpenReadFails(t) \/ CreateBackup(t)
  BY <1>5, SMT DEF OpenReadFails, CreateBackup
<1>6. CASE CopyChunk(t) \/ CopyFails(t)
  BY <1>6, SMT DEF CopyChunk, CopyFails
<1>7. CASE MapFails(t) \/ RetireLog(t) \/ ReopenLog(t)
  BY <1>7, SMT DEF MapFails, RetireLog, ReopenLog
<1> QED
  BY <1>1, <1>2, <1>3, <1>4, <1>5, <1>6, <1>7

LEMMA FileStep ==
  ASSUME Aligned, IInv, FileInv, [Next]_vars
  PROVE  FileInv'
<1>1. ControlOK /\ LocalsOK
  BY DEF IInv, ControlInv
<1>2. ASSUME NEW t \in Thread, Start(t) \/ Continue(t) PROVE FileInv'
  BY <1>1, <1>2, FileConfigure, FileAppend, FileRotate DEF Start, Continue
<1>3. CASE Crash
  <2>1. "File" \in outputs' /\ \A t \in Thread : pc'[t] = "idle" /\ call'[t] = "append"
    BY <1>3 DEF Crash, StartOutputs, Aligned
  <2> QED
    BY <2>1 DEF FileInv, Carries, Raw, Resetting, Rotating
<1>4. CASE UNCHANGED vars
  BY <1>4 DEF vars, conf, locals, FileInv, Carries
<1> QED
  BY <1>2, <1>3, <1>4 DEF Next, Done

-----------------------------------------------------------------------------
(* What waits in the stream. *)

LEMMA Remainder ==
  ASSUME NEW a \in Nat, NEW n \in Nat \ {0}
  PROVE  a % n \in 0 .. n - 1 /\ a \div n \in Nat /\ a = n * (a \div n) + (a % n)
OBVIOUS

LEMMA RemainderOf ==
  ASSUME NEW q \in Nat, NEW n \in Nat \ {0}, NEW r \in 0 .. n - 1
  PROVE  (n * q + r) % n = r
OBVIOUS

LEMMA TimesNext ==
  ASSUME NEW q \in Nat, NEW n \in Nat
  PROVE  n * (q + 1) = n * q + n
OBVIOUS

\* The counter reaches a multiple of an interval once in an interval.
LEMMA NextRemainder ==
  ASSUME NEW a \in Nat, NEW n \in Nat \ {0}
  PROVE  (a + 1) % n = IF a % n = n - 1 THEN 0 ELSE (a % n) + 1
<1> DEFINE q == a \div n
           r == a % n
<1>1. q \in Nat /\ r \in 0 .. n - 1 /\ a = n * q + r
  BY Remainder
<1> HIDE DEF q, r
<1>2. CASE r = n - 1
  <2>1. a + 1 = n * (q + 1) + 0
    BY <1>1, <1>2, TimesNext
  <2>2. q + 1 \in Nat /\ 0 \in 0 .. n - 1
    BY <1>1
  <2>3. (n * (q + 1) + 0) % n = 0
    BY <2>2, RemainderOf
  <2> QED
    BY <1>2, <2>1, <2>3 DEF r
<1>3. CASE r # n - 1
  <2>1. r + 1 \in 0 .. n - 1
    BY <1>1, <1>3
  <2>2. (n * q + (r + 1)) % n = r + 1
    BY <1>1, <2>1, RemainderOf
  <2>3. a + 1 = n * q + (r + 1)
    <3>1. n * q \in Nat
      BY <1>1
    <3> QED
      BY <1>1, <3>1
  <2> QED
    BY <1>3, <2>2, <2>3 DEF r
<1> QED
  BY <1>2, <1>3

\* The label at which reset, or finish, has not yet closed the stream.
Closing == {"reset", "close", "finish"}

\* The steps that neither count nor write.
LEMMA BufFrame ==
  ASSUME Aligned, ControlInv, FileInv, NEW t \in Thread, Start(t) \/ Continue(t),
         ~IncrementIdx(t), ~WriteAppend(t), ~Finish(t), ~CloseLog(t), ~StartShrink(t)
  PROVE  /\ UNCHANGED <<idx, buf>>
         /\ pc'[t] \in Counted <=> pc[t] \in Counted
         /\ pc[t] \in Closing => pc'[t] \in Closing
<1> USE DEF Go, Enter, Return, ControlInv, ControlOK, disk, Counted, Closing
<1>1. CASE Start(t)
  BY <1>1 DEF Start, Configure, SetLogLevel, ToggleRead, GetLogger, SetOutputs, SetMaxSize,
     SetAppendCallback, ChangeFilters, OtherLogger, BeginAppend, BeginReset, BeginFinish,
     BeginShrink, Begin, locals, Aligned
<1>2. CASE \/ ToggleWrite(t) \/ GetLoggerOutputs(t) \/ ReadSpin(t) \/ ClearSpin(t)
           \/ CheckLevel(t) \/ SnapshotOutputs(t) \/ CheckLog(t) \/ AcquireAppend(t)
           \/ AfterAppend(t)
  BY <1>2 DEF ToggleWrite, GetLoggerOutputs, ReadSpin, ClearSpin, CheckLevel,
     SnapshotOutputs, CheckLog, AcquireAppend, AfterAppend
<1>3. CASE \/ RawAppend(t) \/ ReadCallback(t) \/ CheckFilter(t) \/ InvokeCallback(t)
           \/ ReadOutputs(t)
  BY <1>3 DEF RawAppend, ReadCallback, CheckFilter, InvokeCallback, ReadOutputs, FileInv
<1>4. CASE OpenLog(t)
  BY <1>4 DEF OpenLog, Returned
<1>5. CASE \/ SkipShrink(t) \/ OpenReadFails(t) \/ CreateBackup(t)
           \/ CopyChunk(t) \/ CopyFails(t) \/ MapFails(t) \/ RetireLog(t) \/ ReopenLog(t)
  BY <1>5 DEF SkipShrink, OpenReadFails, CreateBackup, CopyChunk, CopyFails, MapFails,
     RetireLog, ReopenLog
<1> QED
  BY <1>1, <1>2, <1>3, <1>4, <1>5 DEF Continue

\* The record on its way is written, and then what is due is flushed.
LEMMA BufWrite ==
  ASSUME IInv, FileInv, BufInv, NEW t \in Thread, WriteAppend(t)
  PROVE  /\ idx' = idx /\ pc'[t] \in {"after", "reset"}
         /\ Len(buf') < FlushInterval
         /\ pc'[t] = "after" => Len(buf') <= idx % FlushInterval
<1>1. /\ buf \in Seq(Record) /\ idx \in Nat /\ count + 1 \in Record
      /\ buf # <<>> => log
      /\ pc \in [Thread -> Labels] /\ FlushInterval \in Nat \ {0}
  BY IntervalAssumption DEF IInv, RotationInv, StreamInv, DiskOK, ControlInv, ControlOK,
     CountersOK, Record
<1>2. pc[t] = "write" /\ idx' = idx
  BY DEF WriteAppend
<1>3. "File" \in out[t]
  BY <1>2 DEF FileInv, Carries
<1>4. idx - 1 \in Nat /\ Len(buf) \in Nat /\ Len(buf) <= (idx - 1) % FlushInterval
  BY <1>1, <1>2, LenProperties DEF BufInv, Counted, Phase
<1> DEFINE r == (idx - 1) % FlushInterval
<1>5. /\ r \in 0 .. FlushInterval - 1
      /\ idx % FlushInterval = IF r = FlushInterval - 1 THEN 0 ELSE r + 1
  <2>1. ((idx - 1) + 1) % FlushInterval = IF r = FlushInterval - 1 THEN 0 ELSE r + 1
    BY <1>1, <1>4, NextRemainder
  <2>2. (idx - 1) + 1 = idx
    BY <1>1
  <2> QED
    BY <1>1, <1>4, <2>1, <2>2, Remainder
<1>6. Len(buf) <= r
  BY <1>4
<1> HIDE DEF r
<1>7. CASE WriteRecord(FlushDue) /\ Go(t, "after")
  <2>1. pc'[t] = "after"
    BY <1>1, <1>7 DEF Go
  <2>2. CASE buf' = <<>>
    <3>1. Len(buf') = 0
      BY <2>2
    <3> QED
      BY <1>1, <1>2, <1>5, <2>1, <3>1
  <2>3. CASE ~FlushDue /\ buf' = Append(buf, count + 1)
    <3>1. Len(buf') = Len(buf) + 1
      BY <1>1, <2>3, AppendProperties
    <3>2. idx % FlushInterval # 0
      BY <2>3 DEF FlushDue
    <3> QED
      BY <1>1, <1>2, <1>4, <1>5, <1>6, <2>1, <3>1, <3>2
  <2> QED
    BY <1>7, <2>2, <2>3 DEF WriteRecord
<1>8. CASE buf' = buf /\ Enter(t, "reset", "callback")
  <2>1. pc'[t] = "reset"
    BY <1>1, <1>8 DEF Enter, Go
  <2> QED
    BY <1>1, <1>2, <1>4, <1>5, <1>6, <1>8, <2>1
<1> QED
  BY <1>3, <1>7, <1>8 DEF WriteAppend, LoseRecord, disk

LEMMA BufStep ==
  ASSUME Single, Aligned, IInv, FileInv, BufInv, [Next]_vars
  PROVE  BufInv'
<1>1. /\ ControlInv /\ ControlOK /\ buf \in Seq(Record) /\ idx \in Nat
      /\ FlushInterval \in Nat \ {0}
  BY IntervalAssumption DEF IInv, RotationInv, DiskOK, ControlInv
<1>2. Len(buf) \in Nat /\ idx % FlushInterval \in 0 .. FlushInterval - 1
  BY <1>1, LenProperties, Remainder
<1>3. ASSUME NEW t \in Thread, Start(t) \/ Continue(t) PROVE BufInv'
  <2> SUFFICES /\ pc'[t] \in Counted => idx' > 0
               /\ IF pc'[t] \in Closing THEN Len(buf') < FlushInterval
                  ELSE Len(buf') <= Phase(t, FlushInterval)'
    BY Only DEF BufInv, Closing
  <2>1. CASE IncrementIdx(t)
    <3>1. /\ idx' = idx + 1 /\ buf' = buf /\ pc[t] = "index" /\ pc'[t] = "lock"
      BY <1>1, <2>1 DEF IncrementIdx, disk, Go, ControlOK
    <3>2. Len(buf) <= idx % FlushInterval
      BY <3>1 DEF BufInv, Counted, Phase
    <3>3. idx' - 1 = idx
      BY <1>1, <3>1
    <3>4. Phase(t, FlushInterval)' = idx % FlushInterval
      BY <3>1, <3>3 DEF Phase, Counted
    <3> QED
      BY <1>1, <3>1, <3>2, <3>4 DEF Closing
  <2>2. CASE WriteAppend(t)
    BY <2>2, BufWrite DEF Counted, Closing, Phase
  <2>3. CASE Finish(t) \/ CloseLog(t) \/ StartShrink(t)
    <3>1. idx' = idx /\ Len(buf') = 0 /\ pc'[t] \notin Counted
      BY <1>1, <2>3 DEF Finish, CloseLog, StartShrink, Returned, Go, Enter, Return, Counted,
         ControlOK
    <3> QED
      BY <1>1, <1>2, <3>1 DEF Phase
  <2>4. CASE ~IncrementIdx(t) /\ ~WriteAppend(t) /\ ~Finish(t) /\ ~CloseLog(t)
             /\ ~StartShrink(t)
    <3>1. /\ idx' = idx /\ buf' = buf
          /\ pc'[t] \in Counted <=> pc[t] \in Counted
          /\ pc[t] \in Closing => pc'[t] \in Closing
      BY <1>1, <1>3, <2>4, BufFrame
    <3>2. Phase(t, FlushInterval)' = Phase(t, FlushInterval)
      BY <3>1 DEF Phase
    <3>3. /\ pc[t] \in Counted => idx > 0
          /\ pc[t] \in Closing => Len(buf) < FlushInterval
          /\ pc[t] \notin Closing => Len(buf) <= Phase(t, FlushInterval)
      BY DEF BufInv, Closing
    <3>4. CASE pc[t] \in Counted
      BY <3>1, <3>2, <3>3, <3>4 DEF Counted, Closing
    <3>5. CASE pc[t] \notin Counted
      <4>1. Len(buf) < FlushInterval
        BY <1>1, <1>2, <3>3, <3>5 DEF Phase
      <4> QED
        BY <3>1, <3>2, <3>3, <3>5, <4>1
    <3> QED
      BY <3>4, <3>5
  <2> QED
    BY <2>1, <2>2, <2>3, <2>4
<1>4. CASE Crash
  <2>1. idx' = 0 /\ Len(buf') = 0 /\ \A t \in Thread : pc'[t] = "idle"
    BY <1>4 DEF Crash
  <2>2. 0 % FlushInterval \in 0 .. FlushInterval - 1
    BY <1>1, Remainder
  <2> QED
    BY <1>1, <2>1, <2>2 DEF BufInv, Counted, Phase
<1>5. CASE UNCHANGED vars
  BY <1>5 DEF vars, disk, BufInv, Phase
<1> QED
  BY <1>3, <1>4, <1>5 DEF Next, Done

LEMMA BufInit ==
  ASSUME Init
  PROVE  BufInv
<1>1. FlushInterval \in Nat \ {0} /\ 0 \in Nat
  BY IntervalAssumption
<1>2. 0 % FlushInterval \in 0 .. FlushInterval - 1
  BY <1>1, Remainder
<1>3. idx = 0 /\ Len(buf) = 0 /\ \A t \in Thread : pc[t] = "idle"
  BY DEF Init
<1> QED
  BY <1>1, <1>2, <1>3 DEF BufInv, Counted, Phase

LEMMA BufBounded ==
  ASSUME Single, IInv, BufInv
  PROVE  UnflushedBounded
<1>1. PICK t \in Thread : TRUE
  BY DEF Single
<1>2. /\ FlushInterval \in Nat \ {0} /\ idx \in Nat /\ Len(buf) \in Nat
  BY IntervalAssumption, LenProperties DEF IInv, RotationInv, DiskOK
<1>3. CASE pc[t] \in {"reset", "close", "finish"}
  BY <1>3 DEF BufInv, UnflushedBounded
<1>4. CASE pc[t] \in Counted
  <2>1. idx - 1 \in Nat /\ Len(buf) <= (idx - 1) % FlushInterval
    BY <1>2, <1>4 DEF BufInv, Counted, Phase
  <2>2. (idx - 1) % FlushInterval \in 0 .. FlushInterval - 1
    BY <1>2, <2>1, Remainder
  <2> QED
    BY <1>2, <2>1, <2>2 DEF UnflushedBounded
<1>5. CASE pc[t] \notin {"reset", "close", "finish"} \cup Counted
  <2>1. Len(buf) <= idx % FlushInterval
    BY <1>5 DEF BufInv, Phase
  <2>2. idx % FlushInterval \in 0 .. FlushInterval - 1
    BY <1>2, Remainder
  <2> QED
    BY <1>2, <2>1, <2>2 DEF UnflushedBounded
<1> QED
  BY <1>3, <1>4, <1>5

LEMMA BufInvariance ==
  ASSUME Single, Aligned
  PROVE  Spec => [](IInv /\ FileInv /\ BufInv)
<1>1. Init => FileInv /\ BufInv
  BY FileInit, BufInit
<1>2. IInv /\ FileInv /\ BufInv /\ [Next]_vars => FileInv' /\ BufInv'
  BY FileStep, BufStep
<1> QED
  BY <1>1, <1>2, Invariance, PTL DEF Spec

\* When one thread logs to one file, a crash costs less than one flush interval of
\* records, whatever system call fails, in a rotation or elsewhere.
THEOREM UnflushedCorrect ==
  ASSUME Single, Aligned
  PROVE  Spec => []UnflushedBounded
<1>1. IInv /\ BufInv => UnflushedBounded
  BY BufBounded
<1> QED
  BY <1>1, BufInvariance, PTL

-----------------------------------------------------------------------------

(* The stream of a thread that nothing fails for. *)

\* The steps outside reset and rotation.
LEMMA OpenAppend ==
  ASSUME Aligned, Rotates, ControlOK, FileInv, OpenInv, NEW t \in Thread,
         \/ Configure(t) \/ BeginAppend(t) \/ BeginReset(t) \/ BeginFinish(t)
         \/ BeginShrink(t) \/ ToggleWrite(t) \/ GetLoggerOutputs(t) \/ ReadSpin(t)
         \/ ClearSpin(t) \/ CheckLevel(t) \/ SnapshotOutputs(t) \/ CheckLog(t)
         \/ IncrementIdx(t) \/ AcquireAppend(t) \/ WriteAppend(t) \/ RawAppend(t)
         \/ AfterAppend(t) \/ ReadCallback(t) \/ CheckFilter(t) \/ InvokeCallback(t)
  PROVE  OpenInv'
<1> USE DEF ControlOK, OpenInv, Counted, Resetting, Go, Enter, conf, locals
<1>1. CASE Configure(t)
  BY <1>1, SMT DEF Configure, SetLogLevel, ToggleRead, GetLogger, SetOutputs, SetMaxSize,
     SetAppendCallback, ChangeFilters, OtherLogger, Begin
<1>2. CASE BeginAppend(t) \/ BeginReset(t) \/ BeginFinish(t) \/ BeginShrink(t)
  BY <1>2, SMT DEF BeginAppend, BeginReset, BeginFinish, BeginShrink, Begin
<1>3. CASE \/ ToggleWrite(t) \/ GetLoggerOutputs(t) \/ ReadSpin(t) \/ ClearSpin(t)
           \/ CheckLevel(t) \/ SnapshotOutputs(t)
  BY <1>3, SMT DEF ToggleWrite, GetLoggerOutputs, ReadSpin, ClearSpin, CheckLevel,
     SnapshotOutputs, FileInv
<1>4. CASE CheckLog(t) \/ IncrementIdx(t) \/ AcquireAppend(t)
  BY <1>4, SMT DEF CheckLog, IncrementIdx, AcquireAppend
<1>5. CASE WriteAppend(t)
  <2>1. pc[t] = "write" /\ "File" \in out[t] /\ log /\ ~LoseRecord
    BY <1>5 DEF WriteAppend, FileInv, Carries, Rotates, LoseRecord
  <2>2. Go(t, "after") /\ UNCHANGED <<log, rtn>>
    BY <1>5, <2>1 DEF WriteAppend
  <2> QED
    BY <2>1, <2>2, SMT
<1>6. CASE RawAppend(t)
  BY <1>6 DEF RawAppend, FileInv
<1>7. CASE AfterAppend(t) \/ ReadCallback(t) \/ CheckFilter(t) \/ InvokeCallback(t)
  BY <1>7, SMT DEF AfterAppend, ReadCallback, CheckFilter, InvokeCallback
<1> QED
  BY <1>1, <1>2, <1>3, <1>4, <1>5, <1>6, <1>7

LEMMA OpenRotate ==
  ASSUME Single, Rotates, ControlOK, FileInv, OpenInv, NEW t \in Thread,
         \/ ReadOutputs(t) \/ Finish(t) \/ CloseLog(t) \/ OpenLog(t)
         \/ SkipShrink(t) \/ StartShrink(t) \/ OpenReadFails(t) \/ CreateBackup(t)
         \/ CopyChunk(t) \/ CopyFails(t) \/ MapFails(t) \/ RetireLog(t) \/ ReopenLog(t)
  PROVE  OpenInv'
<1> USE DEF Rotates, ControlOK, OpenInv, Counted, Resetting, Go, Enter, Return, conf,
        locals
<1>1. CASE ReadOutputs(t)
  BY <1>1, SMT DEF ReadOutputs, FileInv
<1>2. CASE Finish(t)
  <2>1. pc'[t] = "idle"
    BY <1>2, SMT DEF Finish, Returned
  <2> QED
    BY <2>1, Only
<1>3. CASE CloseLog(t)
  <2>1. pc'[t] = "open" /\ rtn' = rtn /\ rtn[t] \in {"idle", "opened"}
    BY <1>3, SMT DEF CloseLog
  <2> QED
    BY <2>1, Only
<1>4. CASE OpenLog(t)
  <2>1. log' = TRUE /\ Returned(t, TRUE) /\ rtn[t] \in {"idle", "opened"}
    BY <1>4 DEF OpenLog
  <2>2. pc'[t] \in {"idle", "shrink"}
    BY <2>1, SMT DEF Returned
  <2> QED
    BY <2>1, <2>2, Only
<1>5. CASE SkipShrink(t)
  BY <1>5, SMT DEF SkipShrink
<1>6. CASE StartShrink(t)
  BY <1>6, SMT DEF StartShrink
<1>7. CASE OpenReadFails(t) \/ MapFails(t)
  BY <1>7 DEF OpenReadFails, MapFails
<1>8. CASE CreateBackup(t) \/ CopyChunk(t) \/ CopyFails(t)
  BY <1>8, SMT DEF CreateBackup, CopyChunk, CopyFails
<1>9. CASE RetireLog(t)
  <2>1. pc'[t] = "reopen"
    BY <1>9, SMT DEF RetireLog
  <2> QED
    BY <2>1, Only
<1>10. CASE ReopenLog(t)
  <2>1. log' = TRUE /\ pc'[t] \in {"idle", "opened", "index", "callback"}
    BY <1>10, SMT DEF ReopenLog
  <2> QED
    BY <2>1, Only
<1> QED
  BY <1>1, <1>2, <1>3, <1>4, <1>5, <1>6, <1>7, <1>8, <1>9, <1>10

LEMMA OpenStep ==
  ASSUME Single, Aligned, Rotates, IInv, FileInv, OpenInv, [Next]_vars
  PROVE  OpenInv'
<1>1. ControlOK
  BY DEF IInv, ControlInv
<1>2. ASSUME NEW t \in Thread, Start(t) \/ Continue(t) PROVE OpenInv'
  BY <1>1, <1>2, OpenAppend, OpenRotate DEF Start, Continue
<1>3. CASE Crash
  BY <1>3 DEF Crash, OpenInv, Counted, Resetting
<1>4. CASE UNCHANGED vars
  BY <1>4 DEF vars, locals, OpenInv
<1> QED
  BY <1>2, <1>3, <1>4 DEF Next, Done

-----------------------------------------------------------------------------

(* The size of the log. *)

\* The records the current interval may have added.
Allowed(t) == IF Late(t) THEN ShrinkInterval ELSE Phase(t, ShrinkInterval)

\* The steps after which neither the size nor what is allowed is another.
LEMMA SizeFrame ==
  ASSUME Aligned, Rotates, ControlOK, FileInv, NEW t \in Thread, Start(t) \/ Continue(t),
         ~IncrementIdx(t), ~WriteAppend(t), ~Finish(t), ~CloseLog(t), ~OpenLog(t),
         ~SkipShrink(t), ~StartShrink(t), ~ReopenLog(t)
  PROVE  /\ UNCHANGED <<idx, live, buf, maxSize, crashes>>
         /\ pc'[t] \in Counted <=> pc[t] \in Counted
         /\ Late(t)' <=> Late(t)
<1> USE DEF Go, Enter, Return, ControlOK, disk, conf, bounds, Counted, Late, Rotating,
        ShrinkDue
<1>1. CASE Configure(t)
  BY <1>1, SMT DEF Configure, SetLogLevel, ToggleRead, GetLogger, SetOutputs, SetMaxSize,
     SetAppendCallback, ChangeFilters, OtherLogger, Begin, locals, Aligned, Rotates
<1>2. CASE BeginAppend(t) \/ BeginReset(t) \/ BeginFinish(t) \/ BeginShrink(t)
  BY <1>2, SMT DEF BeginAppend, BeginReset, BeginFinish, BeginShrink, Begin
<1>3. CASE \/ ToggleWrite(t) \/ GetLoggerOutputs(t) \/ ReadSpin(t) \/ ClearSpin(t)
           \/ CheckLevel(t) \/ SnapshotOutputs(t)
  BY <1>3, SMT DEF ToggleWrite, GetLoggerOutputs, ReadSpin, ClearSpin, CheckLevel,
     SnapshotOutputs, locals
<1>4. CASE \/ CheckLog(t) \/ AcquireAppend(t) \/ AfterAppend(t) \/ ReadCallback(t)
           \/ CheckFilter(t) \/ InvokeCallback(t) \/ ReadOutputs(t)
  BY <1>4, SMT DEF CheckLog, AcquireAppend, AfterAppend, ReadCallback, CheckFilter,
     InvokeCallback, ReadOutputs, locals
<1>5. CASE RawAppend(t)
  BY <1>5 DEF RawAppend, FileInv
<1>6. CASE OpenReadFails(t) \/ MapFails(t)
  BY <1>6 DEF OpenReadFails, MapFails, Rotates
<1>7. CASE CreateBackup(t) \/ CopyChunk(t) \/ CopyFails(t) \/ RetireLog(t)
  BY <1>7, SMT DEF CreateBackup, CopyChunk, CopyFails, RetireLog, locals, Rotates
<1> QED
  BY <1>1, <1>2, <1>3, <1>4, <1>5, <1>6, <1>7 DEF Start, Continue

\* What is allowed is within one interval.
LEMMA AllowedRange ==
  ASSUME DiskOK, BufInv, NEW t \in Thread
  PROVE  /\ Phase(t, ShrinkInterval) \in 0 .. ShrinkInterval - 1
         /\ Allowed(t) \in 0 .. ShrinkInterval
<1>1. idx \in Nat /\ ShrinkInterval \in Nat \ {0}
  BY IntervalAssumption DEF DiskOK
<1>2. CASE pc[t] \in Counted
  <2>1. idx - 1 \in Nat
    BY <1>1, <1>2 DEF BufInv
  <2>2. (idx - 1) % ShrinkInterval \in 0 .. ShrinkInterval - 1
    BY <1>1, <2>1, Remainder
  <2>3. Phase(t, ShrinkInterval) = (idx - 1) % ShrinkInterval
    BY <1>2 DEF Phase
  <2> HIDE DEF Phase
  <2> QED
    BY <1>1, <2>2, <2>3 DEF Allowed
<1>3. CASE pc[t] \notin Counted
  <2>1. idx % ShrinkInterval \in 0 .. ShrinkInterval - 1
    BY <1>1, Remainder
  <2>2. Phase(t, ShrinkInterval) = idx % ShrinkInterval
    BY <1>3 DEF Phase
  <2> QED
    BY <1>1, <2>1, <2>2 DEF Allowed
<1> QED
  BY <1>2, <1>3

LEMMA AllowedNext ==
  DiskOK' /\ BufInv' => \A t \in Thread : Allowed(t)' \in 0 .. ShrinkInterval
<1>1. DiskOK /\ BufInv => \A t \in Thread : Allowed(t) \in 0 .. ShrinkInterval
  BY AllowedRange
<1>2. DiskOK' /\ BufInv' => (\A t \in Thread : Allowed(t) \in 0 .. ShrinkInterval)'
  BY <1>1, PTL
<1> QED
  BY <1>2

LEMMA SizeNat ==
  ASSUME DiskOK
  PROVE  /\ Len(live) \in Nat /\ Len(buf) \in Nat /\ Size \in Nat
         /\ Len(Flushed) = Size /\ Flushed \in Seq(Record)
  BY LenProperties, ConcatProperties DEF DiskOK, Size, Flushed

LEMMA BaseNat ==
  ASSUME ConfOK, CountersOK
  PROVE  /\ Base \in Nat /\ maxSize \div 2 \in Nat /\ crashes * ShrinkInterval \in Nat
         /\ maxSize \div 2 + FlushInterval - 1 <= Base
<1>1. maxSize \in Nat /\ crashes \in Nat /\ 2 \in Nat \ {0}
  BY DEF ConfOK, CountersOK
<1>2. FlushInterval \in Nat \ {0} /\ ShrinkInterval \in Nat \ {0}
  BY IntervalAssumption
<1>3. maxSize \div 2 \in Nat
  BY <1>1, Remainder
<1>4. crashes * ShrinkInterval \in Nat
  BY <1>1, <1>2
<1> QED
  BY <1>2, <1>3, <1>4 DEF Base

\* The write of a record: the next look at the size is due, or the interval has one
\* record more.
LEMMA SizeWrite ==
  ASSUME Rotates, IInv, FileInv, OpenInv, BufInv, NEW t \in Thread, WriteAppend(t)
  PROVE  /\ UNCHANGED <<idx, maxSize, crashes>>
         /\ Size' = Size + 1
         /\ Allowed(t)' >= Allowed(t) + 1
<1>1. /\ DiskOK /\ CountersOK /\ pc \in [Thread -> Labels] /\ idx \in Nat
      /\ ShrinkInterval \in Nat \ {0}
  BY IntervalAssumption DEF IInv, RotationInv, DiskOK, ControlInv, ControlOK
<1>2. pc[t] = "write" /\ UNCHANGED <<idx, maxSize, crashes>>
  BY DEF WriteAppend, conf, bounds
<1>3. "File" \in out[t] /\ log /\ ~LoseRecord
  BY <1>2 DEF FileInv, Carries, OpenInv, Counted, Rotates, LoseRecord
<1>4. WriteRecord(FlushDue) /\ UNCHANGED backup /\ pc'[t] = "after"
  BY <1>1, <1>3 DEF WriteAppend, Go
<1>5. Size' = Size + 1
  <2>1. Writes
    BY <1>4 DEF Writes, FlushDue
  <2>2. /\ count' \in Record
        /\ \/ live' = live /\ buf' = Append(buf, count')
           \/ live' = Append(Flushed, count') /\ buf' = <<>>
    BY <1>1, <2>1, WriteEffect
  <2>3. /\ live \in Seq(Record) /\ buf \in Seq(Record) /\ Flushed \in Seq(Record)
        /\ Len(live) \in Nat /\ Len(buf) \in Nat /\ Len(Flushed) = Size
    BY <1>1, SizeNat DEF DiskOK
  <2>4. /\ Len(Append(buf, count')) = Len(buf) + 1
        /\ Len(Append(Flushed, count')) = Len(Flushed) + 1
    BY <2>2, <2>3, AppendProperties
  <2>5. Len(<<>>) = 0
    OBVIOUS
  <2>6. CASE live' = live /\ buf' = Append(buf, count')
    BY <2>3, <2>4, <2>6 DEF Size
  <2>7. CASE live' = Append(Flushed, count') /\ buf' = <<>>
    BY <2>3, <2>4, <2>5, <2>7 DEF Size
  <2> QED
    BY <2>2, <2>6, <2>7
<1> DEFINE r == (idx - 1) % ShrinkInterval
<1>6. /\ r \in 0 .. ShrinkInterval - 1
      /\ idx % ShrinkInterval = IF r = ShrinkInterval - 1 THEN 0 ELSE r + 1
  <2>1. idx - 1 \in Nat /\ (idx - 1) + 1 = idx
    BY <1>1, <1>2 DEF BufInv, Counted
  <2>2. ((idx - 1) + 1) % ShrinkInterval = IF r = ShrinkInterval - 1 THEN 0 ELSE r + 1
    BY <1>1, <2>1, NextRemainder
  <2> QED
    BY <1>1, <2>1, <2>2, Remainder
<1>7. Allowed(t) = r
  BY <1>2 DEF Allowed, Late, Phase, Counted, Rotating
<1>8. Allowed(t)' = IF idx % ShrinkInterval = 0 THEN ShrinkInterval
                    ELSE idx % ShrinkInterval
  BY <1>2, <1>4 DEF Allowed, Late, Phase, Counted, Rotating, ShrinkDue
<1> HIDE DEF r
<1>9. Allowed(t)' >= Allowed(t) + 1
  BY <1>1, <1>6, <1>7, <1>8
<1> QED
  BY <1>2, <1>5, <1>9

\* The steps of reset and of a rotation that touch the files: the size falls, or it
\* stays and no less is allowed.
LEMMA SizeRotate ==
  ASSUME Single, Rotates, IInv, OpenInv, BufInv, NEW t \in Thread,
         \/ Finish(t) \/ CloseLog(t) \/ OpenLog(t)
         \/ SkipShrink(t) \/ StartShrink(t) \/ ReopenLog(t)
  PROVE  /\ UNCHANGED <<idx, maxSize, crashes>>
         /\ \/ Size' <= Size /\ Allowed(t)' >= Allowed(t)
            \/ Size' <= maxSize \div 2 + FlushInterval - 1
<1>1. /\ DiskOK /\ ControlOK /\ ConfOK /\ idx \in Nat /\ live \in Seq(Record)
      /\ FlushInterval \in Nat \ {0} /\ ShrinkInterval \in Nat \ {0}
      /\ maxSize \div 2 \in Nat
  BY IntervalAssumption, BaseNat DEF IInv, RotationInv, DiskOK, ControlInv
<1>2. UNCHANGED <<idx, maxSize, crashes>>
  BY DEF Finish, CloseLog, OpenLog, SkipShrink, StartShrink, ReopenLog, conf, bounds
<1>3. /\ Phase(t, ShrinkInterval) \in 0 .. ShrinkInterval - 1
      /\ Allowed(t) \in 0 .. ShrinkInterval /\ Size \in Nat
      /\ Len(live) \in Nat /\ Len(buf) \in Nat
  BY <1>1, AllowedRange, SizeNat
<1>4. Len(<<>>) = 0
  OBVIOUS
<1> USE DEF ControlOK, Go, Enter, Return
<1>5. CASE Finish(t) \/ CloseLog(t) \/ StartShrink(t)
  <2>1. Size' = Size
    <3>1. live' = Flushed /\ buf' = <<>>
      BY <1>5 DEF Finish, CloseLog, StartShrink
    <3> QED
      BY <1>1, <1>3, <1>4, <3>1, SizeNat DEF Size
  <2>2. pc[t] \notin Counted /\ pc'[t] \in {"idle", "open", "remove"}
    BY <1>1, <1>5, SMT DEF Finish, CloseLog, StartShrink, Returned, OpenInv, Counted
  <2>3. Phase(t, ShrinkInterval)' = Phase(t, ShrinkInterval)
    BY <1>2, <2>2 DEF Phase, Counted
  <2>4. CASE StartShrink(t)
    <3>1. pc'[t] = "remove"
      BY <1>1, <2>4 DEF StartShrink
    <3>2. Allowed(t)' = ShrinkInterval
      BY <3>1 DEF Allowed, Late, Rotating
    <3> QED
      BY <1>1, <1>2, <1>3, <2>1, <3>2
  <2>5. CASE Finish(t) \/ CloseLog(t)
    <3>1. ~Late(t)
      BY <2>5 DEF Finish, CloseLog, Late, Rotating
    <3>2. Allowed(t) = Phase(t, ShrinkInterval)
      BY <3>1 DEF Allowed
    <3>3. Allowed(t)' \in {ShrinkInterval, Phase(t, ShrinkInterval)'}
      BY DEF Allowed
    <3> QED
      BY <1>1, <1>2, <1>3, <2>1, <2>3, <3>2, <3>3
  <2> QED
    BY <1>5, <2>4, <2>5
<1>6. CASE OpenLog(t)
  <2>1. buf' = buf /\ (live' = live \/ live' = <<>>)
    BY <1>6 DEF OpenLog
  <2>2. Size' <= Size
    BY <1>3, <1>4, <2>1 DEF Size
  <2>3. pc[t] = "open" /\ pc'[t] \in {"idle", "shrink"}
    BY <1>1, <1>6, SMT DEF OpenLog, Returned, OpenInv, Resetting, Rotates
  <2>4. Allowed(t) = Phase(t, ShrinkInterval)
    BY <2>3 DEF Allowed, Late, Rotating
  <2>5. /\ Phase(t, ShrinkInterval)' = Phase(t, ShrinkInterval)
        /\ Allowed(t)' \in {ShrinkInterval, Phase(t, ShrinkInterval)'}
    BY <1>2, <2>3 DEF Phase, Counted, Allowed
  <2> QED
    BY <1>1, <1>2, <1>3, <2>2, <2>4, <2>5
<1>7. CASE SkipShrink(t)
  <2>1. /\ UNCHANGED <<live, buf>> /\ pc[t] = "shrink"
        /\ pc'[t] \in {"idle", "opened", "index", "callback"}
    BY <1>1, <1>7 DEF SkipShrink, disk
  <2>2. Size' = Size
    BY <2>1 DEF Size
  <2>3. CASE Late(t)
    <3>1. log
      BY <2>1, <2>3 DEF Late, Rotating, OpenInv
    <3>2. ~AboveHalf
      BY <1>7, <3>1 DEF SkipShrink, Rotates
    <3>3. Len(buf) < FlushInterval
      BY BufBounded DEF UnflushedBounded
    <3> QED
      BY <1>1, <1>2, <1>3, <2>2, <3>2, <3>3 DEF AboveHalf, Size
  <2>4. CASE ~Late(t)
    <3>1. /\ Allowed(t) = Phase(t, ShrinkInterval)
          /\ Phase(t, ShrinkInterval)' = Phase(t, ShrinkInterval)
          /\ Allowed(t)' \in {ShrinkInterval, Phase(t, ShrinkInterval)'}
      BY <1>2, <2>1, <2>4 DEF Phase, Counted, Allowed
    <3> QED
      BY <1>1, <1>2, <1>3, <2>2, <3>1
  <2> QED
    BY <2>3, <2>4
<1>8. CASE ReopenLog(t)
  <2>1. live' = <<>> /\ buf' = buf /\ pc[t] = "reopen"
    BY <1>8 DEF ReopenLog, Rotates
  <2>2. buf = <<>>
    BY <2>1 DEF IInv, RotationInv, StreamInv
  <2>3. Size' = 0
    BY <1>4, <2>1, <2>2 DEF Size
  <2> QED
    BY <1>1, <1>2, <2>3
<1> QED
  BY <1>5, <1>6, <1>7, <1>8

LEMMA SizeInit ==
  ASSUME Init
  PROVE  SizeInv
<1>1. ConfOK /\ CountersOK
  BY ConfInit, CountersInit
<1>2. DiskOK /\ BufInv
  BY RotationInit, BufInit DEF RotationInv
<1>3. Base \in Nat
  BY <1>1, BaseNat
<1>4. \A t \in Thread : Allowed(t) \in 0 .. ShrinkInterval
  BY <1>2, AllowedRange
<1>5. Size = 0 /\ maxSize = DefaultLogSize /\ crashes = 0
  BY DEF Init, Configured, Size
<1>6. ShrinkInterval \in Nat /\ MaxCrashes \in Nat
  BY IntervalAssumption, BoundAssumption
<1> HIDE DEF Allowed
<1>7. \A t \in Thread : Size <= Base + Allowed(t)
  BY <1>3, <1>4, <1>5, <1>6
<1> QED
  BY <1>5, <1>6, <1>7 DEF SizeInv, Allowed

LEMMA SizeStep ==
  ASSUME Single, Aligned, Rotates, IInv, IInv', FileInv, OpenInv, BufInv, BufInv',
         SizeInv, [Next]_vars
  PROVE  SizeInv'
<1>1. /\ ControlOK /\ DiskOK /\ DiskOK' /\ ConfOK /\ CountersOK
      /\ FlushInterval \in Nat \ {0} /\ ShrinkInterval \in Nat \ {0}
      /\ Base \in Nat /\ Size \in Nat /\ Size' \in Nat
      /\ maxSize \div 2 \in Nat
      /\ maxSize \div 2 + FlushInterval - 1 <= Base
  BY IntervalAssumption, BaseNat, SizeNat DEF IInv, RotationInv, ControlInv, Size, DiskOK
<1>2. /\ maxSize = DefaultLogSize /\ crashes <= MaxCrashes
      /\ \A s \in Thread : Size <= Base + Allowed(s)
  BY DEF SizeInv, Allowed
<1>3. \A s \in Thread : /\ Allowed(s) \in 0 .. ShrinkInterval
                        /\ Allowed(s)' \in 0 .. ShrinkInterval
  BY <1>1, AllowedRange, AllowedNext
<1>4. ASSUME NEW t \in Thread, Start(t) \/ Continue(t) PROVE SizeInv'
  <2> SUFFICES ASSUME TRUE
               PROVE  /\ UNCHANGED <<maxSize, crashes>>
                      /\ Size' <= Base + Allowed(t)'
    <3>1. ASSUME UNCHANGED <<maxSize, crashes>>, Size' <= Base + Allowed(t)'
          PROVE  SizeInv'
      <4>1. Base' = Base
        BY <3>1 DEF Base
      <4>2. \A s \in Thread : s = t
        BY Only
      <4> QED
        BY <1>2, <3>1, <4>1, <4>2 DEF SizeInv, Allowed
    <3> QED
      BY <3>1
  <2>1. CASE IncrementIdx(t)
    <3>1. /\ idx' = idx + 1 /\ UNCHANGED <<live, buf, maxSize, crashes>>
          /\ pc[t] = "index" /\ pc'[t] = "lock"
      BY <1>1, <2>1 DEF IncrementIdx, disk, conf, bounds, Go, ControlOK
    <3>2. idx' - 1 = idx
      BY <1>1, <3>1 DEF DiskOK
    <3>3. Allowed(t)' = Allowed(t)
      BY <3>1, <3>2 DEF Allowed, Late, Rotating, Phase, Counted
    <3> QED
      BY <1>2, <3>1, <3>3 DEF Size
  <2>2. CASE WriteAppend(t)
    <3>1. /\ UNCHANGED <<maxSize, crashes>>
          /\ Size' = Size + 1 /\ Allowed(t)' >= Allowed(t) + 1
      BY <2>2, SizeWrite
    <3>2. /\ Size <= Base + Allowed(t) /\ Allowed(t) \in 0 .. ShrinkInterval
          /\ Allowed(t)' \in 0 .. ShrinkInterval
      BY <1>2, <1>3
    <3> HIDE DEF Size, Base, Allowed
    <3> QED
      BY <1>1, <3>1, <3>2
  <2>3. CASE \/ Finish(t) \/ CloseLog(t) \/ OpenLog(t)
             \/ SkipShrink(t) \/ StartShrink(t) \/ ReopenLog(t)
    <3>1. /\ UNCHANGED <<maxSize, crashes>>
          /\ \/ Size' <= Size /\ Allowed(t)' >= Allowed(t)
             \/ Size' <= maxSize \div 2 + FlushInterval - 1
      BY <2>3, SizeRotate
    <3>2. /\ Size <= Base + Allowed(t) /\ Allowed(t) \in 0 .. ShrinkInterval
          /\ Allowed(t)' \in 0 .. ShrinkInterval
      BY <1>2, <1>3
    <3> HIDE DEF Size, Base, Allowed
    <3> QED
      BY <1>1, <3>1, <3>2
  <2>4. CASE ~IncrementIdx(t) /\ ~WriteAppend(t) /\ ~Finish(t) /\ ~CloseLog(t)
             /\ ~OpenLog(t) /\ ~SkipShrink(t) /\ ~StartShrink(t) /\ ~ReopenLog(t)
    <3>1. /\ UNCHANGED <<idx, live, buf, maxSize, crashes>>
          /\ pc'[t] \in Counted <=> pc[t] \in Counted
          /\ Late(t)' <=> Late(t)
      BY <1>1, <1>4, <2>4, SizeFrame
    <3>2. Allowed(t)' = Allowed(t)
      BY <3>1 DEF Allowed, Phase
    <3> QED
      BY <1>2, <3>1, <3>2 DEF Size
  <2> QED
    BY <2>1, <2>2, <2>3, <2>4
<1>5. CASE Crash
  <2>1. /\ maxSize' = DefaultLogSize /\ crashes' = crashes + 1
        /\ crashes < MaxCrashes /\ live' = live /\ buf' = <<>>
    BY <1>5 DEF Crash
  <2>2. crashes \in Nat /\ MaxCrashes \in Nat /\ Len(<<>>) = 0
        /\ Len(live) \in Nat /\ Len(buf) \in Nat
    BY <1>1, BoundAssumption, SizeNat DEF CountersOK
  <2>3. Size' <= Size
    BY <2>1, <2>2 DEF Size
  <2>4. Base' = Base + ShrinkInterval
    <3>1. (crashes + 1) * ShrinkInterval = crashes * ShrinkInterval + ShrinkInterval
      BY <1>1, <2>2, TimesNext
    <3>2. crashes * ShrinkInterval \in Nat
      BY <1>1, <2>2
    <3> QED
      BY <1>1, <1>2, <2>1, <3>1, <3>2 DEF Base
  <2>5. \A s \in Thread : Size' <= Base' + Allowed(s)'
    <3> HIDE DEF Size, Base, Allowed
    <3> QED
      BY <1>1, <1>2, <1>3, <2>3, <2>4
  <2>6. crashes' <= MaxCrashes
    BY <2>1, <2>2
  <2> QED
    BY <2>1, <2>5, <2>6 DEF SizeInv, Allowed
<1>6. CASE UNCHANGED vars
  BY <1>6 DEF vars, conf, disk, locals, bounds, SizeInv, Size, Base, Late, Phase,
     ShrinkDue
<1> QED
  BY <1>4, <1>5, <1>6 DEF Next, Done

LEMMA SizeInvariance ==
  ASSUME Single, Aligned, Rotates
  PROVE  Spec => [](IInv /\ FileInv /\ BufInv /\ OpenInv /\ SizeInv)
<1>1. Init => OpenInv /\ SizeInv
  BY SizeInit DEF Init, OpenInv, Counted, Resetting
<1>2. IInv /\ IInv' /\ FileInv /\ BufInv /\ BufInv' /\ OpenInv /\ SizeInv /\ [Next]_vars
      => OpenInv' /\ SizeInv'
  BY OpenStep, SizeStep
<1> QED
  BY <1>1, <1>2, BufInvariance, PTL DEF Spec

LEMMA SizeOfInv ==
  ASSUME Single, IInv, BufInv, SizeInv
  PROVE  SizeBounded
<1>1. PICK t \in Thread : TRUE
  BY DEF Single
<1>2. /\ DiskOK /\ ConfOK /\ CountersOK /\ Size <= Base + Allowed(t)
  BY DEF IInv, RotationInv, SizeInv, Allowed
<1>3. /\ Allowed(t) \in 0 .. ShrinkInterval /\ Size \in Nat
      /\ maxSize \div 2 \in Nat /\ crashes * ShrinkInterval \in Nat
  BY <1>2, AllowedRange, SizeNat, BaseNat
<1>4. FlushInterval \in Nat /\ ShrinkInterval \in Nat /\ crashes \in Nat
  BY <1>2, IntervalAssumption DEF CountersOK
<1>5. (crashes + 1) * ShrinkInterval = crashes * ShrinkInterval + ShrinkInterval
  BY <1>4, TimesNext
<1> HIDE DEF Allowed
<1>6. Size <= maxSize \div 2 + (crashes * ShrinkInterval + ShrinkInterval)
              + FlushInterval - 1
  BY <1>2, <1>3, <1>4 DEF Base
<1> QED
  BY <1>5, <1>6 DEF SizeBounded, Size

\* When one thread logs to one file and nothing keeps a rotation from taking place,
\* the log outgrows half of maxSize by one shrink interval for every start of the
\* process and by what stdio holds.
THEOREM SizeCorrect ==
  ASSUME Single, Aligned, Rotates
  PROVE  Spec => []SizeBounded
<1>1. IInv /\ BufInv /\ SizeInv => SizeBounded
  BY SizeOfInv
<1> QED
  BY <1>1, SizeInvariance, PTL

-----------------------------------------------------------------------------

(* What is kept has no hole. *)

LEMMA TimesMonotone ==
  ASSUME NEW a \in Nat, NEW b \in Nat, a <= b, NEW n \in Nat
  PROVE  a * n <= b * n /\ a * n \in Nat /\ b * n \in Nat
<1>1. PICK d \in Nat : b = a + d
  <2>1. b - a \in Nat /\ b = a + (b - a)
    OBVIOUS
  <2> QED
    BY <2>1
<1>2. a * n \in Nat /\ d * n \in Nat
  OBVIOUS
<1>3. (a + d) * n = a * n + d * n
  OBVIOUS
<1> QED
  BY <1>1, <1>2, <1>3

\* The log never outgrows what a rotation copies of it.
LEMMA WithinMaxSize ==
  ASSUME Single, CopiesWhole, IInv, BufInv, SizeInv
  PROVE  Len(live) <= maxSize
<1>1. /\ DiskOK /\ maxSize \in Nat /\ crashes \in Nat /\ MaxCrashes \in Nat
      /\ FlushInterval \in Nat \ {0} /\ ShrinkInterval \in Nat
      /\ maxSize = DefaultLogSize /\ crashes <= MaxCrashes
  BY IntervalAssumption, BoundAssumption
     DEF IInv, RotationInv, ConfOK, CountersOK, SizeInv
<1> DEFINE c == (crashes + 1) * ShrinkInterval
           m == (MaxCrashes + 1) * ShrinkInterval
           h == maxSize \div 2
<1>2. c <= m /\ c \in Nat /\ m \in Nat
  BY <1>1, TimesMonotone
<1>3. h \in Nat /\ maxSize >= 2 * h /\ maxSize <= 2 * h + 1
  <2>1. 2 \in Nat \ {0}
    OBVIOUS
  <2>2. maxSize % 2 \in 0 .. 1 /\ maxSize = 2 * h + (maxSize % 2)
    BY <1>1, <2>1, Remainder
  <2>3. h \in Nat
    BY <1>1, <2>1, Remainder
  <2> QED
    BY <2>2, <2>3
<1>4. maxSize >= 2 * (m + FlushInterval - 1)
  BY <1>1 DEF CopiesWhole
<1>5. Len(live) + Len(buf) <= h + c + FlushInterval - 1
  BY SizeOfInv DEF SizeBounded
<1>6. Len(live) \in Nat /\ Len(buf) \in Nat
  BY <1>1, SizeNat
<1> HIDE DEF c, m, h
<1> QED
  BY <1>1, <1>2, <1>3, <1>4, <1>5, <1>6

LEMMA WholeStep ==
  ASSUME Single, CopiesWhole, IInv, IInv', BufInv, SizeInv, WholeInv, [Next]_vars
  PROVE  WholeInv'
<1>1. ControlInv /\ DiskOK /\ maxSize \in Nat /\ Len(live) \in Nat
  BY LenProperties DEF IInv, RotationInv, DiskOK, ConfOK
<1>2. ASSUME NEW t \in Thread, Start(t) \/ Continue(t) PROVE WholeInv'
  <2>1. CASE pc'[t] \notin Copying
    <3>1. \A s \in Thread : pc'[s] \notin Copying
      BY <2>1, Only
    <3>2. ~torn'
      BY <3>1 DEF IInv, RotationInv, CopyInv, Copying, HistoryOK
    <3> QED
      BY <3>1, <3>2 DEF WholeInv, Copying
  <2>2. CASE pc'[t] \in Copying
    <3>1. CreateBackup(t) \/ CopyChunk(t) \/ CopyFails(t) \/ RetireLog(t)
      BY <1>1, <1>2, <2>2, OwnCopying
    <3>2. /\ live' = live /\ ~torn'
          /\ limit' = Len(live)
      <4>1. CASE CreateBackup(t)
        <5>1. pc'[t] = "copy" \/ pc'[t] = rtn[t]
          BY <1>1, <4>1 DEF CreateBackup, Go, Enter, Return, ControlInv, ControlOK
        <5>2. pc'[t] = "copy"
          BY <1>1, <2>2, <5>1 DEF Copying, ControlInv, ControlOK
        <5>3. limit' = CopyLimit \/ pc'[t] = rtn[t]
          BY <1>1, <4>1 DEF CreateBackup, Go, Enter, Return, ControlInv, ControlOK
        <5>4. limit' = CopyLimit
          BY <1>1, <5>2, <5>3 DEF ControlInv, ControlOK
        <5>5. CopyLimit = Len(live)
          BY <1>1, WithinMaxSize DEF CopyLimit, Least
        <5> QED
          BY <4>1, <5>4, <5>5 DEF CreateBackup, WholeInv
      <4>2. CASE CopyChunk(t)
        BY <4>2 DEF CopyChunk, WholeInv, CopiesWhole
      <4>3. CASE CopyFails(t)
        BY <4>3 DEF CopyFails, CopiesWhole
      <4>4. CASE RetireLog(t)
        BY <4>4 DEF RetireLog, disk, rot, WholeInv
      <4> QED
        BY <3>1, <4>1, <4>2, <4>3, <4>4
    <3> QED
      BY <3>2 DEF WholeInv
  <2> QED
    BY <2>1, <2>2
<1>3. CASE Crash
  BY <1>3 DEF Crash, WholeInv
<1>4. CASE UNCHANGED vars
  BY <1>4 DEF vars, disk, rot, WholeInv
<1> QED
  BY <1>2, <1>3, <1>4 DEF Next, Done

\* What has left the files through reset(true) or a crash stays gone.
LEMMA GoneGrows ==
  ASSUME [Next]_vars
  PROVE  gone \subseteq gone'
<1>1. ASSUME NEW t \in Thread, Start(t) PROVE gone' = gone
  BY <1>1 DEF Start, Configure, SetLogLevel, ToggleRead, GetLogger, SetOutputs, SetMaxSize,
     SetAppendCallback, ChangeFilters, OtherLogger, BeginAppend, BeginReset, BeginFinish,
     BeginShrink, hist
<1>2. ASSUME NEW t \in Thread, Continue(t) PROVE gone \subseteq gone'
  BY <1>2 DEF Continue, ToggleWrite, GetLoggerOutputs, ReadSpin, ClearSpin, CheckLevel,
     SnapshotOutputs, CheckLog, IncrementIdx, AcquireAppend, WriteAppend, RawAppend,
     AfterAppend, ReadCallback, CheckFilter, InvokeCallback, ReadOutputs, Finish, CloseLog,
     OpenLog, SkipShrink, StartShrink, OpenReadFails, CreateBackup, CopyChunk, CopyFails,
     MapFails, RetireLog, ReopenLog, hist
<1>3. CASE Crash
  BY <1>3 DEF Crash
<1>4. CASE UNCHANGED vars
  BY <1>4 DEF vars, hist
<1> QED
  BY <1>1, <1>2, <1>3, <1>4 DEF Next, Done

\* What a rotation that keeps the whole log leaves behind.
LEMMA NoLoss ==
  ASSUME IInv, WholeInv, [Next]_vars
  PROVE  Kept \subseteq Stored' \cup gone'
<1>1. CASE NoLossStep
  <2>1. ~(\E t \in Thread : pc[t] = "reopen" /\ (torn \/ limit < Len(live)))
    <3>1. Len(live) \in Nat
      BY LenProperties DEF IInv, RotationInv, DiskOK
    <3> QED
      BY <3>1 DEF WholeInv
  <2> QED
    BY <1>1, <2>1 DEF NoLossStep, Kept, Stored
<1>2. CASE UNCHANGED vars
  BY <1>2 DEF vars, disk, Kept, Stored
<1> QED
  BY <1>1, <1>2, LossStep

\* How the records in the files change, whatever the step.
LEMMA StoredStep ==
  ASSUME IInv, IInv', OrderInv, [Next]_vars
  PROVE  \/ count' = count /\ Stored' \subseteq Stored
            /\ \/ Elems(backup) \subseteq Stored'
               \/ \A n \in Elems(backup), m \in Stored' : n < m
         \/ count' = count + 1 /\ Stored' = Stored \cup {count'}
<1>1. DiskOK /\ DiskOK' /\ CountersOK /\ DiskOrder /\ BackupInv
  BY DEF IInv, RotationInv, OrderInv
<1>2. /\ Stored = Elems(backup) \cup Elems(Flushed)
      /\ Elems(Flushed) = Elems(live) \cup Elems(buf)
  BY <1>1, DiskFacts
<1>3. CASE Keeps
  BY <1>2, <1>3 DEF Keeps, Stored
<1>4. CASE Flushes
  BY <1>2, <1>4, EmptyFacts DEF Flushes, Stored
<1>5. CASE Writes
  <2>1. Store!Write
    BY <1>1, <1>5, WritesStep
  <2> QED
    BY <2>1 DEF Store!Write
<1>6. CASE Drops
  BY <1>6, EmptyFacts DEF Drops, Stored
<1>7. CASE Clears
  <2>1. Stored' = Elems(Flushed) /\ count' = count
    BY <1>2, <1>7, EmptyFacts DEF Clears, Stored
  <2>2. CASE Prefix(backup, live)
    <3>1. Elems(backup) \subseteq Elems(live)
      BY <1>1, <2>2, PrefixElems DEF DiskOK
    <3> QED
      BY <1>2, <2>1, <3>1
  <2>3. CASE \A n \in Elems(backup), m \in Elems(Flushed) : n < m
    BY <1>2, <2>1, <2>3
  <2> QED
    BY <1>1, <2>2, <2>3 DEF DiskOrder, Flushed
<1>8. CASE Copies /\ Prefix(backup, live)
  <2>1. backup' \in Seq(Record) /\ Prefix(backup', live)
    BY <1>1, <1>8, DiskFacts, PrefixOfSubSeq DEF Copies
  <2>2. Elems(backup) \subseteq Elems(live) /\ Elems(backup') \subseteq Elems(live)
    BY <1>1, <1>8, <2>1, PrefixElems DEF DiskOK
  <2> QED
    BY <1>8, <2>2 DEF Copies, Stored
<1>9. CASE Crash
  BY <1>9, EmptyFacts DEF Crash, Stored
<1>10. CASE UNCHANGED vars
  BY <1>10 DEF vars, disk, hist, Stored
<1> QED
  BY <1>1, <1>3, <1>4, <1>5, <1>6, <1>7, <1>8, <1>9, <1>10, EffectOfStep
     DEF Next, Done, Effect

LEMMA NoGapStep ==
  ASSUME IInv, IInv', OrderInv, WholeInv, NoGap, [Next]_vars
  PROVE  NoGap'
<1> SUFFICES ASSUME NEW n \in (1 .. count') \ (Stored' \cup gone'), NEW m \in Stored'
             PROVE  n < m
  BY DEF NoGap
<1>1. gone \subseteq gone' /\ Kept \subseteq Stored' \cup gone'
  BY GoneGrows, NoLoss
<1>2. Stored = Elems(backup) \cup Kept /\ count \in Nat
  BY DEF Stored, Kept, IInv, CountersOK
<1>3. n \notin gone /\ n \notin Kept
  BY <1>1
<1>4. CASE count' = count + 1 /\ Stored' = Stored \cup {count'}
  <2>1. n \in (1 .. count) \ (Stored \cup gone)
    BY <1>2, <1>3, <1>4
  <2>2. n < count'
    BY <1>2, <1>4, <2>1
  <2> QED
    BY <1>4, <2>1, <2>2 DEF NoGap
<1>5. CASE /\ count' = count /\ Stored' \subseteq Stored
           /\ \/ Elems(backup) \subseteq Stored'
              \/ \A k \in Elems(backup), l \in Stored' : k < l
  <2>1. CASE n \in Stored
    BY <1>2, <1>3, <1>5, <2>1
  <2>2. CASE n \notin Stored
    BY <1>3, <1>5, <2>2 DEF NoGap
  <2> QED
    BY <2>1, <2>2
<1> QED
  BY <1>4, <1>5, StoredStep

\* When one thread logs to one file, no rotation is kept from taking place and none
\* is cut short, the log never has a hole: what is missing was given up by a
\* reset(true) or a crash, or is older than everything that is kept.
THEOREM NoGapCorrect ==
  ASSUME Single, Aligned, Rotates, CopiesWhole
  PROVE  Spec => []NoGap
<1>1. Init => WholeInv /\ NoGap
  BY DEF Init, WholeInv, NoGap
<1>2. IInv /\ IInv' /\ BufInv /\ SizeInv /\ WholeInv /\ [Next]_vars => WholeInv'
  BY WholeStep
<1>3. IInv /\ IInv' /\ OrderInv /\ WholeInv /\ NoGap /\ [Next]_vars => NoGap'
  BY NoGapStep
<1> QED
  BY <1>1, <1>2, <1>3, SizeInvariance, OrderInvariance, PTL DEF Spec

=============================================================================
