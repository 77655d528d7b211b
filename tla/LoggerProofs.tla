---------------------------- MODULE LoggerProofs ----------------------------
(***************************************************************************)
(* Proofs about Logger for every value of its constants.                   *)
(*                                                                         *)
(* ControlInv is inductive by itself: a thread holds writemutex exactly at *)
(* the labels of the locked sections.                                      *)
(***************************************************************************)
EXTENDS Logger, SequenceTheorems, TLAPS

\* What the control flow alone needs.  The labels reset, finish and shrinkToFit
\* return to are never inside a locked section.
ControlInv ==
    /\ ControlOK
    /\ \A t \in Thread : pc[t] \in {"shrink", "remove", "copy", "retire", "reopen"}
                         => rtn[t] # "opened"
    /\ LockInv

LEMMA ControlInit == Init => ControlInv
<1> SUFFICES ASSUME Init PROVE ControlInv
  OBVIOUS
<1> QED
  BY ThreadAssumption DEF Init, ControlInv, LockInv, Labels, Critical, ControlOK

\* Steps that leave the lock alone and stay outside the locked sections.
LEMMA ControlConfigure ==
  ASSUME ControlInv, NEW t \in Thread, Configure(t)
  PROVE  ControlInv'
<1> USE DEF ControlInv, LockInv, Labels, Critical, ControlOK, Go
<1>1. CASE ToggleRead(t) \/ GetLogger(t)
  BY <1>1, SMT DEF ToggleRead, GetLogger, Begin
<1>2. CASE SetLogLevel(t) \/ SetOutputs(t) \/ SetMaxSize(t) \/ SetAppendCallback(t)
           \/ ChangeFilters(t) \/ OtherLogger(t)
  BY <1>2, SMT DEF SetLogLevel, SetOutputs, SetMaxSize, SetAppendCallback,
                   ChangeFilters, OtherLogger, Begin, locals
<1> QED
  BY <1>1, <1>2 DEF Configure

\* The begins of the calls, and the steps of append before and after its lock.
LEMMA ControlUnlocked ==
  ASSUME ControlInv, NEW t \in Thread,
         \/ BeginAppend(t) \/ BeginReset(t) \/ BeginFinish(t) \/ BeginShrink(t)
         \/ ToggleWrite(t) \/ GetLoggerOutputs(t) \/ ReadSpin(t) \/ ClearSpin(t)
         \/ CheckLevel(t) \/ SnapshotOutputs(t) \/ CheckLog(t) \/ IncrementIdx(t)
         \/ AfterAppend(t) \/ ReadCallback(t) \/ CheckFilter(t)
         \/ InvokeCallback(t) \/ ReadOutputs(t) \/ RawAppend(t)
  PROVE  ControlInv'
<1> USE ThreadAssumption DEF ControlInv, LockInv, Labels, Critical, ControlOK,
        Go, Enter, locals
<1>1. CASE BeginAppend(t) \/ BeginReset(t) \/ BeginFinish(t) \/ BeginShrink(t)
  BY <1>1, SMT DEF BeginAppend, BeginReset, BeginFinish, BeginShrink, Begin
<1>2. CASE ToggleWrite(t) \/ GetLoggerOutputs(t) \/ ReadSpin(t) \/ ClearSpin(t)
  BY <1>2, SMT DEF ToggleWrite, GetLoggerOutputs, ReadSpin, ClearSpin
<1>3. CASE CheckLevel(t)
  BY <1>3, SMT DEF CheckLevel
<1>4. CASE SnapshotOutputs(t)
  BY <1>4, SMT DEF SnapshotOutputs
<1>5. CASE CheckLog(t) \/ IncrementIdx(t) \/ AfterAppend(t)
  BY <1>5, SMT DEF CheckLog, IncrementIdx, AfterAppend
<1>6. CASE ReadCallback(t) \/ CheckFilter(t) \/ InvokeCallback(t) \/ ReadOutputs(t)
  BY <1>6, SMT DEF ReadCallback, CheckFilter, InvokeCallback, ReadOutputs
<1>7. CASE RawAppend(t)
  BY <1>7, SMT DEF RawAppend
<1> QED
  BY <1>1, <1>2, <1>3, <1>4, <1>5, <1>6, <1>7

\* The locked sections of append and of reset.
LEMMA ControlLocked ==
  ASSUME ControlInv, NEW t \in Thread,
         \/ AcquireAppend(t) \/ WriteAppend(t) \/ Finish(t) \/ CloseLog(t)
         \/ OpenLog(t)
  PROVE  ControlInv'
<1> USE ThreadAssumption DEF ControlInv, LockInv, Labels, Critical, ControlOK,
        Go, Enter, Return, Lock, Unlock, locals
<1>1. CASE AcquireAppend(t)
  BY <1>1, SMT DEF AcquireAppend
<1>2. CASE WriteAppend(t)
  BY <1>2, SMT DEF WriteAppend
<1>3. CASE Finish(t)
  BY <1>3, SMT DEF Finish, Returned
<1>4. CASE CloseLog(t)
  BY <1>4, SMT DEF CloseLog
<1>5. CASE OpenLog(t)
  BY <1>5, SMT DEF OpenLog, Returned
<1> QED
  BY <1>1, <1>2, <1>3, <1>4, <1>5

\* The locked section of shrinkToFit: every early return gives the lock back.
LEMMA ControlShrink ==
  ASSUME ControlInv, NEW t \in Thread,
         \/ SkipShrink(t) \/ StartShrink(t) \/ OpenReadFails(t) \/ CreateBackup(t)
         \/ CopyChunk(t) \/ CopyFails(t) \/ MapFails(t) \/ RetireLog(t)
         \/ ReopenLog(t)
  PROVE  ControlInv'
<1> USE ThreadAssumption DEF ControlInv, LockInv, Labels, Critical, ControlOK,
        Go, Enter, Return, Lock, Unlock, locals
<1>1. CASE SkipShrink(t) \/ StartShrink(t)
  BY <1>1, SMT DEF SkipShrink, StartShrink
<1>2. CASE OpenReadFails(t) \/ CreateBackup(t)
  BY <1>2, SMT DEF OpenReadFails, CreateBackup
<1>3. CASE CopyChunk(t) \/ CopyFails(t)
  BY <1>3, SMT DEF CopyChunk, CopyFails
<1>4. CASE MapFails(t) \/ RetireLog(t) \/ ReopenLog(t)
  BY <1>4, SMT DEF MapFails, RetireLog, ReopenLog
<1> QED
  BY <1>1, <1>2, <1>3, <1>4

LEMMA ControlStep ==
  ASSUME ControlInv, [Next]_vars
  PROVE  ControlInv'
<1>1. ASSUME NEW t \in Thread, Start(t)
      PROVE  ControlInv'
  BY <1>1, ControlConfigure, ControlUnlocked DEF Start
<1>2. ASSUME NEW t \in Thread, Continue(t)
      PROVE  ControlInv'
  BY <1>2, ControlUnlocked, ControlLocked, ControlShrink DEF Continue
<1>3. CASE Crash
  BY <1>3, ThreadAssumption
     DEF Crash, ControlInv, LockInv, Labels, Critical, ControlOK
<1>4. CASE UNCHANGED vars
  BY <1>4 DEF vars, ControlInv, ControlOK, LockInv, locals
<1> QED
  BY <1>1, <1>2, <1>3, <1>4 DEF Next, Done

\* writemutex is held exactly by the thread that is inside a locked section of
\* append, reset or shrinkToFit, for any number of threads and any failures.
THEOREM LockCorrect == Spec => []LockInv
<1>1. Spec => []ControlInv
  BY ControlInit, ControlStep, PTL DEF Spec
<1>2. ControlInv => LockInv
  BY DEF ControlInv
<1> QED
  BY <1>1, <1>2, PTL

-----------------------------------------------------------------------------
(* Types. *)

\* The outputs and the size a Logger is constructed with.
LEMMA StartValues ==
  /\ \A o \in OutputArgs : StartOutputs(o) \in SUBSET Output
  /\ DefaultLogSize \in Nat \ {0}
  /\ Note \in Level /\ Unchange \in LevelOrUnchange
<1>1. \A o \in OutputArgs : StartOutputs(o) \in SUBSET Output
  BY OutputAssumption DEF StartOutputs, Output
<1>2. DefaultLogSize \in Nat \ {0}
  BY SizeAssumption, SMT
<1>3. Note \in Level /\ Unchange \in LevelOrUnchange
  BY DEF Note, Level, LevelOrUnchange, Min, Max, Deta
<1> QED
  BY <1>1, <1>2, <1>3

LEMMA ConfInit == Init => ConfOK
<1> SUFFICES ASSUME Init PROVE ConfOK
  OBVIOUS
<1>1. PICK o \in OutputArgs : outputs = StartOutputs(o)
  BY DEF Init, Configured
<1> QED
  BY <1>1, StartValues DEF Init, Configured, ConfOK

\* toggleLogLevel writes back a level.
ToggleInv == \A t \in Thread : pc[t] = "toggle" => lvl[t] \in Level

\* Inside a call only three steps touch a member that configures the Logger.
LEMMA ConfFrame ==
  ASSUME NEW t \in Thread, Continue(t),
         ~ToggleWrite(t), ~GetLoggerOutputs(t), ~ClearSpin(t)
  PROVE  UNCHANGED conf
  BY DEF Continue, ReadSpin, CheckLevel, SnapshotOutputs, CheckLog, IncrementIdx,
         AcquireAppend, WriteAppend, RawAppend, AfterAppend, ReadCallback, CheckFilter,
         InvokeCallback, ReadOutputs, Finish, CloseLog, OpenLog, SkipShrink,
         StartShrink, OpenReadFails, CreateBackup, CopyChunk, CopyFails, MapFails,
         RetireLog, ReopenLog

LEMMA ConfStep ==
  ASSUME ConfOK, LocalsOK, ToggleInv, [Next]_vars
  PROVE  ConfOK'
<1> USE DEF ConfOK
<1>1. ASSUME NEW t \in Thread, Configure(t) PROVE ConfOK'
  <2>1. CASE SetLogLevel(t)
    BY <2>1, LevelAssumption, SMT
       DEF SetLogLevel, Clamped, Level, LevelOrUnchange, Min, Max, Deta, Unchange
  <2>2. CASE GetLogger(t) \/ SetOutputs(t)
    BY <2>2, LevelAssumption, OutputAssumption, SMT DEF GetLogger, SetOutputs
  <2>3. CASE SetMaxSize(t)
    BY <2>3, SizeAssumption, SMT DEF SetMaxSize, ClampedSize
  <2>4. CASE ToggleRead(t) \/ SetAppendCallback(t) \/ ChangeFilters(t) \/ OtherLogger(t)
    BY <2>4, SMT DEF ToggleRead, SetAppendCallback, ChangeFilters, OtherLogger, conf
  <2> QED
    BY <1>1, <2>1, <2>2, <2>3, <2>4 DEF Configure
<1>2. ASSUME NEW t \in Thread, BeginAppend(t) \/ BeginReset(t) \/ BeginFinish(t) \/ BeginShrink(t)
      PROVE ConfOK'
  BY <1>2, SMT DEF BeginAppend, BeginReset, BeginFinish, BeginShrink, conf
<1>3. ASSUME NEW t \in Thread, Continue(t) PROVE ConfOK'
  <2>1. CASE ToggleWrite(t)
    BY <2>1, SMT DEF ToggleWrite, ToggleInv
  <2>2. CASE GetLoggerOutputs(t)
    BY <2>2, SMT DEF GetLoggerOutputs, LocalsOK
  <2>3. CASE ClearSpin(t)
    BY <2>3, SMT DEF ClearSpin, LevelOrUnchange
  <2>4. CASE UNCHANGED conf
    BY <2>4, SMT DEF conf
  <2> QED
    BY <1>3, <2>1, <2>2, <2>3, <2>4, ConfFrame
<1>4. CASE Crash
  BY <1>4, StartValues DEF Crash
<1>5. CASE UNCHANGED vars
  BY <1>5 DEF vars, conf
<1> QED
  BY <1>1, <1>2, <1>3, <1>4, <1>5 DEF Next, Done, Start

LEMMA ToggleStep ==
  ASSUME ControlOK, LocalsOK, ConfOK, ToggleInv, [Next]_vars
  PROVE  ToggleInv'
<1> USE DEF ToggleInv, ControlOK, LocalsOK, Go, Enter, Return
<1>1. ASSUME NEW t \in Thread, Configure(t) PROVE ToggleInv'
  <2>1. CASE ToggleRead(t)
    BY <2>1, SMT DEF ToggleRead, Toggled, ConfOK, Level, LevelOrUnchange, Min, Max,
                     Deta, Unchange
  <2>2. CASE SetLogLevel(t) \/ GetLogger(t) \/ SetOutputs(t) \/ SetMaxSize(t)
             \/ SetAppendCallback(t) \/ ChangeFilters(t) \/ OtherLogger(t)
    BY <2>2, SMT DEF SetLogLevel, GetLogger, SetOutputs, SetMaxSize,
                     SetAppendCallback, ChangeFilters, OtherLogger, locals
  <2> QED
    BY <1>1, <2>1, <2>2 DEF Configure
<1>2. ASSUME NEW t \in Thread, BeginAppend(t) PROVE ToggleInv'
  BY <1>2, SMT DEF BeginAppend, Begin
<1>3. ASSUME NEW t \in Thread, BeginReset(t) \/ BeginFinish(t) \/ BeginShrink(t)
      PROVE ToggleInv'
  BY <1>3, SMT DEF BeginReset, BeginFinish, BeginShrink
<1>4. ASSUME NEW t \in Thread, Continue(t) PROVE ToggleInv'
  <2>1. CASE ToggleWrite(t) \/ ReadSpin(t) \/ CheckLevel(t)
    BY <2>1, SMT DEF ToggleWrite, ReadSpin, CheckLevel
  <2>2. CASE GetLoggerOutputs(t) \/ ClearSpin(t) \/ SnapshotOutputs(t) \/ CheckLog(t)
             \/ IncrementIdx(t) \/ AfterAppend(t) \/ ReadCallback(t)
             \/ CheckFilter(t) \/ InvokeCallback(t) \/ ReadOutputs(t)
    BY <2>2, SMT DEF GetLoggerOutputs, ClearSpin, SnapshotOutputs, CheckLog,
                     IncrementIdx, AfterAppend, ReadCallback, CheckFilter,
                     InvokeCallback, ReadOutputs, locals
  <2>3. CASE AcquireAppend(t) \/ WriteAppend(t) \/ RawAppend(t) \/ Finish(t)
             \/ CloseLog(t) \/ OpenLog(t)
    BY <2>3, SMT DEF AcquireAppend, WriteAppend, RawAppend, Finish, CloseLog,
                     OpenLog, Returned, locals
  <2>4. CASE SkipShrink(t) \/ StartShrink(t) \/ OpenReadFails(t) \/ CreateBackup(t)
             \/ CopyChunk(t) \/ CopyFails(t) \/ MapFails(t) \/ RetireLog(t)
             \/ ReopenLog(t)
    BY <2>4, SMT DEF SkipShrink, StartShrink, OpenReadFails, CreateBackup, CopyChunk,
                     CopyFails, MapFails, RetireLog, ReopenLog, locals
  <2> QED
    BY <1>4, <2>1, <2>2, <2>3, <2>4 DEF Continue
<1>5. CASE Crash
  BY <1>5, SMT DEF Crash
<1>6. CASE UNCHANGED vars
  BY <1>6 DEF vars, locals
<1> QED
  BY <1>1, <1>2, <1>3, <1>4, <1>5, <1>6 DEF Next, Done, Start

LEMMA LocalsInit == Init => LocalsOK
  BY NameAssumption DEF Init, LocalsOK, Calls, LevelOrUnchange, Output

LEMMA LocalsStep ==
  ASSUME LocalsOK, ConfOK, [Next]_vars
  PROVE  LocalsOK'
<1> USE NameAssumption DEF LocalsOK
<1>1. ASSUME NEW t \in Thread, Configure(t) PROVE LocalsOK'
  <2>1. CASE ToggleRead(t)
    BY <2>1, SMT DEF ToggleRead, Toggled, ConfOK, Level, LevelOrUnchange, Min, Max,
                     Deta, Unchange
  <2>2. CASE GetLogger(t)
    BY <2>2, OutputAssumption, SMT DEF GetLogger
  <2>3. CASE SetLogLevel(t) \/ SetOutputs(t) \/ SetMaxSize(t) \/ SetAppendCallback(t)
             \/ ChangeFilters(t) \/ OtherLogger(t)
    BY <2>3, SMT DEF SetLogLevel, SetOutputs, SetMaxSize, SetAppendCallback,
                     ChangeFilters, OtherLogger, locals
  <2> QED
    BY <1>1, <2>1, <2>2, <2>3 DEF Configure
<1>2. ASSUME NEW t \in Thread, BeginAppend(t) PROVE LocalsOK'
  BY <1>2, LevelAssumption, SMT DEF BeginAppend, Calls, LevelOrUnchange
<1>3. ASSUME NEW t \in Thread, BeginReset(t) \/ BeginFinish(t) \/ BeginShrink(t)
      PROVE LocalsOK'
  BY <1>3, SMT DEF BeginReset, BeginFinish, BeginShrink, Calls
<1>4. ASSUME NEW t \in Thread, Continue(t) PROVE LocalsOK'
  <2>1. CASE ReadSpin(t) \/ ClearSpin(t)
    BY <2>1, SMT DEF ReadSpin, ClearSpin, ConfOK, locals
  <2>2. CASE ToggleWrite(t) \/ CheckLevel(t)
    BY <2>2, SMT DEF ToggleWrite, CheckLevel, LevelOrUnchange
  <2>3. CASE SnapshotOutputs(t) \/ GetLoggerOutputs(t)
    BY <2>3, SMT DEF SnapshotOutputs, GetLoggerOutputs, ConfOK
  <2>4. CASE CheckLog(t) \/ IncrementIdx(t) \/ AfterAppend(t)
             \/ ReadCallback(t) \/ CheckFilter(t) \/ InvokeCallback(t) \/ ReadOutputs(t)
    BY <2>4, SMT DEF CheckLog, IncrementIdx, AfterAppend, ReadCallback, CheckFilter,
                     InvokeCallback, ReadOutputs, locals
  <2>5. CASE AcquireAppend(t) \/ WriteAppend(t) \/ RawAppend(t) \/ Finish(t)
             \/ CloseLog(t) \/ OpenLog(t)
    BY <2>5, SMT DEF AcquireAppend, WriteAppend, RawAppend, Finish, CloseLog,
                     OpenLog, Returned, locals
  <2>6. CASE SkipShrink(t) \/ StartShrink(t) \/ OpenReadFails(t) \/ CreateBackup(t)
             \/ CopyChunk(t) \/ CopyFails(t) \/ MapFails(t) \/ RetireLog(t)
             \/ ReopenLog(t)
    BY <2>6, SMT DEF SkipShrink, StartShrink, OpenReadFails, CreateBackup, CopyChunk,
                     CopyFails, MapFails, RetireLog, ReopenLog, locals
  <2> QED
    BY <1>4, <2>1, <2>2, <2>3, <2>4, <2>5, <2>6 DEF Continue
<1>5. CASE Crash
  BY <1>5, SMT DEF Crash, Calls, LevelOrUnchange
<1>6. CASE UNCHANGED vars
  BY <1>6 DEF vars, locals
<1> QED
  BY <1>1, <1>2, <1>3, <1>4, <1>5, <1>6 DEF Next, Done, Start

-----------------------------------------------------------------------------
(* The stream and the rotation. *)

\* What a rotation relies on between its steps.  limit is what traverse will
\* copy: at least one record, and never more than the log has.
CopyInv ==
    /\ torn => \E t \in Thread : pc[t] \in {"retire", "reopen"}
    /\ \A t \in Thread :
         /\ pc[t] = "remove" => Len(live) > 0
         /\ pc[t] \in {"copy", "retire", "reopen"} => limit \in 1 .. Len(live)
         /\ pc[t] = "copy" => Len(backup) < limit

RotationInv == DiskOK /\ StreamInv /\ CopyInv /\ RotationKeeps

\* The beginning of a sequence.
LEMMA SubSeqFromOne ==
  ASSUME NEW S, NEW s \in Seq(S), NEW n \in 0 .. Len(s)
  PROVE  SubSeq(s, 1, n) \in Seq(S) /\ Len(SubSeq(s, 1, n)) = n
<1>1. \A i \in 1 .. n : s[i] \in S
  BY ElementOfSeq
<1> QED
  BY <1>1, SubSeqProperties

LEMMA ElemsType ==
  ASSUME NEW S, NEW s \in Seq(S)
  PROVE  Elems(s) \subseteq S
  BY ElementOfSeq DEF Elems

LEMMA FlushedType ==
  ASSUME DiskOK
  PROVE  Flushed \in Seq(Record) /\ Len(Flushed) = Len(live) + Len(buf)
  BY ConcatProperties DEF DiskOK, Flushed

LEMMA RecordTyped ==
  ASSUME DiskOK, CountersOK, NEW flush, WriteRecord(flush)
  PROVE  live' \in Seq(Record) /\ buf' \in Seq(Record)
<1>1. count + 1 \in Record
  BY DEF CountersOK, Record
<1>2. /\ Append(buf, count + 1) \in Seq(Record)
      /\ Append(Flushed, count + 1) \in Seq(Record)
      /\ <<>> \in Seq(Record)
  BY <1>1, FlushedType, AppendProperties, EmptySeq DEF DiskOK
<1> QED
  BY <1>2 DEF DiskOK, WriteRecord

LEMMA RotationInit == Init => RotationInv
<1> SUFFICES ASSUME Init PROVE RotationInv
  OBVIOUS
<1>1. <<>> \in Seq(Record) /\ <<>> \in Seq(Nat)
  BY EmptySeq
<1>2. DiskOK
  BY <1>1 DEF Init, Configured, DiskOK
<1> QED
  BY <1>2 DEF Init, RotationInv, StreamInv, CopyInv, RotationKeeps

\* Steps of a thread that is not in a locked section and stays out of it, and
\* that leave the disk and the rotation alone.
LEMMA RotationFrame ==
  ASSUME RotationInv, NEW t \in Thread,
         ControlOK, ControlOK',
         pc[t] \notin Critical, pc'[t] \notin Critical,
         \A s \in Thread \ {t} : pc'[s] = pc[s],
         UNCHANGED <<log, disk, rot>>, idx' \in Nat
  PROVE  RotationInv'
<1>1. DiskOK'
  BY DEF RotationInv, DiskOK, disk
<1>2. \A s \in Thread : pc'[s] \in Critical => pc'[s] = pc[s]
  OBVIOUS
<1>3. UNCHANGED <<log, buf, live, backup, limit, torn>>
  BY DEF disk, rot
<1>4. StreamInv'
  BY <1>2, <1>3 DEF RotationInv, StreamInv, Critical
<1>5. CopyInv'
  BY <1>2, <1>3, Zenon DEF RotationInv, CopyInv, Critical
<1>6. RotationKeeps'
  BY <1>2, <1>3, Zenon DEF RotationInv, RotationKeeps, Critical
<1> QED
  BY <1>1, <1>4, <1>5, <1>6 DEF RotationInv

LEMMA CountersInit == Init => CountersOK /\ HistoryOK
<1>1. Init => CountersOK
  BY DEF Init, CountersOK
<1>2. <<>> \in Seq(Nat)
  BY EmptySeq
<1>3. Init => HistoryOK
  BY <1>2 DEF Init, HistoryOK
<1> QED
  BY <1>1, <1>3

LEMMA CountersStep ==
  ASSUME CountersOK, DiskOK, ConfOK, [Next]_vars
  PROVE  CountersOK'
<1> USE DEF CountersOK
<1>1. ASSUME NEW t \in Thread, Configure(t) PROVE CountersOK'
  BY <1>1, SMT DEF Configure, SetLogLevel, ToggleRead, GetLogger, SetOutputs, SetMaxSize,
                   SetAppendCallback, ChangeFilters, OtherLogger, Begin, rot, hist
<1>2. ASSUME NEW t \in Thread, BeginAppend(t) \/ BeginReset(t) \/ BeginFinish(t) \/ BeginShrink(t)
      PROVE CountersOK'
  BY <1>2, SMT DEF BeginAppend, BeginReset, BeginFinish, BeginShrink, Begin, rot, hist
<1>3. ASSUME NEW t \in Thread, Continue(t) PROVE CountersOK'
  <2>1. CASE ToggleWrite(t) \/ GetLoggerOutputs(t) \/ ReadSpin(t) \/ ClearSpin(t)
             \/ CheckLevel(t) \/ SnapshotOutputs(t) \/ CheckLog(t) \/ IncrementIdx(t)
             \/ AfterAppend(t) \/ ReadCallback(t) \/ CheckFilter(t)
             \/ InvokeCallback(t) \/ ReadOutputs(t)
    BY <2>1, SMT DEF ToggleWrite, GetLoggerOutputs, ReadSpin, ClearSpin, CheckLevel,
                     SnapshotOutputs, CheckLog, IncrementIdx, AfterAppend, ReadCallback,
                     CheckFilter, InvokeCallback, ReadOutputs, rot, hist, bounds
  <2>2. CASE AcquireAppend(t)
    <3>1. num' \in Nat
      BY <2>2 DEF AcquireAppend, DiskOK
    <3> QED
      BY <2>2, <3>1, SMT DEF AcquireAppend, rot, hist, bounds
  <2>3. CASE WriteAppend(t) \/ RawAppend(t)
    <3>1. count' \in Nat
      BY <2>3, SMT DEF WriteAppend, RawAppend, WriteRecord, LoseRecord, hist
    <3>2. UNCHANGED <<limit, uses, calls, crashes>> /\ num' \in Nat
      BY <2>3, SMT DEF WriteAppend, RawAppend, rot, bounds
    <3> QED
      BY <3>1, <3>2
  <2>4. CASE Finish(t) \/ CloseLog(t) \/ OpenLog(t)
    <3>1. UNCHANGED <<num, rot, count, uses, bounds>>
      BY <2>4, Zenon DEF Finish, CloseLog, OpenLog, hist
    <3> QED
      BY <3>1 DEF rot, bounds
  <2>5. CASE CreateBackup(t)
    <3>1. CopyLimit \in Nat
      BY LenProperties DEF CopyLimit, Least, DiskOK, ConfOK
    <3> QED
      BY <2>5, <3>1, SMT DEF CreateBackup, hist, bounds
  <2>6. CASE CopyChunk(t) \/ CopyFails(t)
    <3>1. UNCHANGED <<num, limit, hist, uses, bounds>>
      BY <2>6 DEF CopyChunk, CopyFails
    <3> QED
      BY <3>1, SMT DEF hist, bounds
  <2>7. CASE SkipShrink(t) \/ StartShrink(t) \/ OpenReadFails(t) \/ MapFails(t)
             \/ RetireLog(t) \/ ReopenLog(t)
    <3>1. UNCHANGED <<num, hist, uses, bounds>>
      BY <2>7, Zenon DEF SkipShrink, StartShrink, OpenReadFails, MapFails, RetireLog,
                         ReopenLog
    <3>2. limit' \in {limit, 0}
      BY <2>7, Zenon DEF SkipShrink, StartShrink, OpenReadFails, MapFails, RetireLog,
                         ReopenLog, rot
    <3> QED
      BY <3>1, <3>2 DEF hist, bounds
  <2> QED
    BY <1>3, <2>1, <2>2, <2>3, <2>4, <2>5, <2>6, <2>7 DEF Continue
<1>4. CASE Crash
  <2>1. /\ num' = 0 /\ limit' = 0 /\ uses' = 0
        /\ count' = count /\ calls' = calls /\ crashes' = crashes + 1
    BY <1>4, Zenon DEF Crash
  <2> QED
    BY <2>1
<1>5. CASE UNCHANGED vars
  BY <1>5 DEF vars, rot, hist, bounds
<1> QED
  BY <1>1, <1>2, <1>3, <1>4, <1>5 DEF Next, Done, Start

LEMMA HistoryStep ==
  ASSUME HistoryOK, CountersOK, DiskOK, [Next]_vars
  PROVE  HistoryOK'
<1>1. ASSUME NEW t \in Thread, WriteAppend(t) PROVE HistoryOK'
  <2>1. ids' \in Seq(Nat)
    BY <1>1, AppendProperties DEF WriteAppend, hist, HistoryOK, CountersOK
  <2> QED
    BY <1>1, <2>1 DEF WriteAppend, hist, rot, HistoryOK
<1>2. ASSUME NEW t \in Thread, OpenLog(t) PROVE HistoryOK'
  BY <1>2, ElemsType DEF OpenLog, DiskOK, HistoryOK, rot
<1>3. CASE Crash
  BY <1>3, ElemsType, EmptySeq DEF Crash, DiskOK, HistoryOK
<1>4. ASSUME NEW t \in Thread, Start(t) PROVE HistoryOK'
  BY <1>4 DEF Start, Configure, SetLogLevel, ToggleRead, GetLogger, SetOutputs,
              SetMaxSize, SetAppendCallback, ChangeFilters, OtherLogger, BeginAppend,
              BeginReset, BeginFinish, BeginShrink, hist, rot, HistoryOK
<1>5. ASSUME NEW t \in Thread, Continue(t), ~WriteAppend(t), ~OpenLog(t)
      PROVE HistoryOK'
  <2>1. UNCHANGED <<ids, gone>>
    BY <1>5 DEF Continue, ToggleWrite, GetLoggerOutputs, ReadSpin, ClearSpin, CheckLevel,
                SnapshotOutputs, CheckLog, IncrementIdx, AcquireAppend, RawAppend,
                AfterAppend, ReadCallback, CheckFilter, InvokeCallback, ReadOutputs,
                Finish, CloseLog, SkipShrink, StartShrink, OpenReadFails, CreateBackup,
                CopyChunk, CopyFails, MapFails, RetireLog, ReopenLog, hist
  <2>2. CASE UNCHANGED torn
    BY <2>1, <2>2 DEF HistoryOK
  <2>3. CASE CopyChunk(t) \/ CopyFails(t) \/ ReopenLog(t)
    BY <2>1, <2>3, Zenon DEF CopyChunk, CopyFails, ReopenLog, HistoryOK
  <2>4. CASE ~CopyChunk(t) /\ ~CopyFails(t) /\ ~ReopenLog(t)
    BY <1>5, <2>2, <2>4, Zenon
       DEF Continue, ToggleWrite, GetLoggerOutputs, ReadSpin, ClearSpin, CheckLevel,
           SnapshotOutputs, CheckLog, IncrementIdx, AcquireAppend, RawAppend,
           AfterAppend, ReadCallback, CheckFilter, InvokeCallback, ReadOutputs, Finish,
           CloseLog, SkipShrink, StartShrink, OpenReadFails, CreateBackup, MapFails,
           RetireLog, rot
  <2> QED
    BY <2>3, <2>4
<1>6. CASE UNCHANGED vars
  BY <1>6 DEF vars, hist, rot, HistoryOK
<1> QED
  BY <1>1, <1>2, <1>3, <1>4, <1>5, <1>6 DEF Next, Done

\* While a thread holds or takes the lock no other is in a locked section.
LEMMA Alone ==
  ASSUME ControlInv, NEW t \in Thread, mutex = t \/ mutex = NoThread,
         NEW s \in Thread, s # t
  PROVE  pc[s] \notin Critical
  BY ThreadAssumption DEF ControlInv, LockInv

\* The steps that change neither disk nor rotation and stay out of the lock.
LEMMA RotationQuiet ==
  ASSUME RotationInv, ControlInv, ControlInv', NEW t \in Thread,
         \/ Configure(t)
         \/ BeginAppend(t) \/ BeginReset(t) \/ BeginFinish(t) \/ BeginShrink(t)
         \/ ToggleWrite(t) \/ GetLoggerOutputs(t) \/ ReadSpin(t) \/ ClearSpin(t)
         \/ CheckLevel(t) \/ SnapshotOutputs(t) \/ CheckLog(t) \/ IncrementIdx(t)
         \/ AfterAppend(t) \/ ReadCallback(t) \/ CheckFilter(t)
         \/ InvokeCallback(t) \/ ReadOutputs(t) \/ SkipShrink(t)
  PROVE  RotationInv'
<1> USE DEF ControlInv, ControlOK
<1>1. /\ \A s \in Thread \ {t} : pc'[s] = pc[s]
      /\ UNCHANGED mutex
  <2>1. CASE Configure(t)
    BY <2>1, SMT DEF Configure, SetLogLevel, ToggleRead, GetLogger, SetOutputs,
                     SetMaxSize, SetAppendCallback, ChangeFilters, OtherLogger, locals,
                     Go
  <2>2. CASE ~Configure(t)
    BY <2>2, SMT DEF BeginAppend, BeginReset, BeginFinish, BeginShrink, ToggleWrite,
                     GetLoggerOutputs, ReadSpin, ClearSpin, CheckLevel, SnapshotOutputs,
                     CheckLog, IncrementIdx, AfterAppend, ReadCallback, CheckFilter,
                     InvokeCallback, ReadOutputs, SkipShrink, Go, Enter, Return
  <2> QED
    BY <2>1, <2>2
<1>2. pc[t] \notin Critical
  BY SMT DEF Configure, SetLogLevel, ToggleRead, GetLogger, SetOutputs, SetMaxSize,
             SetAppendCallback, ChangeFilters, OtherLogger, Begin, BeginAppend,
             BeginReset, BeginFinish, BeginShrink, ToggleWrite, GetLoggerOutputs,
             ReadSpin, ClearSpin, CheckLevel, SnapshotOutputs, CheckLog, IncrementIdx,
             AfterAppend, ReadCallback, CheckFilter, InvokeCallback, ReadOutputs,
             SkipShrink, Critical
<1>3. pc'[t] \notin Critical
  BY <1>1, <1>2 DEF LockInv
<1>4. /\ UNCHANGED <<log, disk, rot>>
      /\ idx' \in Nat
  BY SMT DEF Configure, SetLogLevel, ToggleRead, GetLogger, SetOutputs, SetMaxSize,
             SetAppendCallback, ChangeFilters, OtherLogger, BeginAppend, BeginReset,
             BeginFinish, BeginShrink, ToggleWrite, GetLoggerOutputs, ReadSpin,
             ClearSpin, CheckLevel, SnapshotOutputs, CheckLog, IncrementIdx, AfterAppend,
             ReadCallback, CheckFilter, InvokeCallback, ReadOutputs, SkipShrink,
             RotationInv, DiskOK
<1> QED
  BY <1>1, <1>2, <1>3, <1>4, RotationFrame

\* What a step of the thread that holds or takes the lock has to establish.
RotationOf(t) ==
    /\ buf # <<>> => log
    /\ torn => pc[t] \in {"retire", "reopen"}
    /\ pc[t] \in {"open", "reopen"} => ~log
    /\ pc[t] \in {"remove", "copy", "retire"} => log /\ buf = <<>>
    /\ pc[t] = "remove" => Len(live) > 0
    /\ pc[t] \in {"copy", "retire", "reopen"} => limit \in 1 .. Len(live)
    /\ pc[t] = "copy" => Len(backup) < limit
    /\ pc[t] \in {"retire", "reopen"} /\ ~torn => backup = SubSeq(live, 1, limit)

LEMMA RotationAt ==
  ASSUME NEW t \in Thread, \A s \in Thread \ {t} : pc'[s] \notin Critical,
         DiskOK', RotationOf(t)'
  PROVE  RotationInv'
<1>1. StreamInv'
  BY DEF StreamInv, RotationOf, Critical
<1>2. CopyInv'
  BY DEF CopyInv, RotationOf, Critical
<1>3. RotationKeeps'
  BY DEF RotationKeeps, RotationOf, Critical
<1> QED
  BY <1>1, <1>2, <1>3 DEF RotationInv

LEMMA RotationHere ==
  ASSUME RotationInv, NEW t \in Thread, \A s \in Thread \ {t} : pc[s] \notin Critical
  PROVE  RotationOf(t)
  BY DEF RotationInv, StreamInv, CopyInv, RotationKeeps, RotationOf, Critical

\* The locked sections of append and of reset.
LEMMA RotationLocked ==
  ASSUME RotationInv, ControlInv, ControlInv', CountersOK, NEW t \in Thread,
         \/ AcquireAppend(t) \/ WriteAppend(t) \/ RawAppend(t) \/ Finish(t)
         \/ CloseLog(t) \/ OpenLog(t)
  PROVE  RotationInv'
<1>1. \A s \in Thread \ {t} : pc[s] \notin Critical
  BY Alone DEF AcquireAppend, WriteAppend, RawAppend, Finish, CloseLog, OpenLog, Lock,
               Unlock
<1>2. \A s \in Thread \ {t} : pc'[s] = pc[s]
  BY DEF AcquireAppend, WriteAppend, RawAppend, Finish, CloseLog, OpenLog, Returned, Go,
         Enter, Return, ControlInv, ControlOK
<1>3. RotationOf(t)
  BY <1>1, RotationHere
<1>4. DiskOK
  BY DEF RotationInv
<1>5. \A s \in Thread \ {t} : pc'[s] \notin Critical
  BY <1>1, <1>2
<1>6. t \in DOMAIN pc /\ t \in DOMAIN rtn
  BY DEF ControlInv, ControlOK
<1>7. ~torn
  BY <1>3 DEF RotationOf, AcquireAppend, WriteAppend, RawAppend, Finish, CloseLog, OpenLog
<1>8. CASE AcquireAppend(t)
  <2>1. DiskOK'
    BY <1>4, <1>8 DEF AcquireAppend, DiskOK, disk
  <2>2. pc'[t] = "write" /\ UNCHANGED <<log, buf, torn>>
    BY <1>6, <1>8 DEF AcquireAppend, Go, disk, rot
  <2>3. RotationOf(t)'
    BY <1>3, <1>7, <2>2 DEF RotationOf
  <2> QED
    BY <1>5, <2>1, <2>3, RotationAt
<1>9. CASE WriteAppend(t) \/ RawAppend(t)
  <2>1. live' \in Seq(Record) /\ buf' \in Seq(Record) /\ backup' = backup
    BY <1>4, <1>9, RecordTyped, Zenon DEF WriteAppend, RawAppend, LoseRecord, disk, DiskOK
  <2>2. UNCHANGED <<log, idx, torn>>
    BY <1>9 DEF WriteAppend, RawAppend, rot
  <2>3. DiskOK'
    BY <1>4, <2>1, <2>2 DEF DiskOK
  <2>4. buf' # <<>> => log'
    BY <1>3, <1>9, <2>2 DEF WriteAppend, RawAppend, LoseRecord, disk, RotationOf
  <2>5. pc'[t] \notin Critical
    BY <1>6, <1>9 DEF WriteAppend, RawAppend, Go, Enter, Critical
  <2>6. RotationOf(t)'
    BY <1>7, <2>2, <2>4, <2>5 DEF RotationOf, Critical
  <2> QED
    BY <1>5, <2>3, <2>6, RotationAt
<1>10. CASE Finish(t) \/ CloseLog(t)
  <2>1. live' \in Seq(Record) /\ buf' = <<>> /\ <<>> \in Seq(Record)
    BY <1>4, <1>10, FlushedType, EmptySeq DEF Finish, CloseLog
  <2>2. UNCHANGED <<backup, idx, torn>> /\ log' = FALSE
    BY <1>10 DEF Finish, CloseLog, rot
  <2>3. DiskOK'
    BY <1>4, <2>1, <2>2 DEF DiskOK
  <2>4. pc'[t] = "open" \/ pc'[t] \notin Critical
    <3>1. CASE CloseLog(t)
      BY <1>6, <3>1 DEF CloseLog, Go
    <3>2. CASE Finish(t)
      BY <1>6, <3>2 DEF Finish, Returned, Go, Enter, Return, Critical, ControlInv,
                        ControlOK
    <3> QED
      BY <1>10, <3>1, <3>2
  <2>5. RotationOf(t)'
    BY <1>7, <2>1, <2>2, <2>4 DEF RotationOf, Critical
  <2> QED
    BY <1>5, <2>3, <2>5, RotationAt
<1>11. CASE OpenLog(t)
  <2>1. live' \in {live, <<>>} /\ buf' = buf /\ backup' = backup /\ idx' = idx
    BY <1>11, Zenon DEF OpenLog
  <2>2. buf = <<>>
    BY <1>3, <1>11 DEF OpenLog, RotationOf
  <2>3. log' \in BOOLEAN /\ torn' = torn
    BY <1>4, <1>11, Zenon DEF OpenLog, DiskOK, rot
  <2>4. DiskOK'
    BY <1>4, <2>1, <2>3, EmptySeq DEF DiskOK
  <2>5. pc'[t] \notin Critical
    BY <1>6, <1>11 DEF OpenLog, Returned, Go, Enter, Return, Critical, ControlInv,
                       ControlOK
  <2>6. RotationOf(t)'
    BY <1>7, <2>1, <2>2, <2>3, <2>5 DEF RotationOf, Critical
  <2> QED
    BY <1>5, <2>4, <2>6, RotationAt
<1> QED
  BY <1>8, <1>9, <1>10, <1>11

\* The locked section of shrinkToFit.
LEMMA RotationShrink ==
  ASSUME RotationInv, ControlInv, ControlInv', ConfOK, CountersOK, NEW t \in Thread,
         \/ StartShrink(t) \/ OpenReadFails(t) \/ CreateBackup(t) \/ CopyChunk(t)
         \/ CopyFails(t) \/ MapFails(t) \/ RetireLog(t) \/ ReopenLog(t)
  PROVE  RotationInv'
<1>1. \A s \in Thread \ {t} : pc[s] \notin Critical
  <2>1. mutex = t \/ mutex = NoThread
    BY DEF StartShrink, OpenReadFails, CreateBackup, CopyChunk, CopyFails, MapFails,
           RetireLog, ReopenLog, Lock, Unlock, ControlInv, LockInv, Critical
  <2> QED
    BY <2>1, Alone
<1>2. \A s \in Thread \ {t} : pc'[s] = pc[s]
  BY DEF StartShrink, OpenReadFails, CreateBackup, CopyChunk, CopyFails, MapFails,
         RetireLog, ReopenLog, Go, Enter, Return, ControlInv, ControlOK
<1>3. RotationOf(t)
  BY <1>1, RotationHere
<1>4. DiskOK
  BY DEF RotationInv
<1>5. \A s \in Thread \ {t} : pc'[s] \notin Critical
  BY <1>1, <1>2
<1>6. t \in DOMAIN pc /\ t \in DOMAIN rtn
  BY DEF ControlInv, ControlOK
<1>7. rtn[t] \notin Critical
  BY DEF ControlInv, ControlOK, Critical
<1>8. Len(live) \in Nat /\ Len(buf) \in Nat /\ Len(backup) \in Nat
  BY <1>4, LenProperties DEF DiskOK
<1>9. CASE StartShrink(t)
  <2>1. pc'[t] = "remove" /\ buf' = <<>> /\ live' = Flushed /\ log
    BY <1>6, <1>9 DEF StartShrink, Go
  <2>2. UNCHANGED <<log, idx, backup, torn>>
    BY <1>9 DEF StartShrink, rot
  <2>3. DiskOK'
    BY <1>4, <2>1, <2>2, FlushedType, EmptySeq DEF DiskOK
  <2>4. Len(live) > 0
    BY <1>8, <1>9, SMT DEF StartShrink, AboveHalf, ConfOK
  <2>5. Len(live') > 0
    BY <1>4, <1>8, <2>1, <2>4, FlushedType
  <2>6. ~torn
    BY <1>3, <1>9 DEF StartShrink, RotationOf
  <2>7. RotationOf(t)'
    BY <2>1, <2>2, <2>5, <2>6 DEF RotationOf
  <2> QED
    BY <1>5, <2>3, <2>7, RotationAt
<1>10. CASE OpenReadFails(t) \/ MapFails(t)
  <2>1. UNCHANGED <<log, idx, live, buf, backup, torn>>
    BY <1>10 DEF OpenReadFails, MapFails, rot, disk
  <2>2. pc'[t] \notin Critical
    BY <1>6, <1>7, <1>10 DEF OpenReadFails, MapFails, Return, Enter, Go
  <2>3. DiskOK'
    BY <1>4, <2>1 DEF DiskOK
  <2>4. ~torn
    BY <1>3, <1>10 DEF OpenReadFails, MapFails, RotationOf
  <2>5. RotationOf(t)'
    BY <1>3, <2>1, <2>2, <2>4 DEF RotationOf, Critical
  <2> QED
    BY <1>5, <2>3, <2>5, RotationAt
<1>11. CASE CreateBackup(t)
  <2>1. UNCHANGED <<log, idx, live, buf, torn>> /\ backup' = <<>>
    BY <1>11 DEF CreateBackup
  <2>2. DiskOK'
    BY <1>4, <2>1, EmptySeq DEF DiskOK
  <2>3. ~torn /\ log /\ buf = <<>> /\ Len(live) > 0
    BY <1>3, <1>11 DEF CreateBackup, RotationOf
  <2>4. \/ pc'[t] = "copy" /\ limit' = CopyLimit
        \/ pc'[t] \notin Critical
    BY <1>6, <1>7, <1>11 DEF CreateBackup, Return, Enter, Go
  <2>5. CopyLimit \in 1 .. Len(live)
    BY <1>8, <2>3 DEF CopyLimit, Least, ConfOK
  <2>6. Len(backup') = 0
    BY <2>1
  <2>7. RotationOf(t)'
    <3>1. CASE pc'[t] = "copy" /\ limit' = CopyLimit
      BY <2>1, <2>3, <2>5, <2>6, <3>1 DEF RotationOf
    <3>2. CASE pc'[t] \notin Critical
      BY <2>1, <2>3, <3>2 DEF RotationOf, Critical
    <3> QED
      BY <2>4, <3>1, <3>2
  <2> QED
    BY <1>5, <2>2, <2>7, RotationAt
<1>12. CASE CopyChunk(t)
  <2> DEFINE upto == Least(Len(backup) + ChunkSize, limit)
  <2>1. UNCHANGED <<log, idx, live, buf, limit>> /\ backup' = SubSeq(live, 1, upto)
    BY <1>12 DEF CopyChunk
  <2>2. ~torn /\ log /\ buf = <<>> /\ limit \in 1 .. Len(live) /\ Len(backup) < limit
    BY <1>3, <1>12 DEF CopyChunk, RotationOf
  <2>3. upto \in 0 .. Len(live) /\ upto <= limit
    BY <1>8, <2>2, SizeAssumption, SMT DEF Least
  <2>4. backup' \in Seq(Record) /\ Len(backup') = upto
    BY <1>4, <2>1, <2>3, SubSeqFromOne DEF DiskOK
  <2>5. DiskOK'
    BY <1>4, <2>1, <2>4 DEF DiskOK
  <2>6. \/ pc'[t] = "retire" /\ (torn' \/ upto = limit)
        \/ pc'[t] = "copy" /\ ~torn' /\ upto # limit
    <3>1. CASE torn' \/ Len(backup') = limit
      BY <1>6, <1>12, <2>4, <3>1 DEF CopyChunk, Go
    <3>2. CASE ~torn' /\ Len(backup') # limit
      BY <1>6, <1>12, <2>4, <3>2 DEF CopyChunk, Go
    <3> QED
      BY <2>4, <3>1, <3>2
  <2>7. RotationOf(t)'
    <3> HIDE DEF upto
    <3>1. CASE pc'[t] = "retire" /\ (torn' \/ upto = limit)
      BY <2>1, <2>2, <3>1 DEF RotationOf
    <3>2. CASE pc'[t] = "copy" /\ ~torn' /\ upto # limit
      BY <2>1, <2>2, <2>3, <2>4, <3>2 DEF RotationOf
    <3> QED
      BY <2>6, <3>1, <3>2
  <2> QED
    BY <1>5, <2>5, <2>7, RotationAt
<1>13. CASE CopyFails(t)
  <2>1. UNCHANGED <<log, idx, live, buf, limit>> /\ torn' = TRUE /\ pc'[t] = "retire"
    BY <1>6, <1>13 DEF CopyFails, Go
  <2>2. log /\ buf = <<>> /\ limit \in 1 .. Len(live) /\ Len(backup) < limit
    BY <1>3, <1>13 DEF CopyFails, RotationOf
  <2>3. PICK n \in Len(backup) .. Least(Len(backup) + ChunkSize, limit) - 1 :
            backup' = SubSeq(live, 1, n)
    BY <1>13 DEF CopyFails
  <2>4. n \in 0 .. Len(live)
    BY <1>8, <2>2, SizeAssumption, SMT DEF Least
  <2>5. backup' \in Seq(Record)
    BY <1>4, <2>3, <2>4, SubSeqFromOne DEF DiskOK
  <2>6. DiskOK'
    BY <1>4, <2>1, <2>5 DEF DiskOK
  <2>7. RotationOf(t)'
    BY <2>1, <2>2 DEF RotationOf
  <2> QED
    BY <1>5, <2>6, <2>7, RotationAt
<1>14. CASE RetireLog(t)
  <2>1. UNCHANGED <<idx, live, buf, backup, limit, torn>>
    BY <1>14 DEF RetireLog, disk, rot
  <2>2. pc[t] = "retire" /\ pc'[t] = "reopen" /\ log' = FALSE
    BY <1>6, <1>14 DEF RetireLog, Go
  <2>3. DiskOK'
    BY <1>4, <2>1, <2>2 DEF DiskOK
  <2>4. RotationOf(t)'
    BY <1>3, <2>1, <2>2 DEF RotationOf
  <2> QED
    BY <1>5, <2>3, <2>4, RotationAt
<1>15. CASE ReopenLog(t)
  <2>1. UNCHANGED <<idx, buf, backup>> /\ live' \in {live, <<>>} /\ torn' = FALSE
    BY <1>15 DEF ReopenLog
  <2>2. log' \in BOOLEAN
    BY <1>4, <1>15 DEF ReopenLog, DiskOK
  <2>3. DiskOK'
    BY <1>4, <2>1, <2>2, EmptySeq DEF DiskOK
  <2>4. pc'[t] \notin Critical
    BY <1>6, <1>7, <1>15 DEF ReopenLog, Return, Enter, Go
  <2>5. buf' # <<>> => log'
    BY <1>3, <1>15, <2>1 DEF ReopenLog, RotationOf
  <2>6. RotationOf(t)'
    BY <2>1, <2>4, <2>5 DEF RotationOf, Critical
  <2> QED
    BY <1>5, <2>3, <2>6, RotationAt
<1> QED
  BY <1>9, <1>10, <1>11, <1>12, <1>13, <1>14, <1>15

LEMMA RotationStep ==
  ASSUME RotationInv, ControlInv, ConfOK, CountersOK, [Next]_vars
  PROVE  RotationInv'
<1>1. ControlInv'
  BY ControlStep
<1>2. ASSUME NEW t \in Thread, Start(t) PROVE RotationInv'
  BY <1>1, <1>2, RotationQuiet DEF Start
<1>3. ASSUME NEW t \in Thread, Continue(t) PROVE RotationInv'
  BY <1>1, <1>3, RotationQuiet, RotationLocked, RotationShrink DEF Continue
<1>4. CASE Crash
  <2>1. /\ log' = FALSE /\ idx' = 0 /\ buf' = <<>> /\ torn' = FALSE
        /\ UNCHANGED <<live, backup>>
    BY <1>4, Zenon DEF Crash
  <2>2. \A t \in Thread : pc'[t] = "idle"
    BY <1>4 DEF Crash
  <2>3. DiskOK'
    BY <2>1, EmptySeq DEF RotationInv, DiskOK
  <2> QED
    BY <2>1, <2>2, <2>3 DEF RotationInv, StreamInv, CopyInv, RotationKeeps
<1>5. CASE UNCHANGED vars
  <2>1. UNCHANGED <<pc, log, idx, buf, live, backup, limit, torn>>
    BY <1>5 DEF vars, disk, rot
  <2> QED
    BY <2>1 DEF RotationInv, DiskOK, StreamInv, CopyInv, RotationKeeps
<1> QED
  BY <1>2, <1>3, <1>4, <1>5 DEF Next, Done

-----------------------------------------------------------------------------
(* The inductive invariant of the whole specification. *)

IInv ==
    /\ ControlInv /\ ConfOK /\ LocalsOK /\ CountersOK /\ HistoryOK
    /\ ToggleInv /\ RotationInv

THEOREM Invariance == Spec => []IInv
<1>1. Init => IInv
  <2>1. Init => ToggleInv
    BY DEF Init, ToggleInv
  <2> QED
    BY <2>1, ControlInit, ConfInit, LocalsInit, CountersInit, RotationInit DEF IInv
<1>2. IInv /\ [Next]_vars => IInv'
  <2> SUFFICES ASSUME IInv, [Next]_vars PROVE IInv'
    OBVIOUS
  <2>1. DiskOK /\ ControlOK
    BY DEF IInv, RotationInv, ControlInv
  <2> QED
    BY <2>1, ControlStep, ConfStep, LocalsStep, CountersStep, HistoryStep, ToggleStep,
       RotationStep DEF IInv
<1> QED
  BY <1>1, <1>2, PTL DEF Spec

\* Every variable of the Logger keeps its type, however many threads call it and
\* whatever fails.
THEOREM TypeCorrect == Spec => []TypeOK
<1>1. IInv => TypeOK
  BY DEF IInv, TypeOK, ControlInv, RotationInv
<1> QED
  BY <1>1, Invariance, PTL

\* Nobody touches the stream or the file between two steps of a reset or of a
\* rotation: unwritten records belong to an open log, and a rotation copies from a
\* file nothing is missing from.
THEOREM StreamCorrect == Spec => []StreamInv
<1>1. IInv => StreamInv
  BY DEF IInv, RotationInv
<1> QED
  BY <1>1, Invariance, PTL

\* When shrinkToFit truncates the log, the backup holds exactly the first `limit`
\* records of it, unless the write of a chunk reported a failure.
THEOREM RotationCorrect == Spec => []RotationKeeps
<1>1. IInv => RotationKeeps
  BY DEF IInv, RotationInv
<1> QED
  BY <1>1, Invariance, PTL

=============================================================================
