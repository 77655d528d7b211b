-------------------------- MODULE LoggerStoreProofs --------------------------
(***************************************************************************)
(* Proofs that the file and its backup keep the order of writing, and that *)
(* the Logger implements the store of RecordStore, for every value of its  *)
(* constants.  A step of the Logger has one of six effects on the records  *)
(* (Effect); the order and the refinement follow from the effect alone.    *)
(***************************************************************************)
EXTENDS LoggerDiskProofs

(* Prefixes and increasing sequences. *)

LEMMA PrefixOfConcat ==
  ASSUME NEW s \in Seq(Record), NEW u \in Seq(Record)
  PROVE  Prefix(s, s \o u)
  BY LenProperties, ConcatProperties DEF Prefix

LEMMA PrefixOfAppend ==
  ASSUME NEW s \in Seq(Record), NEW e \in Record
  PROVE  Prefix(s, Append(s, e))
  BY LenProperties, AppendProperties DEF Prefix

LEMMA PrefixOfSubSeq ==
  ASSUME NEW s \in Seq(Record), NEW n \in 0 .. Len(s)
  PROVE  SubSeq(s, 1, n) \in Seq(Record) /\ Prefix(SubSeq(s, 1, n), s)
<1>1. \A i \in 1 .. n : s[i] \in Record
  BY ElementOfSeq
<1>2. /\ SubSeq(s, 1, n) \in Seq(Record)
      /\ Len(SubSeq(s, 1, n)) = n
      /\ \A i \in 1 .. n : SubSeq(s, 1, n)[i] = s[i]
  BY <1>1, SubSeqProperties
<1> QED
  BY <1>2, LenProperties DEF Prefix

LEMMA PrefixTransitive ==
  ASSUME NEW s \in Seq(Record), NEW u \in Seq(Record), NEW v \in Seq(Record),
         Prefix(s, u), Prefix(u, v)
  PROVE  Prefix(s, v)
  BY LenProperties DEF Prefix

LEMMA PrefixElems ==
  ASSUME NEW s \in Seq(Record), NEW u \in Seq(Record), Prefix(s, u)
  PROVE  Elems(s) \subseteq Elems(u)
  BY LenProperties DEF Prefix, Elems

LEMMA PrefixIncreasing ==
  ASSUME NEW s \in Seq(Record), NEW u \in Seq(Record), Prefix(s, u), Increasing(u)
  PROVE  Increasing(s)
  BY LenProperties DEF Prefix, Increasing

LEMMA AppendIncreasing ==
  ASSUME NEW s \in Seq(Record), Increasing(s), NEW e \in Record,
         \A n \in Elems(s) : n < e
  PROVE  Increasing(Append(s, e))
<1>1. /\ Len(s) \in Nat /\ DOMAIN s = 1 .. Len(s)
      /\ Len(Append(s, e)) = Len(s) + 1
      /\ DOMAIN Append(s, e) = 1 .. Len(s) + 1
      /\ \A i \in 1 .. Len(s) : Append(s, e)[i] = s[i]
      /\ Append(s, e)[Len(s) + 1] = e
  BY LenProperties, AppendProperties
<1>2. \A i \in 1 .. Len(s) : s[i] < e
  BY <1>1 DEF Elems
<1> QED
  BY <1>1, <1>2 DEF Increasing

LEMMA EmptyFacts ==
  /\ <<>> \in Seq(Record) /\ Elems(<<>>) = {} /\ Increasing(<<>>)
  /\ \A s \in Seq(Record) : Prefix(<<>>, s) /\ s \o <<>> = s
<1>1. <<>> \in Seq(Record) /\ Elems(<<>>) = {} /\ Increasing(<<>>)
  BY EmptySeq DEF Elems, Increasing
<1>2. ASSUME NEW s \in Seq(Record) PROVE Prefix(<<>>, s) /\ s \o <<>> = s
  BY LenProperties, ConcatEmptySeq DEF Prefix
<1> QED
  BY <1>1, <1>2

-----------------------------------------------------------------------------
(* What a step can do to the records. *)

Keeps   == UNCHANGED <<live, buf, backup, count>>
Flushes == live' = Flushed /\ buf' = <<>> /\ UNCHANGED <<backup, count>>
Writes  == (\E flush \in BOOLEAN : WriteRecord(flush)) /\ UNCHANGED backup
Drops   == live' = <<>> /\ buf = <<>> /\ UNCHANGED <<buf, backup, count>>
Clears  == backup' = <<>> /\ UNCHANGED <<live, buf, count>>
Copies  == /\ \E n \in 0 .. Len(live) : backup' = SubSeq(live, 1, n)
           /\ UNCHANGED <<live, buf, count>>

\* Where the backup is being copied, or has been, from the log.
Copying == {"copy", "retire", "reopen"}

\* While a thread copies, the backup is the beginning of the log.
BackupInv == \A t \in Thread : pc[t] \in Copying => Prefix(backup, live)

Effect ==
    \/ Keeps \/ Flushes \/ Writes \/ Drops \/ Clears
    \/ Copies /\ Prefix(backup, live)

LEMMA EffectOfStart ==
  ASSUME NEW t \in Thread, Start(t)
  PROVE  Keeps
  BY DEF Start, Configure, SetLogLevel, ToggleRead, GetLogger, SetOutputs, SetMaxSize,
     SetAppendCallback, ChangeFilters, OtherLogger, BeginAppend, BeginReset, BeginFinish,
     BeginShrink, disk, hist, Keeps

LEMMA EffectOfAppend ==
  ASSUME NEW t \in Thread, WriteAppend(t) \/ RawAppend(t)
  PROVE  Keeps \/ Writes
<1>1. CASE WriteRecord(FlushDue) /\ UNCHANGED backup
  <2>1. FlushDue \in BOOLEAN
    BY DEF FlushDue
  <2> QED
    BY <1>1, <2>1 DEF Writes
<1>2. CASE WriteRecord(FALSE) /\ UNCHANGED backup
  BY <1>2 DEF Writes
<1> QED
  BY <1>1, <1>2 DEF WriteAppend, RawAppend, LoseRecord, disk, hist, Keeps

\* The steps of a rotation that write the backup.
LEMMA EffectOfCopy ==
  ASSUME IInv, BackupInv, NEW t \in Thread, CopyChunk(t) \/ CopyFails(t)
  PROVE  Copies /\ Prefix(backup, live) /\ pc[t] = "copy"
<1>1. /\ Len(live) \in Nat /\ Len(backup) \in Nat /\ pc[t] = "copy"
      /\ UNCHANGED <<live, buf, count>>
  BY LenProperties DEF IInv, RotationInv, DiskOK, CopyChunk, CopyFails, hist
<1>2. limit \in 1 .. Len(live) /\ Len(backup) < limit
  BY <1>1 DEF IInv, RotationInv, CopyInv
<1>3. CASE CopyChunk(t)
  <2>1. Least(Len(backup) + ChunkSize, limit) \in 0 .. Len(live)
    BY <1>1, <1>2, SizeAssumption DEF Least
  <2> QED
    BY <1>1, <1>3, <2>1 DEF CopyChunk, Copies, BackupInv, Copying
<1>4. CASE CopyFails(t)
  <2>1. PICK n \in Len(backup) .. Least(Len(backup) + ChunkSize, limit) - 1 :
            backup' = SubSeq(live, 1, n)
    BY <1>4 DEF CopyFails
  <2>2. n \in 0 .. Len(live)
    BY <1>1, <1>2, SizeAssumption DEF Least
  <2> QED
    BY <1>1, <2>1, <2>2 DEF Copies, BackupInv, Copying
<1> QED
  BY <1>3, <1>4

\* An open or a reopen of the file finds nothing in the stream.
LEMMA EffectOfOpen ==
  ASSUME IInv, NEW t \in Thread, OpenLog(t) \/ ReopenLog(t)
  PROVE  Keeps \/ Drops
<1>1. buf = <<>>
  BY DEF IInv, RotationInv, StreamInv, OpenLog, ReopenLog
<1> QED
  BY <1>1 DEF OpenLog, ReopenLog, hist, Keeps, Drops

LEMMA EffectOfStep ==
  ASSUME IInv, BackupInv, NEW t \in Thread, Start(t) \/ Continue(t)
  PROVE  Effect
<1>1. CASE Finish(t) \/ CloseLog(t) \/ StartShrink(t)
  BY <1>1 DEF Finish, CloseLog, StartShrink, hist, Flushes, Effect
<1>2. CASE CreateBackup(t)
  BY <1>2 DEF CreateBackup, hist, Clears, Effect
<1>3. CASE Continue(t) /\ ~WriteAppend(t) /\ ~RawAppend(t) /\ ~CopyChunk(t)
           /\ ~CopyFails(t) /\ ~OpenLog(t) /\ ~ReopenLog(t) /\ ~Finish(t)
           /\ ~CloseLog(t) /\ ~StartShrink(t) /\ ~CreateBackup(t)
  BY <1>3 DEF Continue, ToggleWrite, GetLoggerOutputs, ReadSpin, ClearSpin, CheckLevel,
     SnapshotOutputs, CheckLog, IncrementIdx, AcquireAppend, AfterAppend, ReadCallback,
     CheckFilter, InvokeCallback, ReadOutputs, SkipShrink, OpenReadFails, MapFails,
     RetireLog, disk, hist, Keeps, Effect
<1> QED
  BY <1>1, <1>2, <1>3, EffectOfStart, EffectOfAppend, EffectOfCopy, EffectOfOpen
     DEF Effect

-----------------------------------------------------------------------------
(* The backup is the beginning of the log while it is being made. *)

\* Other threads leave the files alone while one is in a locked section.
LEMMA OthersKeep ==
  ASSUME ControlInv, NEW t \in Thread, NEW s \in Thread, s # t, pc[s] \in Critical,
         Start(t) \/ Continue(t)
  PROVE  Keeps /\ pc'[s] = pc[s]
<1>1. mutex = s /\ mutex # t /\ mutex # NoThread /\ pc[t] \notin Critical
  BY ThreadAssumption DEF ControlInv, LockInv
<1>2. ASSUME Start(t) PROVE pc'[s] = pc[s]
  BY <1>2 DEF Start, Configure, SetLogLevel, ToggleRead, GetLogger, SetOutputs, SetMaxSize,
     SetAppendCallback, ChangeFilters, OtherLogger, BeginAppend, BeginReset, BeginFinish,
     BeginShrink, locals, Go, Enter, ControlInv, ControlOK
<1>3. ASSUME Continue(t) PROVE Keeps /\ pc'[s] = pc[s]
  <2>1. /\ ~WriteAppend(t) /\ ~RawAppend(t) /\ ~Finish(t) /\ ~CloseLog(t) /\ ~OpenLog(t)
        /\ ~StartShrink(t) /\ ~OpenReadFails(t) /\ ~CreateBackup(t) /\ ~CopyChunk(t)
        /\ ~CopyFails(t) /\ ~MapFails(t) /\ ~RetireLog(t) /\ ~ReopenLog(t)
        /\ ~AcquireAppend(t) /\ ~SkipShrink(t)
    BY <1>1 DEF WriteAppend, RawAppend, Finish, CloseLog, OpenLog, StartShrink,
       OpenReadFails, CreateBackup, CopyChunk, CopyFails, MapFails, RetireLog, ReopenLog,
       AcquireAppend, SkipShrink, Lock, Unlock, Critical
  <2> QED
    BY <1>3, <2>1 DEF Continue, ToggleWrite, GetLoggerOutputs, ReadSpin, ClearSpin,
       CheckLevel, SnapshotOutputs, CheckLog, IncrementIdx, AfterAppend, ReadCallback,
       CheckFilter, InvokeCallback, ReadOutputs, disk, hist, Keeps, Go, Enter, ControlInv,
       ControlOK
<1> QED
  BY <1>2, <1>3, EffectOfStart

\* Only a rotation leads to the labels of a copy.
LEMMA OwnCopying ==
  ASSUME ControlInv, NEW t \in Thread, Start(t) \/ Continue(t), pc'[t] \in Copying
  PROVE  CreateBackup(t) \/ CopyChunk(t) \/ CopyFails(t) \/ RetireLog(t)
<1> USE DEF Copying, Go, Enter, Return, ControlInv, ControlOK
<1>1. CASE Start(t)
  BY <1>1 DEF Start, Configure, SetLogLevel, ToggleRead, GetLogger, SetOutputs, SetMaxSize,
     SetAppendCallback, ChangeFilters, OtherLogger, BeginAppend, BeginReset, BeginFinish,
     BeginShrink, Begin, locals
<1>2. CASE \/ ToggleWrite(t) \/ GetLoggerOutputs(t) \/ ReadSpin(t) \/ ClearSpin(t)
           \/ CheckLevel(t) \/ SnapshotOutputs(t) \/ CheckLog(t) \/ IncrementIdx(t)
           \/ AcquireAppend(t) \/ AfterAppend(t)
  BY <1>2 DEF ToggleWrite, GetLoggerOutputs, ReadSpin, ClearSpin, CheckLevel,
     SnapshotOutputs, CheckLog, IncrementIdx, AcquireAppend, AfterAppend
<1>3. CASE \/ WriteAppend(t) \/ RawAppend(t) \/ ReadCallback(t) \/ CheckFilter(t)
           \/ InvokeCallback(t) \/ ReadOutputs(t)
  BY <1>3 DEF WriteAppend, RawAppend, ReadCallback, CheckFilter, InvokeCallback,
     ReadOutputs
<1>4. CASE \/ Finish(t) \/ CloseLog(t) \/ OpenLog(t) \/ SkipShrink(t) \/ StartShrink(t)
           \/ OpenReadFails(t) \/ MapFails(t) \/ ReopenLog(t)
  BY <1>4 DEF Finish, CloseLog, OpenLog, Returned, SkipShrink, StartShrink, OpenReadFails,
     MapFails, ReopenLog
<1> QED
  BY <1>1, <1>2, <1>3, <1>4 DEF Continue

LEMMA BackupStep ==
  ASSUME IInv, BackupInv, [Next]_vars
  PROVE  BackupInv'
<1>1. /\ ControlInv /\ live \in Seq(Record)
  BY DEF IInv, RotationInv, DiskOK
<1>2. ASSUME NEW t \in Thread, Start(t) \/ Continue(t), NEW s \in Thread,
             pc'[s] \in Copying
      PROVE  Prefix(backup', live')
  <2>1. CASE s # t /\ pc[s] \in Copying
    <3>1. Keeps
      BY <1>1, <1>2, <2>1, OthersKeep DEF Copying, Critical
    <3>2. Prefix(backup, live)
      BY <2>1 DEF BackupInv
    <3> QED
      BY <3>1, <3>2 DEF Keeps
  <2>2. CASE s # t /\ pc[s] \notin Copying
    <3>1. pc'[s] = pc[s]
      BY <1>1, <1>2, <2>2 DEF Start, Configure, SetLogLevel, ToggleRead, GetLogger,
         SetOutputs, SetMaxSize, SetAppendCallback, ChangeFilters, OtherLogger,
         BeginAppend, BeginReset, BeginFinish, BeginShrink, locals, Continue, ToggleWrite,
         GetLoggerOutputs, ReadSpin, ClearSpin, CheckLevel, SnapshotOutputs, CheckLog,
         IncrementIdx, AcquireAppend, WriteAppend, RawAppend, AfterAppend, ReadCallback,
         CheckFilter, InvokeCallback, ReadOutputs, Finish, CloseLog, OpenLog, Returned,
         SkipShrink, StartShrink, OpenReadFails, CreateBackup, CopyChunk, CopyFails,
         MapFails, RetireLog, ReopenLog, Go, Enter, Return, ControlInv, ControlOK
    <3> QED
      BY <1>2, <2>2, <3>1
  <2>3. CASE s = t
    <3>1. CreateBackup(t) \/ CopyChunk(t) \/ CopyFails(t) \/ RetireLog(t)
      BY <1>1, <1>2, <2>3, OwnCopying
    <3>2. CASE CreateBackup(t)
      BY <1>1, <3>2, EmptyFacts DEF CreateBackup
    <3>3. CASE CopyChunk(t) \/ CopyFails(t)
      BY <1>1, <3>3, EffectOfCopy, PrefixOfSubSeq DEF Copies
    <3>4. CASE RetireLog(t)
      BY <3>4 DEF RetireLog, disk, BackupInv, Copying
    <3> QED
      BY <3>1, <3>2, <3>3, <3>4
  <2> QED
    BY <2>1, <2>2, <2>3
<1>3. CASE Crash
  BY <1>3 DEF Crash, BackupInv, Copying
<1>4. CASE UNCHANGED vars
  BY <1>4 DEF vars, disk, BackupInv
<1> QED
  BY <1>2, <1>3, <1>4 DEF Next, Done, BackupInv

-----------------------------------------------------------------------------
(* The order of the records. *)

\* Every record in the files was written.
StoredUpTo == \A n \in Stored : n <= count

OrderInv == StoredUpTo /\ DiskOrder /\ BackupInv

LEMMA DiskFacts ==
  ASSUME DiskOK
  PROVE  /\ live \in Seq(Record) /\ buf \in Seq(Record) /\ backup \in Seq(Record)
         /\ Flushed \in Seq(Record) /\ Flushed = live \o buf
         /\ Prefix(live, Flushed)
         /\ Elems(Flushed) = Elems(live) \cup Elems(buf)
         /\ Stored = Elems(backup) \cup Elems(Flushed)
         /\ Stored \subseteq Record
<1>1. /\ live \in Seq(Record) /\ buf \in Seq(Record) /\ backup \in Seq(Record)
      /\ Flushed \in Seq(Record) /\ Flushed = live \o buf
      /\ Prefix(live, Flushed)
  BY FlushedType, PrefixOfConcat DEF DiskOK, Flushed
<1>2. Elems(Flushed) = Elems(live) \cup Elems(buf)
  BY KeptByFlush DEF Kept
<1>3. Elems(backup) \subseteq Record /\ Elems(Flushed) \subseteq Record
  BY <1>1, ElemsType
<1> QED
  BY <1>1, <1>2, <1>3 DEF Stored

\* One record more, at the end of the stream.
LEMMA WriteEffect ==
  ASSUME DiskOK, CountersOK, Writes
  PROVE  /\ count' = count + 1 /\ count' \in Record
         /\ live' \in Seq(Record) /\ buf' \in Seq(Record)
         /\ Flushed' = Append(Flushed, count')
         /\ \/ live' = live /\ buf' = Append(buf, count')
            \/ live' = Flushed' /\ buf' = <<>>
<1>1. PICK flush \in BOOLEAN : WriteRecord(flush)
  BY DEF Writes
<1>2. count' = count + 1 /\ count' \in Record
  BY <1>1 DEF WriteRecord, CountersOK, Record
<1>3. live' \in Seq(Record) /\ buf' \in Seq(Record)
  BY <1>1, RecordTyped
<1>4. CASE buf' = Append(buf, count') /\ live' = live
  <2>1. Append(buf, count') = buf \o <<count'>> /\ <<count'>> \in Seq(Record)
    BY <1>2, DiskFacts, AppendIsConcat
  <2>2. Append(Flushed, count') = Flushed \o <<count'>>
    BY <1>2, DiskFacts, AppendIsConcat
  <2>3. live \o (buf \o <<count'>>) = (live \o buf) \o <<count'>>
    BY <2>1, DiskFacts, ConcatAssociative
  <2>4. Flushed' = Append(Flushed, count')
    BY <1>2, <1>4, <2>1, <2>2, <2>3 DEF Flushed
  <2> QED
    BY <1>2, <1>3, <1>4, <2>4
<1>5. CASE live' = Append(Flushed, count') /\ buf' = <<>>
  <2>1. Flushed' = live'
    BY <1>3, <1>5, EmptyFacts DEF Flushed
  <2> QED
    BY <1>2, <1>3, <1>5, <2>1
<1>6. \/ buf' = Append(buf, count') /\ live' = live
      \/ live' = Append(Flushed, count') /\ buf' = <<>>
  BY <1>1, Zenon DEF WriteRecord
<1> QED
  BY <1>4, <1>5, <1>6

LEMMA OrderInit == Init => OrderInv
<1> SUFFICES ASSUME Init PROVE OrderInv
  OBVIOUS
<1>1. buf = <<>> /\ live = <<>> /\ backup = <<>>
  BY DEF Init
<1>2. live \o buf = <<>>
  BY <1>1, EmptyFacts
<1>3. Stored = {}
  BY <1>1, EmptyFacts DEF Stored
<1>4. DiskOrder
  BY <1>1, <1>2, EmptyFacts DEF DiskOrder
<1>5. BackupInv
  BY <1>1, EmptyFacts DEF BackupInv
<1> QED
  BY <1>3, <1>4, <1>5 DEF OrderInv, StoredUpTo

\* The order is kept by each effect.
LEMMA OrderByEffect ==
  ASSUME DiskOK, DiskOK', CountersOK, StoredUpTo, DiskOrder, Effect
  PROVE  StoredUpTo' /\ DiskOrder'
<1> DEFINE stream == live \o buf
<1>1. /\ live \in Seq(Record) /\ buf \in Seq(Record) /\ backup \in Seq(Record)
      /\ stream = Flushed /\ stream \in Seq(Record) /\ Prefix(live, stream)
      /\ Elems(stream) = Elems(live) \cup Elems(buf)
      /\ Stored = Elems(backup) \cup Elems(stream) /\ Stored \subseteq Record
      /\ count \in Nat
  BY DiskFacts DEF CountersOK
<1>2. /\ Stored' = Elems(backup') \cup Elems(stream')
      /\ live' \in Seq(Record) /\ buf' \in Seq(Record)
  BY DiskFacts, ElemsConcat DEF DiskOK, Stored
<1>3. Increasing(stream) /\ Increasing(backup)
  BY DEF DiskOrder
<1>4. CASE Keeps
  BY <1>4 DEF Keeps, StoredUpTo, DiskOrder, Stored
<1>5. CASE Flushes
  <2>1. stream' = stream /\ live' = stream
    BY <1>1, <1>5, EmptyFacts DEF Flushes
  <2>2. StoredUpTo'
    BY <1>1, <1>2, <1>5, <2>1 DEF Flushes, StoredUpTo
  <2>3. Prefix(backup, live) => Prefix(backup, live')
    BY <1>1, <2>1, PrefixTransitive
  <2> QED
    BY <1>5, <2>1, <2>2, <2>3 DEF Flushes, DiskOrder
<1>6. CASE Writes
  <2>1. /\ count' = count + 1 /\ count' \in Record
        /\ stream' = Append(stream, count')
        /\ live' = live \/ live' = stream'
        /\ backup' = backup
    BY <1>1, <1>6, WriteEffect DEF Flushed, Writes
  <2>2. Elems(stream') = Elems(stream) \cup {count'}
    BY <1>1, <2>1, ElemsAppend
  <2>3. \A n \in Stored : n < count'
    BY <1>1, <2>1 DEF StoredUpTo
  <2>4. StoredUpTo'
    BY <1>1, <1>2, <2>1, <2>2, <2>3 DEF StoredUpTo, Record
  <2>5. Increasing(stream')
    BY <1>1, <1>3, <2>1, <2>3, AppendIncreasing
  <2>6. Prefix(backup, live) => Prefix(backup, live')
    <3>1. Prefix(stream, Append(stream, count')) /\ Append(stream, count') \in Seq(Record)
      BY <1>1, <2>1, PrefixOfAppend, AppendProperties
    <3> QED
      BY <1>1, <2>1, <3>1, PrefixTransitive
  <2>7. (\A n \in Elems(backup), m \in Elems(stream) : n < m)
        => \A n \in Elems(backup'), m \in Elems(stream') : n < m
    BY <1>1, <2>1, <2>2, <2>3
  <2> QED
    BY <1>3, <2>1, <2>4, <2>5, <2>6, <2>7 DEF DiskOrder
<1>7. CASE Drops
  <2>1. stream' = <<>> /\ backup' = backup /\ count' = count
    BY <1>7, EmptyFacts DEF Drops
  <2>2. StoredUpTo'
    BY <1>1, <1>2, <2>1, EmptyFacts DEF StoredUpTo
  <2> QED
    BY <1>3, <2>1, <2>2, EmptyFacts DEF DiskOrder
<1>8. CASE Clears
  <2>1. stream' = stream /\ live' = live /\ backup' = <<>> /\ count' = count
    BY <1>8 DEF Clears
  <2>2. StoredUpTo'
    BY <1>1, <1>2, <2>1, EmptyFacts DEF StoredUpTo
  <2> QED
    BY <1>1, <1>3, <2>1, <2>2, EmptyFacts DEF DiskOrder
<1>9. CASE Copies
  <2>1. /\ stream' = stream /\ live' = live /\ count' = count
        /\ backup' \in Seq(Record) /\ Prefix(backup', live)
    BY <1>1, <1>9, PrefixOfSubSeq DEF Copies
  <2>2. Elems(backup') \subseteq Elems(live) /\ Increasing(live)
    BY <1>1, <1>3, <2>1, PrefixElems, PrefixIncreasing
  <2>3. Increasing(backup')
    BY <1>1, <2>1, <2>2, PrefixIncreasing
  <2>4. StoredUpTo'
    BY <1>1, <1>2, <2>1, <2>2 DEF StoredUpTo
  <2> QED
    BY <1>3, <2>1, <2>3, <2>4 DEF DiskOrder
<1> QED
  BY <1>4, <1>5, <1>6, <1>7, <1>8, <1>9 DEF Effect

LEMMA OrderStep ==
  ASSUME IInv, IInv', OrderInv, [Next]_vars
  PROVE  OrderInv'
<1>1. BackupInv'
  BY BackupStep DEF OrderInv
<1>2. DiskOK /\ DiskOK' /\ CountersOK
  BY DEF IInv, RotationInv
<1>3. ASSUME Effect PROVE StoredUpTo' /\ DiskOrder'
  BY <1>2, <1>3, OrderByEffect DEF OrderInv
<1>4. CASE Crash
  <2>1. live' = live /\ backup' = backup /\ count' = count /\ buf' = <<>>
    BY <1>4 DEF Crash
  <2>2. live' \o buf' = live
    BY <1>2, <2>1, EmptyFacts DEF DiskOK
  <2>3. Increasing(live)
    BY <1>2, DiskFacts, PrefixIncreasing DEF OrderInv, DiskOrder
  <2>4. Stored' = Elems(backup) \cup Elems(live)
    BY <2>1, EmptyFacts DEF Stored
  <2>5. Elems(live) \subseteq Elems(live \o buf)
    BY <1>2, DiskFacts
  <2>6. StoredUpTo'
    BY <2>1, <2>4 DEF OrderInv, StoredUpTo, Stored
  <2> QED
    BY <1>1, <2>1, <2>2, <2>3, <2>5, <2>6 DEF OrderInv, DiskOrder
<1>5. CASE UNCHANGED vars
  BY <1>5 DEF vars, disk, hist, OrderInv, StoredUpTo, Stored, DiskOrder, BackupInv
<1> QED
  BY <1>1, <1>3, <1>4, <1>5, EffectOfStep DEF Next, Done, OrderInv

\* The inductive invariant of the order: what is in the files was written, is in
\* order, and the backup of a running rotation is the beginning of the log.
THEOREM OrderInvariance == Spec => [](IInv /\ OrderInv)
<1>1. Init /\ IInv => OrderInv
  BY OrderInit
<1>2. IInv /\ IInv' /\ OrderInv /\ [Next]_vars => OrderInv'
  BY OrderStep
<1> QED
  BY <1>1, <1>2, Invariance, PTL DEF Spec

\* The log and its backup hold records in the order of writing, the backup those
\* before the log, through every interleaving of appends, resets and rotations
\* and whatever fails in them.
THEOREM OrderCorrect == Spec => []DiskOrder
<1>1. OrderInv => DiskOrder
  BY DEF OrderInv
<1> QED
  BY <1>1, OrderInvariance, PTL

-----------------------------------------------------------------------------
(* The refinement. *)

\* The backup is the old end of what is stored.
LEMMA Boundary ==
  ASSUME DiskOK, CountersOK, StoredUpTo, DiskOrder
  PROVE  \E n \in 0 .. count : {m \in Stored : m <= n} = Elems(backup)
<1>1. /\ backup \in Seq(Record) /\ live \in Seq(Record) /\ Flushed \in Seq(Record)
      /\ Prefix(live, Flushed)
      /\ Stored = Elems(backup) \cup Elems(Flushed)
      /\ Stored \subseteq Record /\ count \in Nat
  BY DiskFacts DEF CountersOK
<1>2. /\ Increasing(Flushed) /\ Increasing(backup)
      /\ \/ Prefix(backup, Flushed)
         \/ \A n \in Elems(backup), m \in Elems(Flushed) : n < m
  BY <1>1, PrefixTransitive DEF DiskOrder, Flushed
<1>3. /\ Len(backup) \in Nat /\ DOMAIN backup = 1 .. Len(backup)
      /\ Len(Flushed) \in Nat /\ DOMAIN Flushed = 1 .. Len(Flushed)
  BY <1>1, LenProperties
<1>4. CASE Len(backup) = 0
  <2>1. Elems(backup) = {}
    BY <1>3, <1>4 DEF Elems
  <2>2. {m \in Stored : m <= 0} = {}
    BY <1>1 DEF Record
  <2> QED
    BY <1>1, <2>1, <2>2
<1>5. CASE Len(backup) > 0
  <2> DEFINE last == backup[Len(backup)]
  <2>1. last \in Elems(backup) /\ last \in Record /\ last <= count
    BY <1>1, <1>3, <1>5 DEF Elems, StoredUpTo
  <2>2. ASSUME NEW m \in Elems(backup) PROVE m <= last
    <3>1. PICK i \in 1 .. Len(backup) : m = backup[i]
      BY <1>3 DEF Elems
    <3>2. i < Len(backup) => m < last
      BY <1>2, <1>3, <1>5, <3>1 DEF Increasing
    <3>3. m \in Record
      BY <1>1
    <3>4. i = Len(backup) => m = last
      BY <3>1
    <3>5. i < Len(backup) \/ i = Len(backup)
      <4>1. Len(backup) \in Nat
        BY <1>3
      <4> QED
        BY <4>1
    <3>6. m < last \/ m = last
      BY <3>2, <3>4, <3>5
    <3>7. m \in Nat /\ last \in Nat
      BY <2>1, <3>3 DEF Record
    <3> HIDE DEF last
    <3> QED
      BY <3>6, <3>7
  <2>3. ASSUME NEW m \in Elems(Flushed), m <= last PROVE m \in Elems(backup)
    <3>1. PICK i \in 1 .. Len(Flushed) : m = Flushed[i]
      BY <1>3 DEF Elems
    <3>2. m \in Record
      BY <1>1
    <3>3. CASE Prefix(backup, Flushed)
      <4>1. Flushed[Len(backup)] = last /\ Len(backup) <= Len(Flushed)
        BY <1>3, <1>5, <3>3 DEF Prefix
      <4>2. i > Len(backup) => last < m
        BY <1>2, <1>3, <1>5, <3>1, <4>1 DEF Increasing
      <4>3. i <= Len(backup)
        BY <1>3, <2>1, <2>3, <3>1, <3>2, <4>2 DEF Record
      <4> QED
        BY <1>3, <3>1, <3>3, <4>3 DEF Prefix, Elems
    <3>4. CASE \A n \in Elems(backup), k \in Elems(Flushed) : n < k
      BY <2>1, <2>3, <3>2, <3>4 DEF Record
    <3> QED
      BY <1>2, <3>3, <3>4
  <2> HIDE DEF last
  <2>4. {m \in Stored : m <= last} = Elems(backup)
    BY <1>1, <2>2, <2>3
  <2>5. last \in 0 .. count
    BY <1>1, <2>1 DEF Record
  <2> QED
    BY <2>4, <2>5
<1> QED
  BY <1>3, <1>4, <1>5

LEMMA StoreInit == Init => Store!Init
  BY EmptyFacts DEF Init, Store!Init, Stored, OnDisk

LEMMA DropsStep ==
  ASSUME DiskOK, CountersOK, StoredUpTo, DiskOrder, Drops
  PROVE  Store!DropNewest
<1>1. PICK n \in 0 .. count : {m \in Stored : m <= n} = Elems(backup)
  BY Boundary
<1>2. OnDisk = Stored
  BY EmptyFacts DEF Drops, OnDisk, Stored
<1>3. Stored' = Elems(backup) /\ OnDisk' = Elems(backup) /\ count' = count
  BY EmptyFacts DEF Drops, OnDisk, Stored
<1> QED
  BY <1>1, <1>2, <1>3 DEF Store!DropNewest

LEMMA ClearsStep ==
  ASSUME DiskOK, CountersOK, StoredUpTo, DiskOrder, Clears
  PROVE  Store!DropOldest
<1>1. /\ Stored' = Elems(Flushed) /\ OnDisk' = Elems(live) /\ count' = count
  BY DiskFacts, EmptyFacts DEF Clears, OnDisk, Stored
<1>2. /\ Stored = Elems(backup) \cup Elems(Flushed) /\ Stored \subseteq Record
      /\ OnDisk = Elems(backup) \cup Elems(live)
      /\ Elems(live) \subseteq Elems(Flushed)
      /\ backup \in Seq(Record) /\ live \in Seq(Record)
      /\ count \in Nat
  BY DiskFacts DEF OnDisk, CountersOK
<1>3. CASE Prefix(backup, live)
  <2>1. Elems(backup) \subseteq Elems(live)
    BY <1>2, <1>3, PrefixElems
  <2>2. Stored' = {m \in Stored : m > 0} /\ OnDisk' = {m \in OnDisk : m > 0}
    BY <1>1, <1>2, <2>1 DEF Record
  <2> QED
    BY <1>1, <1>2, <2>2 DEF Store!DropOldest
<1>4. CASE \A n \in Elems(backup), m \in Elems(Flushed) : n < m
  <2>1. PICK n \in 0 .. count : {m \in Stored : m <= n} = Elems(backup)
    BY Boundary
  <2>2. \A m \in Elems(Flushed) : m \notin Elems(backup)
    BY <1>2, <1>4 DEF Record
  <2>3. \A m \in Stored : m > n <=> m \notin Elems(backup)
    BY <1>2, <2>1 DEF Record
  <2>4. Stored' = {m \in Stored : m > n} /\ OnDisk' = {m \in OnDisk : m > n}
    BY <1>1, <1>2, <2>2, <2>3
  <2> QED
    BY <1>1, <2>4 DEF Store!DropOldest
<1> QED
  BY <1>3, <1>4 DEF DiskOrder, Flushed

LEMMA WritesStep ==
  ASSUME DiskOK, DiskOK', CountersOK, Writes
  PROVE  Store!Write
<1>1. /\ count' = count + 1 /\ count' \in Record
      /\ Flushed' = Append(Flushed, count')
      /\ \/ live' = live /\ buf' = Append(buf, count')
         \/ live' = Flushed' /\ buf' = <<>>
      /\ backup' = backup
  BY WriteEffect DEF Writes
<1>2. Elems(Flushed') = Elems(Flushed) \cup {count'}
  BY <1>1, DiskFacts, ElemsAppend
<1>3. Stored = Elems(backup) \cup Elems(Flushed)
  BY DiskFacts
<1>4. Stored' = Elems(backup') \cup Elems(Flushed')
  BY ElemsConcat DEF DiskOK, Stored, Flushed
<1>5. OnDisk' \in {OnDisk, Stored'}
  BY <1>1, <1>4 DEF OnDisk
<1> QED
  BY <1>1, <1>2, <1>3, <1>4, <1>5 DEF Store!Write

LEMMA StoreStep ==
  ASSUME IInv, IInv', OrderInv, [Next]_vars
  PROVE  [Store!Next]_(Store!store)
<1>1. DiskOK /\ DiskOK' /\ CountersOK /\ StoredUpTo /\ DiskOrder /\ BackupInv
  BY DEF IInv, RotationInv, OrderInv
<1>2. CASE Keeps
  BY <1>2 DEF Keeps, Stored, OnDisk, Store!store
<1>3. CASE Flushes
  <2>1. Stored' = Stored /\ OnDisk' = Stored /\ count' = count
    BY <1>1, <1>3, DiskFacts, EmptyFacts DEF Flushes, Stored, OnDisk
  <2> QED
    BY <2>1 DEF Store!Sync, Store!Next
<1>4. CASE Writes
  BY <1>1, <1>4, WritesStep DEF Store!Next
<1>5. CASE Drops
  BY <1>1, <1>5, DropsStep DEF Store!Next
<1>6. CASE Clears
  BY <1>1, <1>6, ClearsStep DEF Store!Next
<1>7. CASE Copies /\ Prefix(backup, live)
  <2>1. backup' \in Seq(Record) /\ Prefix(backup', live)
    BY <1>1, <1>7, DiskFacts, PrefixOfSubSeq DEF Copies
  <2>2. Elems(backup) \subseteq Elems(live) /\ Elems(backup') \subseteq Elems(live)
    BY <1>1, <1>7, <2>1, DiskFacts, PrefixElems
  <2>3. Stored' = Stored /\ OnDisk' = OnDisk /\ count' = count
    BY <1>7, <2>2 DEF Copies, Stored, OnDisk
  <2> QED
    BY <2>3 DEF Store!store
<1>8. CASE Crash
  <2>1. Stored' = OnDisk /\ OnDisk' = OnDisk /\ count' = count
    BY <1>8, EmptyFacts DEF Crash, Stored, OnDisk
  <2> QED
    BY <2>1 DEF Store!Crash, Store!Next
<1>9. CASE UNCHANGED vars
  BY <1>2, <1>9 DEF vars, disk, hist, Keeps
<1> QED
  BY <1>1, <1>2, <1>3, <1>4, <1>5, <1>6, <1>7, <1>8, <1>9, EffectOfStep
     DEF Next, Done, Effect

\* The Logger with its threads, buffers, resets, rotations, failures and crashes
\* implements the store: nothing enters twice or out of order, nothing comes back,
\* and nothing disappears from the middle of what is kept.
THEOREM StoreCorrect == Spec => StoresRecords
<1>1. Init => Store!Init
  BY StoreInit
<1>2. IInv /\ IInv' /\ OrderInv /\ [Next]_vars => [Store!Next]_(Store!store)
  BY StoreStep
<1> QED
  BY <1>1, <1>2, OrderInvariance, PTL DEF Spec, StoresRecords, Store!Spec

=============================================================================
