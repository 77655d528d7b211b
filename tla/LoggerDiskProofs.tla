-------------------------- MODULE LoggerDiskProofs --------------------------
(***************************************************************************)
(* Proofs about the records on disk: none disappears unless the code means *)
(* to drop it, and the ids of the lines never go down.                     *)
(***************************************************************************)
EXTENDS LoggerProofs

LEMMA ElemsConcat ==
  ASSUME NEW S, NEW s \in Seq(S), NEW u \in Seq(S)
  PROVE  Elems(s \o u) = Elems(s) \cup Elems(u)
<1>1. /\ DOMAIN s = 1 .. Len(s) /\ Len(s) \in Nat
      /\ DOMAIN u = 1 .. Len(u) /\ Len(u) \in Nat
      /\ s \o u \in Seq(S) /\ Len(s \o u) = Len(s) + Len(u)
      /\ DOMAIN (s \o u) = 1 .. Len(s \o u)
  BY LenProperties, ConcatProperties
<1>2. \A i \in 1 .. Len(s) : (s \o u)[i] = s[i]
  BY <1>1, ConcatProperties
<1>3. \A i \in 1 .. Len(u) : i + Len(s) \in DOMAIN (s \o u) /\ (s \o u)[i + Len(s)] = u[i]
  BY <1>1, ConcatProperties, SMT
<1>4. \A i \in DOMAIN (s \o u) : (s \o u)[i] \in Elems(s) \cup Elems(u)
  <2> TAKE i \in DOMAIN (s \o u)
  <2>1. CASE i <= Len(s)
    BY <1>1, <1>2, <2>1 DEF Elems
  <2>2. CASE ~(i <= Len(s))
    <3>1. i - Len(s) \in 1 .. Len(u) /\ (s \o u)[i] = u[i - Len(s)]
      BY <1>1, <2>2, ConcatProperties, SMT
    <3> QED
      BY <1>1, <3>1 DEF Elems
  <2> QED
    BY <2>1, <2>2
<1>5. Elems(s) \subseteq Elems(s \o u)
  BY <1>1, <1>2 DEF Elems
<1>6. Elems(u) \subseteq Elems(s \o u)
  BY <1>1, <1>3 DEF Elems
<1> QED
  BY <1>4, <1>5, <1>6 DEF Elems

LEMMA ElemsAppend ==
  ASSUME NEW S, NEW s \in Seq(S), NEW e \in S
  PROVE  Elems(Append(s, e)) = Elems(s) \cup {e}
<1>1. Append(s, e) = s \o <<e>> /\ <<e>> \in Seq(S)
  BY AppendIsConcat
<1>2. Elems(<<e>>) = {e}
  BY DEF Elems
<1>3. Elems(s \o <<e>>) = Elems(s) \cup Elems(<<e>>)
  <2> DEFINE u == <<e>>
  <2>1. u \in Seq(S)
    BY <1>1
  <2> HIDE DEF u
  <2>2. Elems(s \o u) = Elems(s) \cup Elems(u)
    BY <2>1, ElemsConcat
  <2> QED
    BY <2>2 DEF u
<1> QED
  BY <1>1, <1>2, <1>3, Zenon

LEMMA ElemsEmpty == Elems(<<>>) = {}
  BY DEF Elems

-----------------------------------------------------------------------------
(* No record is lost. *)

Kept == Elems(live) \cup Elems(buf)

\* A flush moves records from the stream to the file.
LEMMA KeptByFlush ==
  ASSUME DiskOK
  PROVE  Elems(Flushed) = Kept
  BY ElemsConcat DEF DiskOK, Flushed, Kept

LEMMA KeptByWrite ==
  ASSUME DiskOK, CountersOK, NEW flush, WriteRecord(flush)
  PROVE  Kept \subseteq Kept'
<1>1. count + 1 \in Record
  BY DEF CountersOK, Record
<1>2. CASE buf' = Append(buf, count + 1) /\ live' = live
  BY <1>1, <1>2, ElemsAppend DEF DiskOK, Kept
<1>3. CASE live' = Append(Flushed, count + 1) /\ buf' = <<>>
  <2>1. Elems(live') = Elems(Flushed) \cup {count + 1}
    BY <1>1, <1>3, ElemsAppend, FlushedType
  <2> QED
    BY <2>1, KeptByFlush DEF Kept
<1> QED
  BY <1>2, <1>3 DEF WriteRecord

\* Every step but those that drop records keeps all of them.
LEMMA KeptByStep ==
  ASSUME DiskOK, CountersOK, NEW t \in Thread, Start(t) \/ Continue(t),
         ~OpenLog(t), ~ReopenLog(t)
  PROVE  Kept \subseteq Kept'
<1>1. CASE UNCHANGED <<live, buf>>
  BY <1>1 DEF Kept
<1>2. CASE live' = Flushed /\ buf' = <<>>
  BY <1>2, KeptByFlush DEF Kept
<1>3. CASE Start(t)
  BY <1>1, <1>3 DEF Start, Configure, SetLogLevel, ToggleRead, GetLogger, SetOutputs,
     SetMaxSize, SetAppendCallback, ChangeFilters, OtherLogger, BeginAppend, BeginReset,
     BeginFinish, BeginShrink, disk
<1>4. CASE WriteAppend(t) \/ RawAppend(t)
  BY <1>1, <1>4, KeptByWrite DEF WriteAppend, RawAppend, LoseRecord, disk
<1>5. CASE Finish(t) \/ CloseLog(t) \/ StartShrink(t)
  BY <1>2, <1>5 DEF Finish, CloseLog, StartShrink
<1>6. CASE Continue(t) /\ ~WriteAppend(t) /\ ~RawAppend(t) /\ ~Finish(t) /\ ~CloseLog(t)
           /\ ~StartShrink(t)
  BY <1>1, <1>6 DEF Continue, ToggleWrite, GetLoggerOutputs, ReadSpin, ClearSpin, CheckLevel,
     SnapshotOutputs, CheckLog, IncrementIdx, AcquireAppend, AfterAppend, ReadCallback,
     CheckFilter, InvokeCallback, ReadOutputs, SkipShrink, OpenReadFails, CreateBackup,
     CopyChunk, CopyFails, MapFails, RetireLog, disk
<1> QED
  BY <1>3, <1>4, <1>5, <1>6

\* reset(true) is the only open that drops records, and it finds the stream empty.
LEMMA KeptByOpen ==
  ASSUME IInv, NEW t \in Thread, OpenLog(t)
  PROVE  Kept \subseteq Kept' \cup gone'
<1>1. buf = <<>> \/ log
  BY DEF IInv, RotationInv, StreamInv
<1>2. ~log
  BY DEF IInv, RotationInv, StreamInv, OpenLog
<1>3. Kept = Elems(live)
  BY <1>1, <1>2, ElemsEmpty DEF Kept
<1>4. live' = live \/ Elems(live) \subseteq gone'
  BY DEF OpenLog
<1> QED
  BY <1>3, <1>4 DEF Kept

\* A complete copy of the whole log holds every record of it.
LEMMA KeptByReopen ==
  ASSUME IInv, NEW t \in Thread, ReopenLog(t), ~torn, ~(limit < Len(live))
  PROVE  Kept \subseteq Kept' \cup Elems(backup')
<1>1. /\ pc[t] = "reopen" /\ backup' = backup /\ buf' = buf
      /\ live' = live \/ live' = <<>>
  BY DEF ReopenLog
<1>2. backup = SubSeq(live, 1, limit) /\ limit \in 1 .. Len(live)
  BY <1>1 DEF IInv, RotationInv, CopyInv, RotationKeeps
<1>3. Len(live) \in Nat /\ live \in Seq(Record)
  BY LenProperties DEF IInv, RotationInv, DiskOK
<1>4. backup = live
  BY <1>2, <1>3, SubSeqFull
<1> QED
  BY <1>1, <1>4 DEF Kept

\* A step keeps every record of the log, or it is the end of such a rotation.
LEMMA LossStep ==
  ASSUME IInv, [Next]_vars
  PROVE  [NoLossStep]_vars
<1>1. DiskOK /\ CountersOK
  BY DEF IInv, RotationInv
<1>2. ASSUME Kept \subseteq Kept' \cup Elems(backup') \cup gone' PROVE NoLossStep
  BY <1>2 DEF Kept, NoLossStep
<1>3. ASSUME NEW t \in Thread, OpenLog(t) PROVE NoLossStep
  <2>1. Kept \subseteq Kept' \cup gone'
    BY <1>3, KeptByOpen
  <2> QED
    BY <1>2, <2>1
<1>4. ASSUME NEW t \in Thread, ReopenLog(t) PROVE NoLossStep
  <2>1. CASE torn \/ limit < Len(live)
    BY <1>4, <2>1 DEF NoLossStep, ReopenLog
  <2>2. CASE ~torn /\ ~(limit < Len(live))
    <3>1. Kept \subseteq Kept' \cup Elems(backup')
      BY <1>4, <2>2, KeptByReopen
    <3> QED
      BY <1>2, <3>1
  <2> QED
    BY <2>1, <2>2
<1>5. ASSUME NEW t \in Thread, Start(t) \/ Continue(t), ~OpenLog(t), ~ReopenLog(t)
      PROVE NoLossStep
  <2>1. Kept \subseteq Kept'
    BY <1>1, <1>5, KeptByStep
  <2> QED
    BY <1>2, <2>1
<1>6. CASE Crash
  <2>1. live' = live /\ Elems(buf) \subseteq gone'
    BY <1>6 DEF Crash
  <2> QED
    BY <1>2, <2>1 DEF Kept
<1> QED
  BY <1>3, <1>4, <1>5, <1>6 DEF Next, Done

\* A record leaves the live log only into the backup, through reset(true), in a
\* crash, or in a rotation that was cut short or limited to fewer records.
THEOREM NoRecordLostCorrect == Spec => NoRecordLost
<1>1. IInv /\ [Next]_vars => [NoLossStep]_vars
  BY LossStep
<1> QED
  BY <1>1, Invariance, PTL DEF Spec, NoRecordLost

-----------------------------------------------------------------------------
(* The ids of the lines. *)

\* Every id that was printed, or is about to be, was taken from kLogIdx, and the
\* one about to be printed is the newest.
IdsInv ==
    /\ LineIdsOrdered
    /\ \A i \in DOMAIN ids : ids[i] <= idx
    /\ \A t \in Thread : pc[t] = "write" =>
           num <= idx /\ \A i \in DOMAIN ids : ids[i] <= num

\* Two steps touch the ids or the number of the record being formatted; the
\* others at most advance kLogIdx.
LEMMA IdsFrame ==
  ASSUME CountersOK, DiskOK, ControlInv, NEW t \in Thread, Start(t) \/ Continue(t),
         ~AcquireAppend(t), ~WriteAppend(t)
  PROVE  /\ UNCHANGED <<ids, num>> /\ idx' >= idx
         /\ \A s \in Thread : pc'[s] = "write" => pc[s] = "write"
<1> USE DEF Go, Enter, Return, ControlInv, ControlOK, DiskOK, hist
<1>1. CASE Start(t)
  BY <1>1 DEF Start, Configure, SetLogLevel, ToggleRead, GetLogger, SetOutputs, SetMaxSize,
     SetAppendCallback, ChangeFilters, OtherLogger, BeginAppend, BeginReset, BeginFinish,
     BeginShrink, locals
<1>2. CASE \/ ToggleWrite(t) \/ GetLoggerOutputs(t) \/ ReadSpin(t) \/ ClearSpin(t)
           \/ CheckLevel(t) \/ SnapshotOutputs(t) \/ CheckLog(t) \/ IncrementIdx(t)
           \/ AfterAppend(t)
  BY <1>2 DEF ToggleWrite, GetLoggerOutputs, ReadSpin, ClearSpin, CheckLevel,
     SnapshotOutputs, CheckLog, IncrementIdx, AfterAppend
<1>3. CASE \/ RawAppend(t) \/ ReadCallback(t) \/ CheckFilter(t)
           \/ InvokeCallback(t) \/ ReadOutputs(t) \/ Finish(t) \/ CloseLog(t) \/ OpenLog(t)
  BY <1>3 DEF RawAppend, ReadCallback, CheckFilter, InvokeCallback, ReadOutputs, Finish,
     CloseLog, OpenLog, Returned
<1>4. CASE \/ SkipShrink(t) \/ StartShrink(t) \/ OpenReadFails(t) \/ CreateBackup(t)
           \/ CopyChunk(t) \/ CopyFails(t) \/ MapFails(t) \/ RetireLog(t) \/ ReopenLog(t)
  BY <1>4 DEF SkipShrink, StartShrink, OpenReadFails, CreateBackup, CopyChunk, CopyFails,
     MapFails, RetireLog, ReopenLog
<1> QED
  BY <1>1, <1>2, <1>3, <1>4 DEF Continue

LEMMA IdsStep ==
  ASSUME IInv, IdsInv, [Next]_vars
  PROVE  IdsInv'
<1>1. /\ CountersOK /\ DiskOK /\ ControlInv
      /\ num \in Nat /\ idx \in Nat /\ ids \in Seq(Nat)
  BY DEF IInv, RotationInv, DiskOK, CountersOK, HistoryOK
<1>2. \A i \in DOMAIN ids : ids[i] \in Nat
  BY <1>1, ElementOfSeq
<1>3. ASSUME NEW t \in Thread, Start(t) \/ Continue(t), ~AcquireAppend(t), ~WriteAppend(t)
      PROVE  IdsInv'
  <2>1. /\ UNCHANGED <<ids, num>> /\ idx' >= idx /\ idx' \in Nat
        /\ \A s \in Thread : pc'[s] = "write" => pc[s] = "write"
    <3>1. idx' \in Nat
      BY <1>1, <1>3, RotationStep DEF IInv, RotationInv, DiskOK, Next
    <3> QED
      BY <1>1, <1>3, <3>1, IdsFrame
  <2> QED
    BY <1>1, <1>2, <2>1 DEF IdsInv, LineIdsOrdered
<1>4. ASSUME NEW t \in Thread, AcquireAppend(t) PROVE IdsInv'
  <2>1. num' = idx /\ idx' = idx /\ ids' = ids
    BY <1>4 DEF AcquireAppend, hist
  <2> QED
    BY <1>1, <2>1 DEF IdsInv, LineIdsOrdered
<1>5. ASSUME NEW t \in Thread, WriteAppend(t) PROVE IdsInv'
  <2>1. /\ idx' = idx /\ ids' \in {ids, Append(ids, num)}
        /\ pc[t] = "write" /\ pc'[t] # "write" /\ mutex = t
        /\ \A s \in Thread \ {t} : pc'[s] = pc[s]
    BY <1>1, <1>5 DEF WriteAppend, Unlock, hist, Go, Enter, ControlInv, ControlOK
  <2>2. \A s \in Thread : pc'[s] # "write"
    BY <1>1, <2>1, Alone DEF Critical
  <2>3. num <= idx /\ \A i \in DOMAIN ids : ids[i] <= num
    BY <2>1 DEF IdsInv
  <2>4. CASE ids' = ids
    BY <2>1, <2>2, <2>4 DEF IdsInv, LineIdsOrdered
  <2>5. CASE ids' = Append(ids, num)
    <3>1. /\ Len(ids) \in Nat /\ DOMAIN ids = 1 .. Len(ids)
          /\ DOMAIN ids' = 1 .. Len(ids) + 1
          /\ \A i \in 1 .. Len(ids) : ids'[i] = ids[i]
          /\ ids'[Len(ids) + 1] = num
      BY <1>1, <2>5, LenProperties, AppendProperties
    <3>2. LineIdsOrdered'
      BY <1>1, <1>2, <2>3, <3>1 DEF IdsInv, LineIdsOrdered
    <3>3. \A i \in DOMAIN ids' : ids'[i] <= idx'
      BY <1>1, <1>2, <2>1, <2>3, <3>1 DEF IdsInv
    <3> QED
      BY <2>2, <3>2, <3>3 DEF IdsInv
  <2> QED
    BY <2>1, <2>4, <2>5
<1>6. CASE Crash
  <2>1. ids' = <<>> /\ \A t \in Thread : pc'[t] = "idle"
    BY <1>6 DEF Crash
  <2> QED
    BY <2>1 DEF IdsInv, LineIdsOrdered
<1>7. CASE UNCHANGED vars
  BY <1>7 DEF vars, hist, IdsInv, LineIdsOrdered
<1> QED
  BY <1>3, <1>4, <1>5, <1>6, <1>7 DEF Next, Done

\* The ids of the lines in the file never go down, however many threads move
\* kLogIdx and whatever fails.
THEOREM IdsCorrect == Spec => []LineIdsOrdered
<1>1. Init => IdsInv
  BY DEF Init, IdsInv, LineIdsOrdered
<1>2. IInv /\ IdsInv /\ [Next]_vars => IdsInv'
  BY IdsStep
<1>3. IdsInv => LineIdsOrdered
  BY DEF IdsInv
<1> QED
  BY <1>1, <1>2, <1>3, Invariance, PTL DEF Spec

=============================================================================
