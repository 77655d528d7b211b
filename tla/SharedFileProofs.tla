-------------------------- MODULE SharedFileProofs --------------------------
(***************************************************************************)
(* Proofs about SharedFile for every value of its constants.               *)
(*                                                                         *)
(* ControlInv is inductive by itself: which locks a thread holds follows   *)
(* from its label.  It is what the facts about descriptors rest on, since  *)
(* only fdRwlock and ioMutex keep two threads off them.                    *)
(***************************************************************************)
EXTENDS SharedFile, SequenceTheorems, TLAPS

\* filenameRwlock is only ever taken exclusively, by setFilename, and one thread
\* at a time holds fdRwlock for upgrade.
RwInv ==
    /\ nameRw.shared = {} /\ nameRw.upgrade = {}
    /\ \A t, u \in fdRw.upgrade : t = u
    /\ \A t \in Thread : pc[t] \in {"name", "assign", "assigned"} => op[t] = "set"

ControlInv == ControlOK /\ LocksHeld /\ RwInv

LEMMA ControlInit == Init => ControlInv
<1> SUFFICES ASSUME Init PROVE ControlInv
  OBVIOUS
<1> QED
  BY NameAssumption DEF Init, ControlInv, ControlOK, LocksHeld, RwInv, Labels,
     Transfers, Unlocked, MutexType, MutexSafe

\* The begins of the calls take no lock.
LEMMA ControlStart ==
  ASSUME ControlInv, NEW t \in Thread, Start(t)
  PROVE  ControlInv'
<1> USE DEF ControlInv, ControlOK, LocksHeld, RwInv, Labels, Transfers, Go, Begin,
        MutexSafe, MutexType, locks
<1>1. CASE BeginOpenOrClose(t)
  <2>1. ASSUME NEW o \in {"open", "close"}, Begin(t, o), BeginOpenOrClose(t)
        PROVE  ControlInv'
    BY <2>1, SMT DEF BeginOpenOrClose
  <2> QED
    BY <1>1, <2>1 DEF BeginOpenOrClose
<1>2. CASE BeginSet(t)
  BY <1>2, SMT DEF BeginSet
<1>3. CASE BeginSeek(t)
  BY <1>3, SMT DEF BeginSeek
<1>4. CASE BeginTransfer(t)
  BY <1>4, SMT DEF BeginTransfer
<1> QED
  BY <1>1, <1>2, <1>3, <1>4 DEF Start

\* The exclusive sections of open and close.
LEMMA ControlExclusive ==
  ASSUME ControlInv, NEW t \in Thread,
         \/ EnterUpgrade(t) \/ EnterExclusive(t) \/ Open(t) \/ OpenFails(t)
         \/ Publish(t) \/ Close(t)
  PROVE  ControlInv'
<1> USE DEF ControlInv, ControlOK, LocksHeld, RwInv, Labels, Transfers, Go, Forget,
        MutexSafe, MutexType, locks, locals
<1>1. CASE EnterUpgrade(t)
  BY <1>1, SMT DEF EnterUpgrade, CanUpgrade, LockUpgrade
<1>2. CASE EnterExclusive(t)
  <2>1. fdRw.shared = {} /\ fdRw.upgrade = {t} /\ fdRw.exclusive = {}
    BY <1>2, SMT DEF EnterExclusive, CanExclude
  <2>2. fdRw' = [shared |-> {}, upgrade |-> {}, exclusive |-> {t}]
    BY <1>2, <2>1 DEF EnterExclusive, LockExclusive
  <2> QED
    BY <1>2, <2>1, <2>2, SMT DEF EnterExclusive
<1>3. CASE Open(t)
  BY <1>3, SMT DEF Open
<1>4. CASE OpenFails(t)
  BY <1>4, SMT DEF OpenFails, UnlockExclusive
<1>5. CASE Publish(t)
  BY <1>5, SMT DEF Publish, UnlockExclusive
<1>6. CASE Close(t)
  BY <1>6, SMT DEF Close, Closed, UnlockExclusive
<1> QED
  BY <1>1, <1>2, <1>3, <1>4, <1>5, <1>6

\* setFilename and the seeks.
LEMMA ControlNameAndSeek ==
  ASSUME ControlInv, NEW t \in Thread,
         \/ EnterName(t) \/ StartAssign(t) \/ Assign(t) \/ EnterSeek(t) \/ Seek(t)
  PROVE  ControlInv'
<1> USE DEF ControlInv, ControlOK, LocksHeld, RwInv, Labels, Transfers, Go, Forget,
        MutexSafe, MutexType, locks, locals
<1>1. CASE EnterName(t)
  <2>1. nameRw.shared = {} /\ nameRw.upgrade = {} /\ nameRw.exclusive = {}
    BY <1>1 DEF EnterName, CanUpgrade
  <2>2. CASE filename = arg[t].name
    BY <1>1, <2>2, SMT DEF EnterName
  <2>3. CASE filename # arg[t].name
    <3>1. nameRw' = LockExclusive(nameRw, t)
      BY <1>1, <2>3 DEF EnterName
    <3>2. nameRw' = [shared |-> {}, upgrade |-> {}, exclusive |-> {t}]
      BY <2>1, <3>1 DEF LockExclusive
    <3> QED
      BY <1>1, <2>1, <2>3, <3>2, SMT DEF EnterName
  <2> QED
    BY <2>2, <2>3
<1>2. CASE StartAssign(t)
  BY <1>2, SMT DEF StartAssign
<1>3. CASE Assign(t)
  BY <1>3, SMT DEF Assign, UnlockExclusive
<1>4. CASE EnterSeek(t)
  BY <1>4, SMT DEF EnterSeek, SeekDone, CanShare, LockShared
<1>5. CASE Seek(t)
  BY <1>5, SMT DEF Seek, SeekDone, UnlockShared
<1> QED
  BY <1>1, <1>2, <1>3, <1>4, <1>5

\* A transfer only takes ioMutex, for one system call at a time.
LEMMA ControlTransfer ==
  ASSUME ControlInv, NEW t \in Thread,
         \/ Mark(t) \/ Primary(t) \/ SizeUp(t) \/ Check(t) \/ LockIo(t) \/ Io(t)
         \/ IoFails(t) \/ Return(t)
  PROVE  ControlInv'
<1> USE NameAssumption DEF ControlInv, ControlOK, LocksHeld, RwInv, Labels,
        Transfers, Go, Forget, End, MutexSafe, MutexType, locks, locals
<1>1. CASE Mark(t) \/ Primary(t)
  BY <1>1, SMT DEF Mark, Primary
<1>2. CASE SizeUp(t)
  BY <1>2, SMT DEF SizeUp
<1>3. CASE Check(t) \/ LockIo(t)
  BY <1>3, SMT DEF Check, LockIo
<1>4. CASE Io(t)
  BY <1>4, SMT DEF Io, AfterChunk
<1>5. CASE IoFails(t)
  BY <1>5, SMTT(60) DEF IoFails
<1>6. CASE Return(t)
  BY <1>6, SMTT(60) DEF Return
<1> QED
  BY <1>1, <1>2, <1>3, <1>4, <1>5, <1>6

LEMMA ControlStep ==
  ASSUME ControlInv, [Next]_vars
  PROVE  ControlInv'
<1>1. ASSUME NEW t \in Thread, Start(t) \/ Continue(t)
      PROVE  ControlInv'
  BY <1>1, ControlStart, ControlExclusive, ControlNameAndSeek, ControlTransfer
     DEF Continue
<1>2. CASE OtherOpens \/ OtherCloses \/ UNCHANGED vars
  BY <1>2 DEF OtherOpens, OtherCloses, vars, locks, locals, ControlInv, ControlOK,
              LocksHeld, RwInv
<1> QED
  BY <1>1, <1>2 DEF Next, Done

\* For any number of threads: every path through open, close, setFilename and
\* the seeks gives its locks back, and an exclusive holder is alone.
THEOREM LocksCorrect == Spec => []LocksHeld
<1>1. Spec => []ControlInv
  BY ControlInit, ControlStep, PTL DEF Spec
<1>2. ControlInv => LocksHeld
  BY DEF ControlInv
<1> QED
  BY <1>1, <1>2, PTL

-----------------------------------------------------------------------------
(* Types, limits and descriptors. *)

\* A transfer that has not started has moved nothing, and read(size) moves once.
LimitInv ==
    /\ WithinLimit
    /\ \A t \in Thread :
         \/ pc[t] \notin {"check", "lock", "io", "rewind", "position", "return"}
         \/ op[t] = "readOnce" /\ pc[t] \in {"check", "lock", "io"}
         => total[t] = 0

\* What an open in progress has opened is its own, and who moves the position
\* has an open File.
DescriptorInv ==
    /\ DescriptorsOwned
    /\ \A t \in Thread : pc[t] = "publish" =>
         fd = 0 /\ IsOpen(local[t]) /\ local[t] \notin others
    /\ \A t \in Thread : pc[t] = "position" => fd # 0

DataInv == DataOK /\ LimitInv /\ DescriptorInv

IInv == ControlInv /\ DataInv

LEMMA DataInit == Init => DataInv
<1> SUFFICES ASSUME Init PROVE DataInv
  OBVIOUS
<1> USE NameAssumption, SizeAssumption, FdAssumption DEF Init
<1>1. table \in [Fd -> [file : Name, pos : Nat] \cup {NoFile}]
  <2>1. [file |-> StartName, pos |-> 0] \in [file : Name, pos : Nat]
    OBVIOUS
  <2> QED
    BY <2>1
<1>2. arg \in [Thread -> [name : Name, want : Nat, each : Nat]]
  BY DEF NoArg
<1>3. DataOK
  BY <1>1, <1>2 DEF DataOK
<1>4. LimitInv
  BY SMT DEF LimitInv, WithinLimit
<1>5. DescriptorInv
  BY SMT DEF DescriptorInv, DescriptorsOwned, IsOpen, NoFile
<1> QED
  BY <1>3, <1>4, <1>5 DEF DataInv

\* The begins of the calls touch nothing but the caller's label and argument.
LEMMA DataStart ==
  ASSUME IInv, NEW t \in Thread, Start(t)
  PROVE  DataInv'
<1> USE DEF IInv, ControlInv, ControlOK, DataInv
<1>1. /\ UNCHANGED <<fd, filename, table, size, others, local, max, total>>
      /\ pc[t] = "idle"
      /\ \E l \in {"upgrade", "name", "seek", "mark"} : pc' = [pc EXCEPT ![t] = l]
      /\ \E o : op' = [op EXCEPT ![t] = o]
  BY DEF Start, BeginOpenOrClose, BeginSet, BeginSeek, BeginTransfer, Begin, Go,
         members, kernel
<1>2. arg' \in [Thread -> [name : Name, want : Nat, each : Nat]]
  <2>1. CASE BeginSet(t)
    BY <2>1, SMT DEF BeginSet, DataOK
  <2>2. CASE BeginTransfer(t)
    <3>1. PICK w \in Wants, e \in Eachs :
             arg' = [arg EXCEPT ![t].want = w, ![t].each = e]
      BY <2>2 DEF BeginTransfer
    <3>0. arg[t] \in [name : Name, want : Nat, each : Nat]
      BY DEF DataOK
    <3>2. [arg[t] EXCEPT !.want = w, !.each = e] \in [name : Name, want : Nat, each : Nat]
      BY <3>0, SizeAssumption
    <3>3. arg' = [arg EXCEPT ![t] = [arg[t] EXCEPT !.want = w, !.each = e]]
      BY <3>1
    <3> QED
      BY <3>2, <3>3 DEF DataOK
  <2>3. CASE BeginOpenOrClose(t) \/ BeginSeek(t)
    BY <2>3 DEF BeginOpenOrClose, BeginSeek, DataOK
  <2> QED
    BY <2>1, <2>2, <2>3 DEF Start
<1>3. DataOK'
  BY <1>1, <1>2 DEF DataOK
<1>4. LimitInv'
  BY <1>1, SMT DEF LimitInv, WithinLimit
<1>5. DescriptorInv'
  BY <1>1, SMT DEF DescriptorInv, DescriptorsOwned, IsOpen
<1> QED
  BY <1>3, <1>4, <1>5

\* Other code opens and closes descriptors that are not the File's.
LEMMA DataOthers ==
  ASSUME IInv, OtherOpens \/ OtherCloses
  PROVE  DataInv'
<1> USE FdAssumption DEF IInv, ControlInv, DataInv, members, locals
<1>1. CASE OtherOpens
  <2>1. PICK f \in Name, d \in Free :
           /\ table' = [table EXCEPT ![d] = [file |-> f, pos |-> 0]]
           /\ others' = others \cup {d}
    BY <1>1 DEF OtherOpens
  <2>2. table'[d] # NoFile
    BY <2>1, NameAssumption DEF Free, DataOK, NoFile
  <2>3. DataOK'
    BY <1>1, <2>1, SMT DEF OtherOpens, DataOK, Free
  <2>4. LimitInv'
    BY <1>1 DEF OtherOpens, LimitInv, WithinLimit
  <2>5. DescriptorInv'
    BY <1>1, <2>1, <2>2, SMT DEF OtherOpens, DescriptorInv, DescriptorsOwned, IsOpen,
       Free, DataOK
  <2> QED
    BY <2>3, <2>4, <2>5
<1>2. CASE OtherCloses
  <2>1. PICK d \in others : /\ table' = [table EXCEPT ![d] = NoFile]
                            /\ others' = others \ {d}
    BY <1>2 DEF OtherCloses
  <2>2. DataOK'
    BY <1>2, <2>1, SMT DEF OtherCloses, DataOK
  <2>3. LimitInv'
    BY <1>2 DEF OtherCloses, LimitInv, WithinLimit
  <2>4. DescriptorInv'
    BY <1>2, <2>1, SMT DEF OtherCloses, DescriptorInv, DescriptorsOwned, IsOpen,
       DataOK
  <2> QED
    BY <2>2, <2>3, <2>4
<1> QED
  BY <1>1, <1>2

\* What Forget leaves of the caller's numbers.
LEMMA Forgotten ==
  ASSUME IInv, NEW t \in Thread, Forget(t),
         UNCHANGED <<fd, filename, table, size, others>>
  PROVE  DataOK' /\ LimitInv'
<1> USE DEF IInv, ControlInv, ControlOK, DataInv, Forget, Go
<1>1. NoArg \in [name : Name, want : Nat, each : Nat]
  BY NameAssumption DEF NoArg
<1>2. DataOK'
  BY <1>1, SMT DEF DataOK
<1>3. LimitInv'
  BY SMT DEF LimitInv, WithinLimit, DataOK
<1> QED
  BY <1>2, <1>3

\* The exclusive sections of open and close: fdRwlock keeps the others out.
LEMMA DataExclusive ==
  ASSUME IInv, NEW t \in Thread,
         \/ EnterUpgrade(t) \/ EnterExclusive(t) \/ Open(t) \/ OpenFails(t)
         \/ Publish(t) \/ Close(t)
  PROVE  DataInv'
<1> USE FdAssumption, NameAssumption
        DEF IInv, ControlInv, ControlOK, DataInv, members, kernel, locals, locks
<1>1. CASE EnterUpgrade(t) \/ EnterExclusive(t)
  <2>1. /\ UNCHANGED <<fd, filename, table, size, others, arg, local, max, total, op>>
        /\ pc[t] \in {"upgrade", "exclude"}
        /\ \E l \in {"exclude", "open", "close"} : pc' = [pc EXCEPT ![t] = l]
    BY <1>1 DEF EnterUpgrade, EnterExclusive, Go
  <2>2. DataOK'
    BY <2>1 DEF DataOK
  <2>3. LimitInv'
    BY <2>1, SMT DEF LimitInv, WithinLimit
  <2>4. DescriptorInv'
    BY <2>1, SMT DEF DescriptorInv, DescriptorsOwned, IsOpen
  <2> QED
    BY <2>2, <2>3, <2>4
<1>2. CASE Open(t)
  <2>1. PICK d \in Free :
          /\ table' = [table EXCEPT ![d] = [file |-> filename, pos |-> 0]]
          /\ local' = [local EXCEPT ![t] = d]
    BY <1>2 DEF Open
  <2>2. filename \in Name /\ table'[d] # NoFile
    BY <1>2, <2>1 DEF Open, Free, DataOK, NoFile
  <2>3. DataOK'
    BY <1>2, <2>1, <2>2, SMT DEF Open, DataOK, Free
  <2>4. LimitInv'
    BY <1>2, SMT DEF Open, Go, LimitInv, WithinLimit
  <2>5. \A u \in Thread : pc[u] = "publish" => u = t
    BY <1>2, SMT DEF Open, LocksHeld, MutexSafe
  <2>6. DescriptorInv'
    BY <1>2, <2>1, <2>2, <2>5, SMT DEF Open, Go, DescriptorInv, DescriptorsOwned,
       IsOpen, Free, DataOK
  <2> QED
    BY <2>3, <2>4, <2>6
<1>3. CASE OpenFails(t)
  <2>1. DescriptorInv'
    BY <1>3, SMT DEF OpenFails, Forget, Go, DescriptorInv, DescriptorsOwned, IsOpen,
       DataOK
  <2> QED
    BY <1>3, <2>1, Forgotten DEF OpenFails
<1>4. CASE Publish(t)
  <2>1. fd' = local[t] /\ UNCHANGED <<filename, table, size, others>>
    BY <1>4 DEF Publish
  <2>2. local[t] \in Fd /\ IsOpen(local[t]) /\ local[t] \notin others /\ fd = 0
    BY <1>4, SMT DEF Publish, DescriptorInv, IsOpen, DataOK
  <2>3. \A u \in Thread : pc[u] = "publish" => u = t
    BY <1>4, SMT DEF Publish, LocksHeld, MutexSafe
  <2>4. DataOK' /\ LimitInv'
    BY <1>4, <2>1, <2>2, SMT DEF Publish, Forget, Go, NoArg, DataOK, LimitInv,
       WithinLimit
  <2>5. DescriptorInv'
    BY <1>4, <2>1, <2>2, <2>3, SMT DEF Publish, Forget, Go, DescriptorInv,
       DescriptorsOwned, IsOpen, DataOK
  <2> QED
    BY <2>4, <2>5
<1>5. CASE Close(t)
  <2>1. /\ fd' = 0 /\ UNCHANGED <<filename, size, others>>
        /\ table' = IF fd = 0 THEN table ELSE [table EXCEPT ![fd] = NoFile]
        /\ \/ Forget(t)
           \/ pc' = [pc EXCEPT ![t] = "assign"] /\ UNCHANGED locals
    BY <1>5 DEF Close, Closed, Go
  <2>2. \A u \in Thread : pc[u] \notin {"publish", "position"}
    BY <1>5, SMT DEF Close, LocksHeld, MutexSafe
  <2>3. table' \in [Fd -> [file : Name, pos : Nat] \cup {NoFile}]
    BY <2>1, SMT DEF DataOK
  <2>4. DataOK' /\ LimitInv'
    <3>1. CASE Forget(t)
      <4>1. DataOK'
        BY <2>1, <2>3, <3>1, SMT DEF Forget, NoArg, DataOK
      <4>2. LimitInv'
        BY <3>1, SMT DEF Forget, Go, LimitInv, WithinLimit, DataOK
      <4> QED
        BY <4>1, <4>2
    <3>2. CASE pc' = [pc EXCEPT ![t] = "assign"] /\ UNCHANGED locals
      <4>1. DataOK'
        BY <2>1, <2>3, <3>2 DEF DataOK
      <4>2. LimitInv'
        BY <1>5, <3>2, SMT DEF Close, LimitInv, WithinLimit
      <4> QED
        BY <4>1, <4>2
    <3> QED
      BY <2>1, <3>1, <3>2
  <2>5. DescriptorInv'
    BY <1>5, <2>1, <2>2, SMT DEF Close, Forget, Go, DescriptorInv, DescriptorsOwned,
       IsOpen, DataOK
  <2> QED
    BY <2>4, <2>5
<1> QED
  BY <1>1, <1>2, <1>3, <1>4, <1>5

\* Moving a position opens and closes nothing.
LEMMA Moved ==
  ASSUME DataOK, NEW d \in Fd, table[d] # NoFile, NEW p \in Nat,
         table' = [table EXCEPT ![d].pos = p]
  PROVE  /\ table' \in [Fd -> [file : Name, pos : Nat] \cup {NoFile}]
         /\ \A e \in Fd : table'[e] # NoFile <=> table[e] # NoFile
<1>1. table[d] \in [file : Name, pos : Nat]
  BY DEF DataOK
<1>2. [table[d] EXCEPT !.pos = p] \in [file : Name, pos : Nat]
  BY <1>1
<1>3. [table[d] EXCEPT !.pos = p] # NoFile
  BY <1>2, NameAssumption DEF NoFile
<1>4. table' = [table EXCEPT ![d] = [table[d] EXCEPT !.pos = p]]
  OBVIOUS
<1> QED
  BY <1>2, <1>3, <1>4 DEF DataOK

\* setFilename changes the path, and it forgets its numbers.
LEMMA DataName ==
  ASSUME IInv, NEW t \in Thread, EnterName(t) \/ StartAssign(t) \/ Assign(t)
  PROVE  DataInv'
<1> USE NameAssumption
        DEF IInv, ControlInv, ControlOK, DataInv, members, kernel, locals, locks
<1>1. CASE EnterName(t)
  <2>1. /\ UNCHANGED <<fd, filename, table, size, others>>
        /\ \/ Forget(t)
           \/ pc' = [pc EXCEPT ![t] = "upgrade"] /\ UNCHANGED locals
    BY <1>1 DEF EnterName, Go
  <2>2. CASE Forget(t)
    <3>1. DescriptorInv'
      BY <1>1, <2>1, <2>2, SMT DEF EnterName, Forget, Go, DescriptorInv,
         DescriptorsOwned, IsOpen, DataOK
    <3> QED
      BY <2>1, <2>2, <3>1, Forgotten
  <2>3. CASE pc' = [pc EXCEPT ![t] = "upgrade"] /\ UNCHANGED locals
    <3>1. DataOK'
      BY <2>1, <2>3 DEF DataOK
    <3>2. LimitInv'
      BY <1>1, <2>3, SMT DEF EnterName, LimitInv, WithinLimit
    <3>3. DescriptorInv'
      BY <1>1, <2>1, <2>3, SMT DEF EnterName, DescriptorInv, DescriptorsOwned, IsOpen
    <3> QED
      BY <3>1, <3>2, <3>3
  <2> QED
    BY <2>1, <2>2, <2>3
<1>2. CASE StartAssign(t)
  <2>1. DataOK'
    BY <1>2 DEF StartAssign, DataOK
  <2>2. LimitInv'
    BY <1>2, SMT DEF StartAssign, Go, LimitInv, WithinLimit
  <2>3. DescriptorInv'
    BY <1>2, SMT DEF StartAssign, Go, DescriptorInv, DescriptorsOwned, IsOpen
  <2> QED
    BY <2>1, <2>2, <2>3
<1>3. CASE Assign(t)
  <2>1. arg[t].name \in Name
    BY DEF DataOK
  <2>2. DataOK'
    BY <1>3, <2>1, SMTT(60) DEF Assign, Forget, NoArg, DataOK
  <2>3. LimitInv'
    BY <1>3, SMTT(60) DEF Assign, Forget, Go, LimitInv, WithinLimit, DataOK
  <2>4. DescriptorInv'
    BY <1>3, SMTT(60) DEF Assign, Forget, Go, DescriptorInv, DescriptorsOwned, IsOpen,
       DataOK
  <2> QED
    BY <2>2, <2>3, <2>4
<1> QED
  BY <1>1, <1>2, <1>3

\* A place that is not before the beginning is a position.
LEMMA PlusOffset ==
  ASSUME NEW a \in Nat, NEW o \in Offsets, a + o >= 0
  PROVE  a + o \in Nat
BY SizeAssumption

\* A seek moves the position of the File's descriptor, which the shared fdRwlock
\* keeps open.
LEMMA DataSeek ==
  ASSUME IInv, NEW t \in Thread, EnterSeek(t) \/ Seek(t)
  PROVE  DataInv'
<1> USE NameAssumption
        DEF IInv, ControlInv, ControlOK, DataInv, members, kernel, locals, locks
<1>1. CASE EnterSeek(t)
  <2>1. /\ UNCHANGED <<fd, filename, table, size, others>>
        /\ pc[t] \in {"seek", "rewind"}
        /\ \/ Forget(t)
           \/ pc' = [pc EXCEPT ![t] = "return"] /\ UNCHANGED locals
           \/ fd # 0 /\ pc' = [pc EXCEPT ![t] = "position"] /\ UNCHANGED locals
    BY <1>1 DEF EnterSeek, SeekDone, Go
  <2>2. CASE Forget(t)
    <3>1. DescriptorInv'
      BY <2>1, <2>2, SMT DEF Forget, Go, DescriptorInv, DescriptorsOwned, IsOpen, DataOK
    <3> QED
      BY <2>1, <2>2, <3>1, Forgotten
  <2>3. ASSUME NEW l \in {"return", "position"}, l = "position" => fd # 0,
               pc' = [pc EXCEPT ![t] = l], UNCHANGED locals
        PROVE  DataInv'
    <3>1. DataOK'
      BY <2>1, <2>3 DEF DataOK
    <3>2. LimitInv'
      BY <2>1, <2>3, SMT DEF LimitInv, WithinLimit
    <3>3. DescriptorInv'
      BY <2>1, <2>3, SMT DEF DescriptorInv, DescriptorsOwned, IsOpen
    <3> QED
      BY <3>1, <3>2, <3>3
  <2> QED
    BY <2>1, <2>2, <2>3
<1>2. CASE Seek(t)
  <2>1. fd \in Fd /\ table[fd] # NoFile
    BY <1>2, SMT DEF Seek, DescriptorInv, DescriptorsOwned, IsOpen, DataOK
  <2>2. Targets(t) \subseteq Nat
    <3>1. table[fd] \in [file : Name, pos : Nat]
      BY <2>1 DEF DataOK
    <3>2. table[fd].pos \in Nat /\ size[table[fd].file] \in Nat /\ total[t] \in Nat
      BY <3>1 DEF DataOK
    <3>3. ASSUME NEW p \in Targets(t), op[t] # "read"
          PROVE  p \in Nat
      <4>1. \/ p \in {0, table[fd].pos}
            \/ /\ p >= 0
               /\ \E o \in Offsets : \/ p = table[fd].pos + o
                                     \/ p = size[table[fd].file] + o
        BY <3>3 DEF Targets
      <4> HIDE DEF IInv, ControlInv, ControlOK, DataInv
      <4>2. CASE p \in {0, table[fd].pos}
        BY <3>2, <4>2
      <4>3. ASSUME NEW o \in Offsets, p >= 0,
                   p = table[fd].pos + o \/ p = size[table[fd].file] + o
            PROVE  p \in Nat
        BY <3>2, <4>3, PlusOffset
      <4> QED
        BY <4>1, <4>2, <4>3
    <3>4. ASSUME NEW p \in Targets(t), op[t] = "read"
          PROVE  p \in Nat
      BY <3>2, <3>4, SMT DEF Targets
    <3> QED
      BY <3>3, <3>4
  <2>3. /\ table' \in [Fd -> [file : Name, pos : Nat] \cup {NoFile}]
        /\ \A e \in Fd : table'[e] # NoFile <=> table[e] # NoFile
    <3>1. CASE table' = table
      BY <3>1 DEF DataOK
    <3>2. ASSUME NEW p \in Targets(t), table' = [table EXCEPT ![fd].pos = p]
          PROVE  /\ table' \in [Fd -> [file : Name, pos : Nat] \cup {NoFile}]
                 /\ \A e \in Fd : table'[e] # NoFile <=> table[e] # NoFile
      <4>1. p \in Nat /\ DataOK
        BY <2>2
      <4> QED
        BY <2>1, <3>2, <4>1, Moved
    <3> QED
      BY <1>2, <3>1, <3>2 DEF Seek
  <2>4. UNCHANGED <<fd, filename, size, others>> /\ pc[t] = "position"
    BY <1>2 DEF Seek
  <2>5. CASE Forget(t)
    <3>1. DataOK'
      BY <2>3, <2>4, <2>5, SMT DEF Forget, NoArg, DataOK
    <3>2. LimitInv'
      BY <2>5, SMT DEF Forget, Go, LimitInv, WithinLimit, DataOK
    <3>3. DescriptorInv'
      BY <2>3, <2>4, <2>5, SMT DEF Forget, Go, DescriptorInv, DescriptorsOwned, IsOpen,
         DataOK
    <3> QED
      BY <3>1, <3>2, <3>3
  <2>6. CASE pc' = [pc EXCEPT ![t] = "return"] /\ UNCHANGED locals
    <3>1. DataOK'
      BY <2>3, <2>4, <2>6 DEF DataOK
    <3>2. LimitInv'
      BY <2>4, <2>6, SMT DEF LimitInv, WithinLimit
    <3>3. DescriptorInv'
      BY <2>3, <2>4, <2>6, SMT DEF DescriptorInv, DescriptorsOwned, IsOpen, DataOK
    <3> QED
      BY <3>1, <3>2, <3>3
  <2> QED
    BY <1>2, <2>5, <2>6 DEF Seek, SeekDone, Go
<1> QED
  BY <1>1, <1>2

\* A transfer between two system calls changes only its own numbers.
LEMMA DataBetween ==
  ASSUME IInv, NEW t \in Thread, Mark(t) \/ Primary(t) \/ Check(t) \/ LockIo(t)
  PROVE  DataInv'
<1> USE DEF IInv, ControlInv, ControlOK, DataInv, members, kernel, locals, locks
<1>1. PICK l \in {"primary", "size", "lock", "io", "rewind", "return"} :
         pc' = [pc EXCEPT ![t] = l]
  BY DEF Mark, Primary, Check, LockIo, End, Go
<1>2. /\ UNCHANGED <<fd, filename, table, size, others, op, arg, max, total>>
      /\ l = "primary" => pc[t] = "mark"
      /\ l = "size" => pc[t] = "primary"
      /\ l = "lock" => pc[t] = "check"
      /\ l = "io" => pc[t] = "lock"
      /\ pc[t] \in {"mark", "primary", "check", "lock"}
      /\ local' \in {local, [local EXCEPT ![t] = fd]}
  BY <1>1, SMT DEF Mark, Primary, Check, LockIo, End, Go
<1>3. DataOK'
  BY <1>2, SMT DEF DataOK
<1>4. LimitInv'
  BY <1>1, <1>2, SMT DEF LimitInv, WithinLimit
<1>5. DescriptorInv'
  BY <1>1, <1>2, SMT DEF DescriptorInv, DescriptorsOwned, IsOpen, DataOK
<1> QED
  BY <1>3, <1>4, <1>5

\* The limit is a number, however the size of the file comes out.
LEMMA LimitsAreNumbers ==
  ASSUME DataOK, NEW t \in Thread
  PROVE  Limits(t) \subseteq Nat
<1>1. Sizes \subseteq Nat
  <2>1. CASE IsOpen(fd)
    BY <2>1, NameAssumption DEF Sizes, IsOpen, DataOK
  <2>2. CASE ~IsOpen(fd)
    BY <2>2 DEF Sizes, DataOK
  <2> QED
    BY <2>1, <2>2
<1>2. arg[t].want \in Nat
  BY DEF DataOK
<1>3. \A s \in Sizes : Lower(arg[t].want, s) \in Nat
  BY <1>1, <1>2 DEF Lower
<1> QED
  BY <1>2, <1>3 DEF Limits

LEMMA DataSize ==
  ASSUME IInv, NEW t \in Thread, SizeUp(t)
  PROVE  DataInv'
<1> USE DEF IInv, ControlInv, ControlOK, DataInv, members, kernel, locals, locks
<1>1. /\ UNCHANGED <<fd, filename, table, size, others, op, arg, total, local>>
      /\ pc[t] = "size"
      /\ \E l \in {"check", "rewind", "return"} : pc' = [pc EXCEPT ![t] = l]
      /\ max' = max \/ \E m \in Limits(t) : max' = [max EXCEPT ![t] = m]
  BY DEF SizeUp, End, Go
<1>2. \A u \in Thread : max'[u] \in Nat /\ (u # t => max'[u] = max[u])
  BY <1>1, LimitsAreNumbers, SMT DEF DataOK
<1>3. DataOK'
  BY <1>1, LimitsAreNumbers, SMT DEF DataOK
<1>4. LimitInv'
  BY <1>1, <1>2, SMT DEF LimitInv, WithinLimit, DataOK
<1>5. DescriptorInv'
  BY <1>1, SMT DEF DescriptorInv, DescriptorsOwned, IsOpen
<1> QED
  BY <1>3, <1>4, <1>5

\* What a system call may move, added to what was moved, stays within the limit.
LEMMA CountsFit ==
  ASSUME IInv, NEW t \in Thread, pc[t] = "io", IsOpen(local[t]), NEW n \in Counts(t)
  PROVE  n \in Nat /\ total[t] + n <= max[t]
<1> USE DEF IInv, ControlInv, ControlOK, DataInv
<1>1. /\ total[t] \in Nat /\ max[t] \in Nat /\ total[t] <= max[t]
      /\ op[t] = "readOnce" => total[t] = 0
  BY DEF LimitInv, WithinLimit, DataOK
<1>2. arg[t].each \in Nat
  BY DEF DataOK
<1>3. EachSize(t) \in Nat
  BY <1>1, <1>2, SizeAssumption, SMT DEF EachSize, Lower
<1>4. Chunk(t) \in Nat /\ total[t] + Chunk(t) <= max[t]
  BY <1>1, <1>3, SMT DEF Chunk, Lower
<1>5. table[local[t]].pos \in Nat /\ size[table[local[t]].file] \in Nat
  BY NameAssumption DEF IsOpen, DataOK
<1>6. n \in Nat /\ n <= Chunk(t)
  <2>1. CASE op[t] = "traverse"
    BY <1>4, <2>1, SMT DEF Counts
  <2>2. CASE op[t] = "write"
    BY <1>4, <2>2, SMT DEF Counts
  <2>3. CASE op[t] \notin {"traverse", "write"}
    BY <1>4, <1>5, <2>3, SMT DEF Counts, Lower
  <2> QED
    BY <2>1, <2>2, <2>3
<1> QED
  BY <1>1, <1>4, <1>6, SMT

\* A system call moves the position and the bytes of its descriptor, if that is
\* open at all; whose it is makes no difference.
LEMMA DataIo ==
  ASSUME IInv, NEW t \in Thread, Io(t)
  PROVE  DataInv'
<1> USE NameAssumption
        DEF IInv, ControlInv, ControlOK, DataInv, members, kernel, locals, locks
<1> DEFINE d == local[t]
           file == table[d].file
<1>1. PICK n \in Counts(t) :
         /\ total' = [total EXCEPT ![t] = @ + n]
         /\ table' = IF op[t] = "traverse" THEN table
                     ELSE [table EXCEPT ![d].pos = @ + n]
         /\ size' = IF op[t] = "write" /\ n > 0 /\ size[file] < table[d].pos + n
                    THEN [size EXCEPT ![file] = table[d].pos + n] ELSE size
         /\ AfterChunk(t, n)
  BY DEF Io
<1>2. /\ UNCHANGED <<fd, filename, others, op, arg, max, local>>
      /\ pc[t] = "io" /\ IsOpen(d)
  BY DEF Io
<1>3. n \in Nat /\ total[t] + n <= max[t]
  BY <1>1, <1>2, CountsFit
<1>4. d \in Fd /\ table[d] # NoFile /\ file \in Name /\ table[d].pos \in Nat
  BY <1>2 DEF IsOpen, DataOK
<1>5. table[d].pos + n \in Nat
  BY <1>3, <1>4
<1>6. /\ table' \in [Fd -> [file : Name, pos : Nat] \cup {NoFile}]
      /\ \A e \in Fd : table'[e] # NoFile <=> table[e] # NoFile
  <2>1. CASE op[t] = "traverse"
    BY <1>1, <2>1 DEF DataOK
  <2>2. CASE op[t] # "traverse"
    <3>1. table' = [table EXCEPT ![d].pos = table[d].pos + n] /\ DataOK
      BY <1>1, <2>2
    <3> QED
      BY <1>4, <1>5, <3>1, Moved
  <2> QED
    BY <2>1, <2>2
<1>7. size' \in [Name -> Nat]
  BY <1>1, <1>4, <1>5 DEF DataOK
<1>8. \E l \in {"check", "rewind", "return"} :
         pc' = [pc EXCEPT ![t] = l] /\ (l = "check" => op[t] # "readOnce")
  BY <1>1 DEF AfterChunk, End, Go
<1>9. total' \in [Thread -> Nat] /\ total'[t] <= max[t]
  BY <1>1, <1>3 DEF DataOK
<1>10. DataOK'
  BY <1>2, <1>6, <1>7, <1>9 DEF DataOK
<1>11. LimitInv'
  BY <1>1, <1>2, <1>8, <1>9, SMT DEF LimitInv, WithinLimit, DataOK
<1>12. DescriptorInv'
  BY <1>2, <1>6, <1>8, SMT DEF DescriptorInv, DescriptorsOwned, IsOpen, DataOK
<1> QED
  BY <1>10, <1>11, <1>12

\* The ends of a system call that failed and of the transfer.
LEMMA DataEnd ==
  ASSUME IInv, NEW t \in Thread, IoFails(t) \/ Return(t)
  PROVE  DataInv'
<1> USE DEF IInv, ControlInv, ControlOK, DataInv, members, kernel, locals, locks
<1>1. CASE IoFails(t)
  <2>1. /\ pc[t] = "io"
        /\ UNCHANGED <<fd, filename, table, size, others, op, arg, max, total, local>>
        /\ \E l \in {"rewind", "return"} : pc' = [pc EXCEPT ![t] = l]
    BY <1>1 DEF IoFails, End, Go
  <2>2. DataOK'
    BY <2>1 DEF DataOK
  <2>3. LimitInv'
    BY <2>1, SMT DEF LimitInv, WithinLimit
  <2>4. DescriptorInv'
    BY <2>1, SMT DEF DescriptorInv, DescriptorsOwned, IsOpen
  <2> QED
    BY <2>2, <2>3, <2>4
<1>2. CASE Return(t)
  <2>1. DescriptorInv'
    BY <1>2, SMT DEF Return, Forget, Go, DescriptorInv, DescriptorsOwned, IsOpen, DataOK
  <2> QED
    BY <1>2, <2>1, Forgotten DEF Return
<1> QED
  BY <1>1, <1>2

LEMMA DataStep ==
  ASSUME IInv, [Next]_vars
  PROVE  DataInv'
<1>1. ASSUME NEW t \in Thread, Start(t) \/ Continue(t)
      PROVE  DataInv'
  BY <1>1, DataStart, DataExclusive, DataName, DataSeek, DataBetween, DataSize,
     DataIo, DataEnd DEF Continue
<1>2. CASE OtherOpens \/ OtherCloses
  BY <1>2, DataOthers
<1>3. CASE UNCHANGED vars
  BY <1>3 DEF vars, members, kernel, locals, locks, IInv, ControlInv, DataInv, DataOK,
              LimitInv, WithinLimit, DescriptorInv, DescriptorsOwned, IsOpen
<1> QED
  BY <1>1, <1>2, <1>3 DEF Next, Done

LEMMA FileInvariance == Spec => []IInv
<1>1. Init => IInv
  BY ControlInit, DataInit DEF IInv
<1>2. IInv /\ [Next]_vars => IInv'
  BY ControlStep, DataStep DEF IInv
<1> QED
  BY <1>1, <1>2, PTL DEF Spec

\* No transfer moves more than its limit, for any sizes, any cuts by the kernel
\* and any number of other threads.
THEOREM LimitCorrect == Spec => []WithinLimit
<1>1. IInv => WithinLimit
  BY DEF IInv, DataInv, LimitInv
<1> QED
  BY <1>1, FileInvariance, PTL

\* open, close and setFilename lose no descriptor and close none that is not the
\* File's, for any number of threads and of descriptors opened elsewhere.
THEOREM DescriptorsCorrect == Spec => []DescriptorsOwned
<1>1. IInv => DescriptorsOwned
  BY DEF IInv, DataInv, DescriptorInv
<1> QED
  BY <1>1, FileInvariance, PTL

\* The File's descriptor is closed only while no thread is inside a system call.
THEOREM CloseCorrect == Spec => CloseOutsideIo
<1> DEFINE A == fd # 0 /\ fd' = 0 => \A t \in Thread : pc[t] # "io"
<1>1. ASSUME IInv, [Next]_vars
      PROVE  [A]_vars
  <2> SUFFICES ASSUME Next, fd # 0, fd' = 0
               PROVE  \A t \in Thread : pc[t] # "io"
    BY <1>1
  <2>1. PICK t \in Thread : Close(t) \/ Publish(t)
    BY DEF Next, Start, Continue, OtherOpens, OtherCloses, Done, vars, members,
       BeginOpenOrClose, BeginSet, BeginSeek, BeginTransfer, EnterUpgrade,
       EnterExclusive, Open, OpenFails, EnterName, StartAssign, Assign, EnterSeek,
       Seek, Mark, Primary, SizeUp, Check, LockIo, Io, IoFails, Return
  <2>2. CASE Close(t)
    BY <1>1, <2>2, NameAssumption DEF Close, IInv, ControlInv, LocksHeld
  <2>3. CASE Publish(t)
    BY <1>1, <2>3 DEF Publish, IInv, DataInv, DescriptorInv
  <2> QED
    BY <2>1, <2>2, <2>3
<1> QED
  BY <1>1, FileInvariance, PTL DEF Spec, CloseOutsideIo

-----------------------------------------------------------------------------
(* Codes, pieces and ioBusy. *)

Code == {"unset", "ok", "cancelled", "fail"}

\* The part of TypeOK that the other facts do not need.
HistoryOK ==
    /\ ioBusy \in BOOLEAN
    /\ seen \in [Thread -> Name \cup {Torn}]
    /\ ret \in [Thread -> Code]
    /\ moved \in [Thread -> Seq(Piece)]
    /\ quiet \in [Thread -> BOOLEAN]
    /\ calls \in Nat /\ opens \in Nat

LEMMA HistoryStart ==
  ASSUME HistoryOK, NEW t \in Thread, Start(t)
  PROVE  HistoryOK'
<1>1. /\ \E o : Begin(t, o)
      /\ UNCHANGED <<ioBusy, seen, ret, moved, opens>>
  BY DEF Start, BeginOpenOrClose, BeginSet, BeginSeek, BeginTransfer, members, kernel
<1>2. calls' = calls + 1
      /\ quiet' = [u \in Thread |-> IF u = t THEN \A v \in Thread : pc[v] = "idle"
                                   ELSE pc[u] = "idle"]
  BY <1>1 DEF Begin
<1>3. quiet' \in [Thread -> BOOLEAN]
  BY <1>2
<1>4. calls' \in Nat
  BY <1>2 DEF HistoryOK
<1> QED
  BY <1>1, <1>3, <1>4 DEF HistoryOK

\* Calls that forget their locals, or leave them alone.
LEMMA HistoryCalls ==
  ASSUME HistoryOK, NEW t \in Thread,
         \/ EnterUpgrade(t) \/ EnterExclusive(t) \/ Open(t) \/ OpenFails(t)
         \/ Publish(t) \/ Close(t) \/ EnterName(t) \/ StartAssign(t) \/ Assign(t)
         \/ EnterSeek(t) \/ Seek(t) \/ Return(t)
  PROVE  HistoryOK'
<1>1. /\ UNCHANGED <<calls, opens>>
      /\ ioBusy' = ioBusy \/ ioBusy' = FALSE
      /\ Forget(t) \/ UNCHANGED <<seen, ret, moved, quiet>>
  BY DEF EnterUpgrade, EnterExclusive, Open, OpenFails, Publish, Close, Closed, EnterName,
     StartAssign, Assign, EnterSeek, Seek, SeekDone, Return, members, kernel, locals
<1>2. /\ ioBusy' \in BOOLEAN /\ calls' \in Nat /\ opens' \in Nat
  BY <1>1 DEF HistoryOK
<1>3. CASE Forget(t)
  <2>1. seen' \in [Thread -> Name \cup {Torn}]
    BY <1>3, NameAssumption DEF Forget, HistoryOK
  <2>2. ret' \in [Thread -> Code]
    BY <1>3 DEF Forget, HistoryOK, Code
  <2>3. moved' \in [Thread -> Seq(Piece)]
    BY <1>3, EmptySeq DEF Forget, HistoryOK
  <2>4. quiet' \in [Thread -> BOOLEAN]
    BY <1>3 DEF Forget, HistoryOK
  <2> QED
    BY <1>2, <2>1, <2>2, <2>3, <2>4 DEF HistoryOK
<1>4. CASE UNCHANGED <<seen, ret, moved, quiet>>
  BY <1>2, <1>4 DEF HistoryOK
<1> QED
  BY <1>1, <1>3, <1>4

\* A transfer sets its code, its path and ioBusy.
LEMMA HistoryBetween ==
  ASSUME HistoryOK, DataOK, NEW t \in Thread,
         \/ Mark(t) \/ Primary(t) \/ SizeUp(t) \/ Check(t) \/ LockIo(t) \/ IoFails(t)
  PROVE  HistoryOK'
<1>1. /\ UNCHANGED <<moved, quiet, calls, opens>>
      /\ ioBusy' = ioBusy \/ ioBusy' = TRUE
      /\ seen' = seen \/ seen' = [seen EXCEPT ![t] = filename]
  BY DEF Mark, Primary, SizeUp, Check, LockIo, IoFails, End, members, kernel, locals
<1>2. ret[t] \in Code
  BY DEF HistoryOK
<1>3. ret' = ret \/ \E code \in Code : ret' = [ret EXCEPT ![t] = code]
  BY <1>2 DEF Mark, Primary, SizeUp, Check, LockIo, IoFails, End, locals, Code
<1>4. ret' \in [Thread -> Code]
  BY <1>3 DEF HistoryOK
<1>5. seen' \in [Thread -> Name \cup {Torn}]
  BY <1>1 DEF HistoryOK, DataOK
<1>6. ioBusy' \in BOOLEAN
  BY <1>1 DEF HistoryOK
<1> QED
  BY <1>1, <1>4, <1>5, <1>6 DEF HistoryOK

LEMMA PageStartIsNumber ==
  ASSUME DataOK, NEW t \in Thread
  PROVE  PageStart(t) \in Nat
<1>1. total[t] \in Nat /\ PageSize \in Nat \ {0}
  BY SizeAssumption DEF DataOK
<1>2. total[t] \div PageSize \in Nat
  BY <1>1
<1> QED
  BY <1>1, <1>2 DEF PageStart

\* A system call adds a piece.
LEMMA HistoryIo ==
  ASSUME IInv, HistoryOK, NEW t \in Thread, Io(t)
  PROVE  HistoryOK'
<1> DEFINE d == local[t]
           file == table[d].file
           piece(n) == [file |-> file, own |-> d \notin others, from |-> From(t), len |-> n]
<1>1. PICK n \in Counts(t) :
         moved' = [moved EXCEPT ![t] = Append(@, piece(n))] /\ AfterChunk(t, n)
  BY DEF Io
<1>2. /\ pc[t] = "io" /\ IsOpen(d) /\ DataOK
      /\ UNCHANGED <<ioBusy, seen, quiet, calls, opens>>
  BY DEF Io, members, IInv, DataInv
<1>3. n \in Nat
  BY <1>1, <1>2, CountsFit
<1>4. file \in Name /\ table[d].pos \in Nat
  BY <1>2, NameAssumption DEF IsOpen, DataOK
<1>5. From(t) \in Nat
  BY <1>2, <1>4, PageStartIsNumber DEF From
<1>6. piece(n) \in Piece
  BY <1>3, <1>4, <1>5 DEF Piece
<1>7. moved[t] \in Seq(Piece)
  BY DEF HistoryOK
<1>8. Append(moved[t], piece(n)) \in Seq(Piece)
  BY <1>6, <1>7, AppendProperties
<1>9. moved' \in [Thread -> Seq(Piece)]
  BY <1>1, <1>8 DEF HistoryOK
<1>10. ret[t] \in Code
  BY DEF HistoryOK
<1>11. ret' = ret \/ \E code \in Code : ret' = [ret EXCEPT ![t] = code]
  BY <1>1, <1>10 DEF AfterChunk, End, Code
<1>12. ret' \in [Thread -> Code]
  BY <1>11 DEF HistoryOK
<1> QED
  BY <1>2, <1>9, <1>12 DEF HistoryOK

LEMMA HistoryStep ==
  ASSUME IInv, HistoryOK, [Next]_vars
  PROVE  HistoryOK'
<1>1. DataOK
  BY DEF IInv, DataInv
<1>2. ASSUME NEW t \in Thread, Start(t) \/ Continue(t)
      PROVE  HistoryOK'
  BY <1>1, <1>2, HistoryStart, HistoryCalls, HistoryBetween, HistoryIo DEF Continue
<1>3. CASE OtherOpens \/ OtherCloses
  <2>1. /\ UNCHANGED <<ioBusy, seen, ret, moved, quiet, calls>>
        /\ opens' = opens \/ opens' = opens + 1
    BY <1>3 DEF OtherOpens, OtherCloses, members, locals
  <2> QED
    BY <2>1 DEF HistoryOK
<1>4. CASE UNCHANGED vars
  BY <1>4 DEF vars, members, kernel, locals, HistoryOK
<1> QED
  BY <1>2, <1>3, <1>4 DEF Next, Done

LEMMA HistoryInit == Init => HistoryOK
<1> SUFFICES ASSUME Init PROVE HistoryOK
  OBVIOUS
<1>1. moved \in [Thread -> Seq(Piece)]
  BY EmptySeq DEF Init
<1>2. seen \in [Thread -> Name \cup {Torn}] /\ ret \in [Thread -> Code]
  BY NameAssumption DEF Init, Code
<1>3. ioBusy \in BOOLEAN /\ quiet \in [Thread -> BOOLEAN] /\ calls \in Nat /\ opens \in Nat
  BY DEF Init
<1> QED
  BY <1>1, <1>2, <1>3 DEF HistoryOK

\* Every variable keeps its type: codes are codes, and a piece that was moved has a
\* file, a place and a length.
THEOREM TypeCorrect == Spec => []TypeOK
<1>1. Init => HistoryOK
  BY HistoryInit
<1>2. IInv /\ HistoryOK /\ [Next]_vars => HistoryOK'
  BY HistoryStep
<1>3. IInv /\ HistoryOK => TypeOK
  BY DEF IInv, ControlInv, DataInv, HistoryOK, TypeOK, Code
<1> QED
  BY <1>1, <1>2, <1>3, FileInvariance, PTL DEF Spec

\* Where ioBusy may be set: a thread is inside a transfer.
Inside == {"primary", "size", "check", "lock", "io", "rewind", "return"}
Busy(t) == pc[t] \in Inside \/ (pc[t] = "position" /\ op[t] = "read")

\* Only read moves the position again at its end.
BusyInv ==
    /\ ioBusy => \E t \in Thread : Busy(t)
    /\ \A t \in Thread : pc[t] = "rewind" => op[t] = "read"

\* A thread that is inside a transfer stays there, or clears ioBusy.
LEMMA BusyStep ==
  ASSUME ControlInv, BusyInv, [Next]_vars
  PROVE  BusyInv'
<1> USE DEF ControlInv, ControlOK, Go
<1>1. ASSUME NEW t \in Thread, Start(t) \/ Continue(t)
      PROVE  /\ \A u \in Thread \ {t} : pc'[u] = pc[u] /\ op'[u] = op[u]
             /\ pc'[t] = "rewind" => op'[t] = "read"
             /\ Busy(t) => Busy(t)' \/ ioBusy' = FALSE
             /\ ioBusy' # ioBusy => Busy(t)' \/ ioBusy' = FALSE
  <2> USE <1>1 DEF Busy, Inside
  <2>1. CASE Start(t)
    <3>1. /\ pc[t] = "idle" /\ ioBusy' = ioBusy
          /\ \E l \in {"upgrade", "name", "seek", "mark"} : pc' = [pc EXCEPT ![t] = l]
          /\ \E o : op' = [op EXCEPT ![t] = o]
      BY <2>1 DEF Start, BeginOpenOrClose, BeginSet, BeginSeek, BeginTransfer, Begin, members
    <3> QED
      BY <3>1
  <2>2. CASE \/ EnterUpgrade(t) \/ EnterExclusive(t) \/ Open(t) \/ OpenFails(t)
             \/ Publish(t) \/ Close(t) \/ EnterName(t) \/ StartAssign(t) \/ Assign(t)
    <3>1. /\ pc[t] \in {"upgrade", "exclude", "open", "publish", "close", "name", "assign",
                        "assigned"}
          /\ ioBusy' = ioBusy
          /\ \E l \in {"idle", "exclude", "open", "close", "publish", "assign", "upgrade",
                       "assigned"} : pc' = [pc EXCEPT ![t] = l]
          /\ op' = op \/ op' = [op EXCEPT ![t] = "close"]
      BY <2>2 DEF EnterUpgrade, EnterExclusive, Open, OpenFails, Publish, Close, Closed,
         EnterName, StartAssign, Assign, Forget, members, locals
    <3> QED
      BY <3>1
  <2>3. CASE EnterSeek(t) \/ Seek(t)
    <3>1. /\ pc[t] \in {"seek", "rewind", "position"} /\ ioBusy' = ioBusy
          /\ \/ pc' = [pc EXCEPT ![t] = "position"] /\ op' = op
             \/ op[t] = "read" /\ pc' = [pc EXCEPT ![t] = "return"] /\ op' = op
             \/ /\ op[t] # "read" /\ pc' = [pc EXCEPT ![t] = "idle"]
                /\ op' = [op EXCEPT ![t] = "close"]
      BY <2>3 DEF EnterSeek, Seek, SeekDone, Forget, members, locals
    <3>2. pc[t] = "rewind" => op[t] = "read"
      BY DEF BusyInv
    <3> QED
      BY <3>1, <3>2
  <2>4. CASE \/ Mark(t) \/ Primary(t) \/ SizeUp(t) \/ Check(t) \/ LockIo(t) \/ Io(t)
             \/ IoFails(t)
    <3>1. /\ op' = op
          /\ \E l \in Inside : pc' = [pc EXCEPT ![t] = l] /\ (l = "rewind" => op[t] = "read")
      BY <2>4 DEF Mark, Primary, SizeUp, Check, LockIo, Io, IoFails, AfterChunk, End, locals
    <3> QED
      BY <3>1
  <2>5. CASE Return(t)
    BY <2>5 DEF Return, Forget
  <2> QED
    BY <2>1, <2>2, <2>3, <2>4, <2>5 DEF Continue
<1>2. ASSUME NEW t \in Thread, Start(t) \/ Continue(t)
      PROVE  BusyInv'
  <2>1. \A u \in Thread : pc'[u] = "rewind" => op'[u] = "read"
    BY <1>1, <1>2 DEF BusyInv
  <2>2. ASSUME ioBusy', ioBusy' # FALSE
        PROVE  \E u \in Thread : Busy(u)'
    <3>1. CASE ioBusy' = ioBusy
      <4>1. PICK u \in Thread : Busy(u)
        BY <2>2, <3>1 DEF BusyInv
      <4> QED
        BY <1>1, <1>2, <2>2, <4>1 DEF Busy
    <3>2. CASE ioBusy' # ioBusy
      BY <1>1, <1>2, <2>2, <3>2
    <3> QED
      BY <3>1, <3>2
  <2> QED
    BY <2>1, <2>2 DEF BusyInv
<1>3. CASE OtherOpens \/ OtherCloses \/ UNCHANGED vars
  BY <1>3 DEF OtherOpens, OtherCloses, vars, members, locals, BusyInv, Busy
<1> QED
  BY <1>2, <1>3 DEF Next, Done

\* Every way out of a transfer clears ioBusy, in any number of threads, with every
\* failure.
THEOREM BusyCorrect == Spec => []BusyFreed
<1>1. Init => BusyInv
  BY DEF Init, BusyInv
<1>2. IInv /\ BusyInv /\ [Next]_vars => BusyInv'
  BY BusyStep DEF IInv
<1>3. BusyInv => BusyFreed
  BY DEF BusyInv, BusyFreed, Busy, Inside
<1> QED
  BY <1>1, <1>2, <1>3, FileInvariance, PTL DEF Spec

=============================================================================
