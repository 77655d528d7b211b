----------------------------- MODULE AnyProofs -----------------------------
(***************************************************************************)
(* Proofs about AnyCell for any threads, objects, values and types, and    *)
(* about the casts of AnyCast for every boost::any.                        *)
(*                                                                         *)
(* The argument: which lock a thread holds follows from its label          *)
(* (ControlInv), so nobody writes the object a thread writes, nor the one  *)
(* it copies from; what it has written so far is then what it set out to   *)
(* write (WriteInv), and an object is consistent again when its writer     *)
(* leaves.  What a call that nobody overlapped has done or seen stays so   *)
(* until it returns (QuietInv).                                            *)
(* AtomicAny is implemented because of the same facts: a writer that has   *)
(* begun is alone at its object, so that the object can be taken to be     *)
(* already what that writer makes of it (SettledInv).                      *)
(***************************************************************************)
EXTENDS AnyCell, SequenceTheorems, TLAPS

Inits   == {"init", "initByPtr", "initByObj", "from"}
Writers == Inits \cup {"reset", "assign"}
Readers == {"toT", "copy", "bundle"}

\* The calls a thread can be in at each label, and their arguments.
CallInv ==
    \A t \in Thread :
        /\ pc[t] = "idle" => how[t] = "none"
        /\ pc[t] # "idle" => /\ call[t].op \in Writers \cup Readers
                             /\ call[t].target \in Cell
        /\ pc[t] # "idle" /\ call[t].op = "assign" => call[t].source \in Cell
        /\ pc[t] # "idle" /\ call[t].op \in Inits =>
             call[t].arg \in Value /\ call[t].want \in Type
        /\ pc[t] # "idle" /\ call[t].op \in {"reset", "assign"} => how[t] = "none"
        /\ pc[t] = "source" => call[t].op = "assign"
        /\ pc[t] \in {"upgrade", "exclude", "write"} => call[t].op \in Writers
        /\ pc[t] \in {"source", "upgrade", "exclude", "write"} /\ call[t].op = "assign" =>
             call[t].source # call[t].target
        /\ pc[t] = "test" => call[t].op = "init" /\ how[t] = "pointer"
        /\ pc[t] = "share" => call[t].op = "toT" /\ left[t] = Members
        /\ pc[t] = "read" => call[t].op \in Readers
        /\ pc[t] = "reread" => call[t].op = "bundle"

LocalOK ==
    /\ pc \in [Thread -> Labels]
    /\ how \in [Thread -> {"pointer", "object", "none"}]
    /\ left \in [Thread -> SUBSET Members]
    /\ overlap \in [Thread -> BOOLEAN]
    /\ DOMAIN call = Thread
    /\ DOMAIN seenData = Thread /\ DOMAIN seenType = Thread
    /\ calls \in Nat

RwOK ==
    /\ rw \in [Cell -> MutexType(Thread)]
    /\ \A c \in Cell : \A t, u \in rw[c].upgrade : t = u

ControlInv == LocalOK /\ CallInv /\ RwOK /\ LocksHeld

LEMMA ControlInit == Init => ControlInv
<1> SUFFICES ASSUME Init PROVE ControlInv
  OBVIOUS
<1> USE DEF Init
<1>1. LocalOK /\ CallInv
  BY DEF LocalOK, CallInv, Labels, Members, NoCall
<1>2. RwOK /\ LocksHeld
  BY DEF RwOK, LocksHeld, MutexSafe, Unlocked, MutexType
<1> QED
  BY <1>1, <1>2 DEF ControlInv

LEMMA LocalStep ==
  ASSUME ControlInv, [Next]_vars
  PROVE  LocalOK' /\ CallInv'
<1> USE DEF ControlInv, LocalOK, CallInv, Labels, Members, Writers, Readers, Inits, Go
<1>1. ASSUME NEW t \in Thread, BeginInit(t) PROVE LocalOK' /\ CallInv'
  <2>1. PICK o \in {"init", "initByPtr", "initByObj"}, a \in Cell, v \in Value, T \in Type :
          /\ Begin(t, [op |-> o, target |-> a, arg |-> v, want |-> T], "upgrade")
          /\ how' = [how EXCEPT ![t] = IF o = "initByObj" THEN "object" ELSE "pointer"]
          /\ UNCHANGED left
    BY <1>1 DEF BeginInit
  <2> QED
    BY <2>1, BoundAssumption DEF Begin, seen
<1>2. ASSUME NEW t \in Thread, BeginFrom(t) PROVE LocalOK' /\ CallInv'
  <2>1. PICK a \in Cell, v \in Value, T \in Type :
          /\ v.type = T
          /\ v.form \in {"object", "constPointer"} \/ (v.form = "voidPointer" /\ ~v.null)
          /\ Begin(t, [op |-> "from", target |-> a, arg |-> v, want |-> T], "upgrade")
          /\ how' = [how EXCEPT ![t] = Factory(v, T)]
          /\ UNCHANGED left
    BY <1>2 DEF BeginFrom
  <2>2. Factory(v, T) \in {"pointer", "object", "none"}
    BY DEF Factory
  <2> QED
    BY <2>1, <2>2, BoundAssumption DEF Begin, seen
<1>3. ASSUME NEW t \in Thread, BeginReset(t) PROVE LocalOK' /\ CallInv'
  BY <1>3 DEF BeginReset, Begin, seen
<1>4. ASSUME NEW t \in Thread, BeginAssign(t) PROVE LocalOK' /\ CallInv'
  BY <1>4 DEF BeginAssign, Begin, seen
<1>5. ASSUME NEW t \in Thread, BeginRead(t) PROVE LocalOK' /\ CallInv'
  BY <1>5 DEF BeginRead, Begin, seen
<1>6. ASSUME NEW t \in Thread,
             EnterSource(t) \/ EnterUpgrade(t) \/ EnterExclusive(t) \/ EnterShare(t)
      PROVE  LocalOK' /\ CallInv'
  BY <1>6 DEF EnterSource, EnterUpgrade, EnterExclusive, EnterShare, seen
<1>7. ASSUME NEW t \in Thread, WriteMember(t) PROVE LocalOK' /\ CallInv'
  BY <1>7 DEF WriteMember, seen
<1>8. ASSUME NEW t \in Thread, Release(t) \/ Test(t) PROVE LocalOK' /\ CallInv'
  BY <1>8 DEF Release, Test, seen
<1>9. ASSUME NEW t \in Thread, ReadMember(t) PROVE LocalOK' /\ CallInv'
  BY <1>9 DEF ReadMember
<1>10. ASSUME NEW t \in Thread, ReadDone(t) \/ Reread(t) PROVE LocalOK' /\ CallInv'
  BY <1>10 DEF ReadDone, Reread, seen
<1>11. ASSUME NEW t \in Thread, Return(t) PROVE LocalOK' /\ CallInv'
  BY <1>11 DEF Return
<1>12. CASE UNCHANGED vars
  BY <1>12 DEF vars, seen
<1> QED
  BY <1>1, <1>2, <1>3, <1>4, <1>5, <1>6, <1>7, <1>8, <1>9, <1>10, <1>11, <1>12
     DEF Next, Start, Continue, Done

\* LocksHeld, one object and one thread at a time.
Shares(t, c) ==
    \/ pc[t] = "read" /\ call[t].op = "toT" /\ call[t].target = c
    \/ /\ pc[t] \in {"upgrade", "exclude", "write"}
       /\ call[t].op = "assign" /\ call[t].source = c
HoldsAt(t, c) ==
    /\ t \in rw[c].shared <=> Shares(t, c)
    /\ t \in rw[c].upgrade <=> pc[t] = "exclude" /\ call[t].target = c
    /\ t \in rw[c].exclusive <=> pc[t] = "write" /\ call[t].target = c

LEMMA MutexTypes ==
  ASSUME NEW m \in MutexType(Thread), NEW t \in Thread
  PROVE  /\ LockUpgrade(m, t) \in MutexType(Thread)
         /\ LockExclusive(m, t) \in MutexType(Thread)
BY DEF MutexType, LockUpgrade, LockExclusive

LEMMA LocksStep ==
  ASSUME ControlInv, [Next]_vars
  PROVE  RwOK' /\ LocksHeld'
<1>0. /\ rw \in [Cell -> MutexType(Thread)] /\ RwOK
      /\ \A c \in Cell : MutexSafe(rw[c])
      /\ \A c \in Cell, t \in Thread : HoldsAt(t, c)
      /\ pc \in [Thread -> Labels] /\ DOMAIN call = Thread /\ CallInv
  BY DEF ControlInv, LocalOK, RwOK, LocksHeld, HoldsAt, Shares
<1>2. ASSUME NEW t \in Thread, EnterSource(t) PROVE RwOK' /\ LocksHeld'
  <2> DEFINE c == call[t].source
  <2>1. c \in Cell /\ rw[c].exclusive = {} /\ call[t].op = "assign" /\ call' = call
    BY <1>0, <1>2 DEF EnterSource, CallInv, CanShare
  <2>2. pc[t] = "source" /\ pc'[t] = "upgrade" /\ \A u \in Thread \ {t} : pc'[u] = pc[u]
    BY <1>0, <1>2 DEF EnterSource, Go
  <2>3. rw' = [rw EXCEPT ![c] = LockShared(rw[c], t)]
    BY <1>2 DEF EnterSource
  <2>4. RwOK'
    BY <1>0, <2>1, <2>3 DEF RwOK, LockShared, MutexType
  <2>5. ASSUME NEW d \in Cell
        PROVE  /\ rw'[d].upgrade = rw[d].upgrade /\ rw'[d].exclusive = rw[d].exclusive
               /\ \A u : u \in rw'[d].shared <=> u \in rw[d].shared \/ (d = c /\ u = t)
    BY <1>0, <2>1, <2>3 DEF LockShared, MutexType
  <2>6. ASSUME NEW d \in Cell, NEW u \in Thread PROVE HoldsAt(u, d)'
    BY <1>0, <2>1, <2>2, <2>5 DEF HoldsAt, Shares
  <2>7. ASSUME NEW d \in Cell PROVE MutexSafe(rw[d])'
    <3>1. CASE d = c
      BY <2>1, <2>5, <3>1 DEF MutexSafe
    <3>2. CASE d # c
      BY <1>0, <2>1, <2>3, <3>2 DEF MutexSafe
    <3> QED
      BY <3>1, <3>2
  <2> QED
    BY <2>4, <2>6, <2>7 DEF LocksHeld, HoldsAt, Shares
<1>3. ASSUME NEW t \in Thread, EnterUpgrade(t) PROVE RwOK' /\ LocksHeld'
  <2> DEFINE c == call[t].target
  <2>1. c \in Cell /\ rw[c].exclusive = {} /\ rw[c].upgrade = {} /\ call' = call
    BY <1>0, <1>3 DEF EnterUpgrade, CallInv, CanUpgrade
  <2>2. pc[t] = "upgrade" /\ pc'[t] = "exclude" /\ \A u \in Thread \ {t} : pc'[u] = pc[u]
    BY <1>0, <1>3 DEF EnterUpgrade, Go
  <2>3. rw' = [rw EXCEPT ![c] = LockUpgrade(rw[c], t)]
    BY <1>3 DEF EnterUpgrade
  <2>4. ASSUME NEW d \in Cell
        PROVE  /\ rw'[d].shared = rw[d].shared /\ rw'[d].exclusive = rw[d].exclusive
               /\ \A u : u \in rw'[d].upgrade <=> u \in rw[d].upgrade \/ (d = c /\ u = t)
    BY <1>0, <2>1, <2>3 DEF LockUpgrade, MutexType
  <2>5. RwOK'
    <3>0. LockUpgrade(rw[c], t) \in MutexType(Thread)
      BY <1>0, <2>1, MutexTypes
    <3>1. rw' \in [Cell -> MutexType(Thread)]
      BY <1>0, <2>1, <2>3, <3>0
    <3> QED
      BY <1>0, <2>1, <2>4, <3>1 DEF RwOK
  <2>6. ASSUME NEW d \in Cell, NEW u \in Thread PROVE HoldsAt(u, d)'
    BY <1>0, <2>1, <2>2, <2>4 DEF HoldsAt, Shares
  <2>7. ASSUME NEW d \in Cell PROVE MutexSafe(rw[d])'
    <3>1. CASE d = c
      BY <2>1, <2>4, <3>1 DEF MutexSafe
    <3>2. CASE d # c
      BY <1>0, <2>1, <2>3, <3>2 DEF MutexSafe
    <3> QED
      BY <3>1, <3>2
  <2> QED
    BY <2>5, <2>6, <2>7 DEF LocksHeld, HoldsAt, Shares
<1>4. ASSUME NEW t \in Thread, EnterExclusive(t) PROVE RwOK' /\ LocksHeld'
  <2> DEFINE c == call[t].target
  <2>1. c \in Cell /\ rw[c].shared = {} /\ call' = call
    BY <1>0, <1>4 DEF EnterExclusive, CallInv, CanExclude
  <2>2. pc[t] = "exclude" /\ pc'[t] = "write" /\ \A u \in Thread \ {t} : pc'[u] = pc[u]
    BY <1>0, <1>4 DEF EnterExclusive, Go
  <2>3. rw' = [rw EXCEPT ![c] = LockExclusive(rw[c], t)]
    BY <1>4 DEF EnterExclusive
  <2>4. rw[c].upgrade = {t} /\ rw[c].exclusive = {}
    <3>1. t \in rw[c].upgrade
      BY <1>0, <2>1, <2>2 DEF HoldsAt
    <3> QED
      BY <1>0, <2>1, <3>1 DEF RwOK, MutexSafe, MutexType
  <2>5. ASSUME NEW d \in Cell
        PROVE  /\ rw'[d].shared = rw[d].shared
               /\ \A u : u \in rw'[d].upgrade <=> u \in rw[d].upgrade /\ d # c
               /\ \A u : u \in rw'[d].exclusive <=> u \in rw[d].exclusive \/ (d = c /\ u = t)
    BY <1>0, <2>1, <2>3, <2>4 DEF LockExclusive, MutexType
  <2>6. RwOK'
    <3>0. LockExclusive(rw[c], t) \in MutexType(Thread)
      BY <1>0, <2>1, MutexTypes
    <3>1. rw' \in [Cell -> MutexType(Thread)]
      BY <1>0, <2>1, <2>3, <3>0
    <3> QED
      BY <1>0, <2>1, <2>5, <3>1 DEF RwOK
  <2>7. ASSUME NEW d \in Cell, NEW u \in Thread PROVE HoldsAt(u, d)'
    BY <1>0, <2>1, <2>2, <2>4, <2>5 DEF HoldsAt, Shares
  <2>8. ASSUME NEW d \in Cell PROVE MutexSafe(rw[d])'
    <3>1. CASE d = c
      BY <2>1, <2>4, <2>5, <3>1 DEF MutexSafe
    <3>2. CASE d # c
      BY <1>0, <2>1, <2>3, <3>2 DEF MutexSafe
    <3> QED
      BY <3>1, <3>2
  <2> QED
    BY <2>6, <2>7, <2>8 DEF LocksHeld, HoldsAt, Shares
<1>5. ASSUME NEW t \in Thread, EnterShare(t) PROVE RwOK' /\ LocksHeld'
  <2> DEFINE c == call[t].target
  <2>1. c \in Cell /\ rw[c].exclusive = {} /\ call[t].op = "toT" /\ call' = call
    BY <1>0, <1>5 DEF EnterShare, CallInv, CanShare
  <2>2. pc[t] = "share" /\ pc'[t] = "read" /\ \A u \in Thread \ {t} : pc'[u] = pc[u]
    BY <1>0, <1>5 DEF EnterShare, Go
  <2>3. rw' = [rw EXCEPT ![c] = LockShared(rw[c], t)]
    BY <1>5 DEF EnterShare
  <2>4. RwOK'
    BY <1>0, <2>1, <2>3 DEF RwOK, LockShared, MutexType
  <2>5. ASSUME NEW d \in Cell
        PROVE  /\ rw'[d].upgrade = rw[d].upgrade /\ rw'[d].exclusive = rw[d].exclusive
               /\ \A u : u \in rw'[d].shared <=> u \in rw[d].shared \/ (d = c /\ u = t)
    BY <1>0, <2>1, <2>3 DEF LockShared, MutexType
  <2>6. ASSUME NEW d \in Cell, NEW u \in Thread PROVE HoldsAt(u, d)'
    BY <1>0, <2>1, <2>2, <2>5 DEF HoldsAt, Shares
  <2>7. ASSUME NEW d \in Cell PROVE MutexSafe(rw[d])'
    <3>1. CASE d = c
      BY <2>1, <2>5, <3>1 DEF MutexSafe
    <3>2. CASE d # c
      BY <1>0, <2>1, <2>3, <3>2 DEF MutexSafe
    <3> QED
      BY <3>1, <3>2
  <2> QED
    BY <2>4, <2>6, <2>7 DEF LocksHeld, HoldsAt, Shares
<1>6. ASSUME NEW t \in Thread, Release(t) PROVE RwOK' /\ LocksHeld'
  <2>1. /\ call[t].target \in Cell /\ call[t].op \in Writers /\ call' = call
        /\ call[t].op = "assign" => call[t].source # call[t].target
    BY <1>0, <1>6 DEF Release, CallInv
  <2>2. /\ pc[t] = "write" /\ pc'[t] \in {"test", "return"}
        /\ \A u \in Thread \ {t} : pc'[u] = pc[u]
    BY <1>0, <1>6 DEF Release, Go
  <2>3. ASSUME NEW d \in Cell
        PROVE  rw'[d] = IF d = call[t].target THEN UnlockExclusive(rw[d], t)
                        ELSE IF call[t].op = "assign" /\ d = call[t].source
                             THEN UnlockShared(rw[d], t) ELSE rw[d]
    <3>1. rw'[d] = CASE d = call[t].target -> UnlockExclusive(rw[d], t)
                     [] d # call[t].target /\ d \in Uses(call[t]) -> UnlockShared(rw[d], t)
                     [] OTHER -> rw[d]
      BY <1>6 DEF Release, Released
    <3> QED
      BY <2>1, <3>1 DEF Uses
  <2>4. ASSUME NEW d \in Cell
        PROVE  /\ rw'[d].upgrade = rw[d].upgrade
               /\ \A u : u \in rw'[d].shared <=>
                    u \in rw[d].shared /\ ~(u = t /\ call[t].op = "assign" /\ d = call[t].source)
               /\ \A u : u \in rw'[d].exclusive <=>
                    u \in rw[d].exclusive /\ ~(u = t /\ d = call[t].target)
               /\ rw'[d] \in MutexType(Thread)
    <3>1. rw[d] \in MutexType(Thread)
      BY <1>0
    <3>2. CASE d = call[t].target
      <4>1. rw'[d] = UnlockExclusive(rw[d], t)
        BY <2>3, <3>2
      <4>2. ~(call[t].op = "assign" /\ d = call[t].source)
        BY <2>1, <3>2
      <4> QED
        BY <3>1, <3>2, <4>1, <4>2 DEF UnlockExclusive, MutexType
    <3>3. CASE d # call[t].target /\ call[t].op = "assign" /\ d = call[t].source
      <4>1. rw'[d] = UnlockShared(rw[d], t)
        BY <2>3, <3>3
      <4> QED
        BY <3>1, <3>3, <4>1 DEF UnlockShared, MutexType
    <3>4. CASE d # call[t].target /\ ~(call[t].op = "assign" /\ d = call[t].source)
      <4>1. rw'[d] = rw[d]
        BY <2>3, <3>4
      <4> QED
        BY <3>1, <3>4, <4>1
    <3> QED
      BY <3>2, <3>3, <3>4
  <2>5. RwOK'
    <3>1. rw' = Released(t) /\ DOMAIN Released(t) = Cell
      BY <1>6 DEF Release, Released
    <3>2. rw' = [d \in Cell |-> rw'[d]]
      BY <3>1 DEF Released
    <3> QED
      BY <1>0, <2>4, <3>2 DEF RwOK
  <2>6. ASSUME NEW d \in Cell, NEW u \in Thread PROVE HoldsAt(u, d)'
    BY <1>0, <2>1, <2>2, <2>4 DEF HoldsAt, Shares
  <2>7. ASSUME NEW d \in Cell PROVE MutexSafe(rw[d])'
    BY <1>0, <2>4 DEF MutexSafe
  <2> QED
    BY <2>5, <2>6, <2>7 DEF LocksHeld, HoldsAt, Shares
<1>7. ASSUME NEW t \in Thread, ReadDone(t) PROVE RwOK' /\ LocksHeld'
  <2> DEFINE c == call[t].target
  <2>1. c \in Cell /\ call' = call
    BY <1>0, <1>7 DEF ReadDone, CallInv
  <2>2. /\ pc[t] = "read" /\ pc'[t] \in {"reread", "return"}
        /\ \A u \in Thread \ {t} : pc'[u] = pc[u]
    BY <1>0, <1>7 DEF ReadDone, Go
  <2>3. rw' = [rw EXCEPT ![c] = UnlockShared(rw[c], t)]
    BY <1>7 DEF ReadDone
  <2>4. RwOK'
    BY <1>0, <2>1, <2>3 DEF RwOK, UnlockShared, MutexType
  <2>5. ASSUME NEW d \in Cell
        PROVE  /\ rw'[d].upgrade = rw[d].upgrade /\ rw'[d].exclusive = rw[d].exclusive
               /\ \A u : u \in rw'[d].shared <=> u \in rw[d].shared /\ ~(d = c /\ u = t)
    BY <1>0, <2>1, <2>3 DEF UnlockShared, MutexType
  <2>6. ASSUME NEW d \in Cell, NEW u \in Thread PROVE HoldsAt(u, d)'
    BY <1>0, <2>1, <2>2, <2>5 DEF HoldsAt, Shares
  <2>7. ASSUME NEW d \in Cell PROVE MutexSafe(rw[d])'
    BY <1>0, <2>5 DEF MutexSafe
  <2> QED
    BY <2>4, <2>6, <2>7 DEF LocksHeld, HoldsAt, Shares
\* The begins take no lock; these leave the locks alone.
<1>1. ASSUME NEW t \in Thread, Start(t) PROVE RwOK' /\ LocksHeld'
  <2>1. /\ rw' = rw /\ pc[t] = "idle" /\ \A u \in Thread \ {t} : call'[u] = call[u]
        /\ pc'[t] \in {"upgrade", "source", "return", "share", "read"}
        /\ \A u \in Thread \ {t} : pc'[u] = pc[u]
        /\ pc'[t] = "read" => call'[t].op # "toT"
        /\ pc'[t] = "upgrade" => call'[t].op # "assign"
    BY <1>0, <1>1
       DEF Start, BeginInit, BeginFrom, BeginReset, BeginAssign, BeginRead, Begin, Go,
           ControlInv, LocalOK
  <2>2. ASSUME NEW d \in Cell, NEW u \in Thread PROVE HoldsAt(u, d)'
    BY <1>0, <2>1 DEF HoldsAt, Shares
  <2> QED
    BY <1>0, <2>1, <2>2 DEF RwOK, LocksHeld, HoldsAt, Shares
<1>8. ASSUME NEW t \in Thread,
             WriteMember(t) \/ Test(t) \/ ReadMember(t) \/ Reread(t) \/ Return(t)
      PROVE  RwOK' /\ LocksHeld'
  <2>1. rw' = rw /\ \A u \in Thread \ {t} : call'[u] = call[u] /\ pc'[u] = pc[u]
    BY <1>0, <1>8 DEF WriteMember, Test, ReadMember, Reread, Return, Go
  <2>2. \/ pc'[t] = pc[t] /\ call'[t] = call[t]
        \/ /\ pc[t] = "test" /\ pc'[t] \in {"upgrade", "return"}
           /\ call[t].op = "init" /\ call'[t] = call[t]
        \/ pc[t] \in {"reread", "return"} /\ pc'[t] \in {"return", "idle"}
    <3>1. CASE WriteMember(t) \/ ReadMember(t)
      BY <1>0, <3>1 DEF WriteMember, ReadMember
    <3>2. CASE Test(t)
      BY <1>0, <3>2 DEF Test, CallInv, Go
    <3>3. CASE Reread(t) \/ Return(t)
      BY <1>0, <3>3 DEF Reread, Return, Go
    <3> QED
      BY <1>8, <3>1, <3>2, <3>3
  <2>3. ASSUME NEW d \in Cell, NEW u \in Thread PROVE HoldsAt(u, d)'
    BY <1>0, <2>1, <2>2 DEF HoldsAt, Shares
  <2> QED
    BY <1>0, <2>1, <2>3 DEF RwOK, LocksHeld, HoldsAt, Shares
<1>9. CASE UNCHANGED vars
  BY <1>9 DEF vars, ControlInv, RwOK, LocksHeld
<1> QED
  BY <1>1, <1>2, <1>3, <1>4, <1>5, <1>6, <1>7, <1>8, <1>9 DEF Next, Continue, Done

LEMMA ControlStep == ControlInv /\ [Next]_vars => ControlInv'
BY LocalStep, LocksStep DEF ControlInv

-----------------------------------------------------------------------------
(* What is written and what is read under the lock. *)

Objects == Type \cup {"void"} \cup {v.type : v \in Value}

CellsOK ==
    /\ DOMAIN data = Cell /\ DOMAIN type = Cell
    /\ \A c \in Cell : data[c].of \in Objects /\ type[c] \in Type \cup {"void"}

\* What a writer has written so far is what the call makes of its argument.
WriteInv ==
    \A t \in Thread : pc[t] = "write" =>
        /\ "data" \notin left[t] => data[call[t].target] = New(t).data
        /\ "type" \notin left[t] => type[call[t].target] = New(t).type

\* What a cast has read so far is what the object holds.
CastInv ==
    \A t \in Thread :
        /\ pc[t] = "read" /\ call[t].op = "toT" =>
             /\ "data" \notin left[t] => seenData[t] = data[call[t].target]
             /\ "type" \notin left[t] => seenType[t] = type[call[t].target]
        /\ pc[t] = "return" /\ call[t].op = "toT" => Matches(seenData[t], seenType[t])

DataInv == CellsOK /\ WriteInv /\ Labelled /\ CastInv

LEMMA InitMakes ==
  ASSUME NEW v \in Value, NEW T \in Type
  PROVE  /\ Matches(InitByPtr(v, T).data, InitByPtr(v, T).type)
         /\ Matches(InitByObj(v, T).data, InitByObj(v, T).type)
         /\ InitByPtr(v, T).type \in Type \cup {"void"}
         /\ InitByObj(v, T).type \in Type \cup {"void"}
         /\ InitByPtr(v, T).data.of \in Objects
         /\ InitByObj(v, T).data.of \in Objects
<1>1. \/ Held(v) = NoData
      \/ Held(v).of = v.type /\ v.form \notin VoidForm
      \/ Held(v).raw
  BY DEF Held
<1>2. Held(v).of \in Objects /\ T \in Objects /\ NoData.of \in Objects
  BY DEF Held, NoData, Objects
<1>3. InitByPtr(v, T) = Unset \/
      /\ InitByPtr(v, T) = [data |-> Held(v), type |-> T]
      /\ v.type = T \/ v.form \in VoidForm
  BY DEF InitByPtr, TakesPointer
<1>4. InitByObj(v, T) = Unset \/
      InitByObj(v, T) = [data |-> [of |-> T, raw |-> FALSE], type |-> T]
  BY DEF InitByObj
<1>5. Unset.data = NoData /\ Unset.type = "void"
  BY DEF Unset
<1>6. Matches(InitByPtr(v, T).data, InitByPtr(v, T).type)
  BY <1>1, <1>3, <1>5 DEF Matches
<1>7. Matches(InitByObj(v, T).data, InitByObj(v, T).type)
  BY <1>4, <1>5 DEF Matches
<1>8. InitByPtr(v, T).type \in Type \cup {"void"} /\ InitByObj(v, T).type \in Type \cup {"void"}
  BY <1>3, <1>4, <1>5
<1>9. InitByPtr(v, T).data.of \in Objects /\ InitByObj(v, T).data.of \in Objects
  BY <1>2, <1>3, <1>4, <1>5
<1> QED
  BY <1>6, <1>7, <1>8, <1>9

LEMMA NewMakes ==
  ASSUME ControlInv, CellsOK, Labelled, NEW t \in Thread, pc[t] = "write"
  PROVE  /\ Matches(New(t).data, New(t).type)
         /\ New(t).type \in Type \cup {"void"}
         /\ New(t).data.of \in Objects
<1>1. CASE call[t].op = "assign"
  <2>1. /\ call[t].source \in Cell
        /\ t \in rw[call[t].source].shared
        /\ MutexSafe(rw[call[t].source])
    BY <1>1 DEF ControlInv, CallInv, LocksHeld
  <2>2. rw[call[t].source].exclusive = {}
    BY <2>1 DEF MutexSafe
  <2>3. \A u \in Thread : ~(pc[u] = "write" /\ call[u].target = call[t].source)
    BY <2>1, <2>2 DEF ControlInv, LocksHeld
  <2>4. Matches(data[call[t].source], type[call[t].source])
    BY <2>1, <2>3 DEF Labelled
  <2>5. how[t] = "none"
    BY <1>1 DEF ControlInv, CallInv
  <2>6. New(t) = [data |-> data[call[t].source], type |-> type[call[t].source]]
    BY <1>1, <2>5 DEF New
  <2> QED
    BY <2>1, <2>4, <2>6 DEF CellsOK
<1>2. CASE call[t].op # "assign" /\ how[t] # "none"
  <2>1. call[t].arg \in Value /\ call[t].want \in Type
    BY <1>2 DEF ControlInv, CallInv, Writers, Inits
  <2>2. New(t) = InitByPtr(call[t].arg, call[t].want)
        \/ New(t) = InitByObj(call[t].arg, call[t].want)
    BY <1>2 DEF New, ControlInv, LocalOK
  <2> QED
    BY <2>1, <2>2, InitMakes
<1>3. CASE call[t].op # "assign" /\ how[t] = "none"
  BY <1>3 DEF New, Unset, NoData, Matches, Objects
<1> QED
  BY <1>1, <1>2, <1>3

\* Nobody else writes what a writer writes or copies from, and a cast keeps
\* the writers out.
LEMMA Alone ==
  ASSUME ControlInv, NEW t \in Thread, pc[t] = "write",
         NEW u \in Thread, u # t
  PROVE  /\ pc[u] = "write" =>
              /\ call[u].target # call[t].target
              /\ call[u].op = "assign" => call[u].source # call[t].target
         /\ pc[u] = "read" /\ call[u].op = "toT" => call[u].target # call[t].target
<1> DEFINE c == call[t].target
<1>1. c \in Cell /\ t \in rw[c].exclusive /\ MutexSafe(rw[c])
  BY DEF ControlInv, CallInv, LocksHeld
<1>2. rw[c].shared = {} /\ \A w \in rw[c].exclusive : w = t
  BY <1>1 DEF MutexSafe
<1> QED
  BY <1>1, <1>2 DEF ControlInv, LocksHeld

LEMMA DataInit == Init => DataInv
BY DEF Init, DataInv, CellsOK, Objects, NoData, WriteInv, Labelled, Matches, CastInv

LEMMA DataWrite ==
  ASSUME ControlInv, ControlInv', DataInv, NEW t \in Thread, WriteMember(t)
  PROVE  DataInv'
<1> DEFINE c == call[t].target
<1>1. /\ pc[t] = "write" /\ c \in Cell /\ pc' = pc /\ call' = call /\ how' = how
      /\ seenData' = seenData /\ seenType' = seenType /\ left[t] \subseteq Members
  BY DEF WriteMember, seen, ControlInv, LocalOK, CallInv
<1>2. PICK m \in left[t] :
        /\ left' = [left EXCEPT ![t] = left[t] \ {m}]
        /\ data' = IF m = "data" THEN [data EXCEPT ![c] = New(t).data] ELSE data
        /\ type' = IF m = "type" THEN [type EXCEPT ![c] = New(t).type] ELSE type
  BY DEF WriteMember
<1>3. /\ \A d \in Cell \ {c} : data'[d] = data[d] /\ type'[d] = type[d]
      /\ data'[c] = IF m = "data" THEN New(t).data ELSE data[c]
      /\ type'[c] = IF m = "type" THEN New(t).type ELSE type[c]
      /\ DOMAIN data' = Cell /\ DOMAIN type' = Cell
  BY <1>1, <1>2 DEF DataInv, CellsOK
<1>4. left' = [left EXCEPT ![t] = left[t] \ {m}] /\ left \in [Thread -> SUBSET Members]
  BY <1>2 DEF ControlInv, LocalOK
<1>5. CellsOK'
  BY <1>1, <1>3, NewMakes DEF DataInv, CellsOK
<1>6. ASSUME NEW u \in Thread, pc[u] = "write" PROVE New(u)' = New(u)
  <2>1. CASE call[u].op = "assign"
    <3>1. call[u].source \in Cell /\ call[u].source # c /\ how[u] = "none"
      BY <1>1, <1>6, <2>1, Alone DEF ControlInv, CallInv
    <3> QED
      BY <1>1, <1>3, <2>1, <3>1 DEF New
  <2>2. CASE call[u].op # "assign"
    BY <1>1, <2>2 DEF New
  <2> QED
    BY <2>1, <2>2
<1>7. WriteInv'
  <2>1. ASSUME NEW u \in Thread, pc[u] = "write", u # t
        PROVE  /\ call[u].target \in Cell \ {c} /\ left'[u] = left[u]
    BY <1>1, <1>4, <2>1, Alone DEF ControlInv, CallInv
  <2>2. left'[t] = left[t] \ {m}
    BY <1>4
  <2> QED
    BY <1>1, <1>3, <1>6, <2>1, <2>2 DEF WriteInv, DataInv
<1>8. Labelled'
  BY <1>1, <1>3 DEF DataInv, Labelled
<1>9. CastInv'
  <2>1. ASSUME NEW u \in Thread, pc[u] = "read", call[u].op = "toT"
        PROVE  call[u].target \in Cell \ {c} /\ left'[u] = left[u]
    BY <1>1, <1>4, <2>1, Alone DEF ControlInv, CallInv
  <2> QED
    BY <1>1, <1>3, <2>1 DEF CastInv, DataInv
<1> QED
  BY <1>5, <1>7, <1>8, <1>9 DEF DataInv

\* The steps that leave the objects alone.
LEMMA DataStep ==
  ASSUME ControlInv, ControlInv', DataInv, [Next]_vars
  PROVE  DataInv'
<1>0. pc \in [Thread -> Labels] /\ left \in [Thread -> SUBSET Members] /\ CallInv
      /\ DOMAIN call = Thread /\ how \in [Thread -> {"pointer", "object", "none"}]
      /\ DOMAIN seenData = Thread /\ DOMAIN seenType = Thread
  BY DEF ControlInv, LocalOK
<1> USE DEF DataInv, CellsOK, WriteInv, CastInv, Labelled, New, Go
<1>1. ASSUME NEW t \in Thread, Start(t) PROVE DataInv'
  <2>1. /\ UNCHANGED <<data, type, seenData, seenType>> /\ pc[t] = "idle"
        /\ pc'[t] \in {"upgrade", "source", "return", "share", "read"}
        /\ pc'[t] = "read" => call'[t].op # "toT"
        /\ pc'[t] = "return" => call'[t].op # "toT"
        /\ \A u \in Thread \ {t} : /\ call'[u] = call[u] /\ pc'[u] = pc[u]
                                   /\ how'[u] = how[u] /\ left'[u] = left[u]
    BY <1>0, <1>1
       DEF Start, BeginInit, BeginFrom, BeginReset, BeginAssign, BeginRead, Begin, cells, seen
  <2> QED
    BY <2>1
<1>2. ASSUME NEW t \in Thread, EnterSource(t) \/ EnterUpgrade(t) PROVE DataInv'
  BY <1>0, <1>2 DEF EnterSource, EnterUpgrade, cells, seen
<1>3. ASSUME NEW t \in Thread, EnterExclusive(t) PROVE DataInv'
  BY <1>0, <1>3 DEF EnterExclusive, cells, seen, Members
<1>4. ASSUME NEW t \in Thread, Test(t) PROVE DataInv'
  BY <1>0, <1>4 DEF Test, cells, seen, CallInv
<1>5. ASSUME NEW t \in Thread, Release(t) PROVE DataInv'
  <2> DEFINE c == call[t].target
  <2>1. /\ UNCHANGED <<data, type, call, how, left, seenData, seenType>>
        /\ pc[t] = "write" /\ left[t] = {} /\ pc'[t] \in {"test", "return"}
        /\ \A u \in Thread \ {t} : pc'[u] = pc[u]
        /\ call[t].op # "toT"
    BY <1>0, <1>5 DEF Release, cells, seen, CallInv, Writers, Inits
  <2>2. data[c] = New(t).data /\ type[c] = New(t).type
    BY <2>1
  <2>3. Matches(data[c], type[c])
    BY <2>1, <2>2, NewMakes
  <2>4. Labelled'
    BY <2>1, <2>3
  <2> QED
    BY <2>1, <2>4
<1>6. ASSUME NEW t \in Thread, EnterShare(t) PROVE DataInv'
  <2>1. /\ UNCHANGED <<data, type, call, how, left, seenData, seenType>>
        /\ pc[t] = "share" /\ pc'[t] = "read" /\ left[t] = {"data", "type"}
        /\ \A u \in Thread \ {t} : pc'[u] = pc[u]
    BY <1>0, <1>6 DEF EnterShare, cells, seen, CallInv, Members
  <2> QED
    BY <2>1
<1>7. ASSUME NEW t \in Thread, ReadMember(t) PROVE DataInv'
  <2>1. /\ UNCHANGED <<data, type, pc, call, how>> /\ pc[t] = "read"
        /\ \A u \in Thread \ {t} : /\ left'[u] = left[u]
                                   /\ seenData'[u] = seenData[u] /\ seenType'[u] = seenType[u]
    BY <1>0, <1>7 DEF ReadMember, cells
  <2>2. PICK m \in left[t] :
          /\ left'[t] = left[t] \ {m}
          /\ seenData'[t] = IF m = "data" THEN data[call[t].target] ELSE seenData[t]
          /\ seenType'[t] = IF m = "type" THEN type[call[t].target] ELSE seenType[t]
    BY <1>0, <1>7 DEF ReadMember
  <2> QED
    BY <2>1, <2>2
<1>8. ASSUME NEW t \in Thread, ReadDone(t) PROVE DataInv'
  <2>1. /\ UNCHANGED <<data, type, call, how, left, seenData, seenType>>
        /\ pc[t] = "read" /\ left[t] = {}
        /\ pc'[t] = "return" \/ (pc'[t] = "reread" /\ call[t].op = "bundle")
        /\ \A u \in Thread \ {t} : pc'[u] = pc[u]
    BY <1>0, <1>8 DEF ReadDone, cells, seen
  <2>2. ASSUME call[t].op = "toT" PROVE Matches(seenData[t], seenType[t])
    <3> DEFINE c == call[t].target
    <3>1. c \in Cell /\ t \in rw[c].shared /\ MutexSafe(rw[c])
      BY <1>0, <2>1, <2>2 DEF CallInv, ControlInv, LocksHeld
    <3>2. rw[c].exclusive = {}
      BY <3>1 DEF MutexSafe
    <3>3. \A u \in Thread : ~(pc[u] = "write" /\ call[u].target = c)
      BY <3>1, <3>2 DEF ControlInv, LocksHeld
    <3> QED
      BY <2>1, <2>2, <3>1, <3>3
  <2> QED
    BY <2>1, <2>2
<1>9. ASSUME NEW t \in Thread, Reread(t) PROVE DataInv'
  <2>1. /\ UNCHANGED <<data, type, call, how, left, seenType>>
        /\ pc[t] = "reread" /\ pc'[t] = "return" /\ call[t].op = "bundle"
        /\ \A u \in Thread \ {t} : pc'[u] = pc[u] /\ seenData'[u] = seenData[u]
    BY <1>0, <1>9 DEF Reread, cells, CallInv
  <2> QED
    BY <2>1
<1>10. ASSUME NEW t \in Thread, Return(t) PROVE DataInv'
  <2>1. /\ UNCHANGED <<data, type, left>> /\ pc'[t] = "idle"
        /\ \A u \in Thread \ {t} : /\ pc'[u] = pc[u] /\ call'[u] = call[u] /\ how'[u] = how[u]
                                   /\ seenData'[u] = seenData[u] /\ seenType'[u] = seenType[u]
        /\ pc[t] = "return"
    BY <1>0, <1>10 DEF Return, cells
  <2> QED
    BY <2>1
<1>11. CASE UNCHANGED vars
  BY <1>11 DEF vars, cells, seen
<1> QED
  BY <1>1, <1>2, <1>3, <1>4, <1>5, <1>6, <1>7, <1>8, <1>9, <1>10, <1>11, DataWrite
     DEF Next, Continue, Done

-----------------------------------------------------------------------------
(* Calls that no other overlaps. *)

\* What the call makes of its argument first, or after the pointer did not fit.
HowInv ==
    \A t \in Thread : pc[t] # "idle" =>
        /\ call[t].op = "init" => how[t] \in {"pointer", "object"}
        /\ call[t].op = "initByPtr" => how[t] = "pointer"
        /\ call[t].op = "initByObj" => how[t] = "object"
        /\ call[t].op = "from" => how[t] = Factory(call[t].arg, call[t].want)

QuietInv ==
    \A t \in Thread : ~overlap[t] =>
        /\ pc[t] \in {"read", "reread", "return"} /\ call[t].op \in Readers =>
             /\ "data" \notin left[t] => seenData[t] = data[call[t].target]
             /\ "type" \notin left[t] => seenType[t] = type[call[t].target]
             /\ pc[t] # "read" => left[t] = {}
        /\ pc[t] \in {"test", "return"} /\ call[t].op \in Writers =>
             data[call[t].target] = New(t).data /\ type[call[t].target] = New(t).type
        /\ pc[t] # "idle" /\ call[t].op = "init" /\ how[t] = "object" =>
             InitByPtr(call[t].arg, call[t].want).data = NoData
        /\ pc[t] = "return" /\ call[t].op = "init" /\ how[t] = "pointer" =>
             data[call[t].target] # NoData

LEMMA QuietInit == Init => HowInv /\ QuietInv
BY DEF Init, HowInv, QuietInv

LEMMA HowStep ==
  ASSUME ControlInv, HowInv, [Next]_vars
  PROVE  HowInv'
<1>0. pc \in [Thread -> Labels] /\ how \in [Thread -> {"pointer", "object", "none"}]
      /\ DOMAIN call = Thread /\ CallInv
  BY DEF ControlInv, LocalOK
<1> USE DEF HowInv, Go
<1>1. ASSUME NEW t \in Thread, BeginInit(t) \/ BeginFrom(t) PROVE HowInv'
  BY <1>0, <1>1 DEF BeginInit, BeginFrom, Begin
<1>2. ASSUME NEW t \in Thread, BeginReset(t) \/ BeginAssign(t) \/ BeginRead(t) PROVE HowInv'
  BY <1>0, <1>2 DEF BeginReset, BeginAssign, BeginRead, Begin
<1>3. ASSUME NEW t \in Thread,
             \/ EnterSource(t) \/ EnterUpgrade(t) \/ EnterExclusive(t) \/ EnterShare(t)
             \/ Release(t) \/ ReadDone(t) \/ Reread(t)
      PROVE  HowInv'
  <2>1. UNCHANGED <<call, how>> /\ \A u \in Thread : pc[u] = "idle" => pc'[u] = "idle"
    BY <1>0, <1>3 DEF EnterSource, EnterUpgrade, EnterExclusive, EnterShare, Release,
                      ReadDone, Reread
  <2> QED
    BY <2>1
<1>4. ASSUME NEW t \in Thread, WriteMember(t) \/ ReadMember(t) PROVE HowInv'
  BY <1>4 DEF WriteMember, ReadMember
<1>5. ASSUME NEW t \in Thread, Test(t) PROVE HowInv'
  BY <1>0, <1>5 DEF Test, CallInv
<1>6. ASSUME NEW t \in Thread, Return(t) PROVE HowInv'
  BY <1>0, <1>6 DEF Return
<1>7. CASE UNCHANGED vars
  BY <1>7 DEF vars
<1> QED
  BY <1>1, <1>2, <1>3, <1>4, <1>5, <1>6, <1>7 DEF Next, Start, Continue, Done

\* A write marks every call that uses the object.
LEMMA QuietWrite ==
  ASSUME ControlInv, DataInv, QuietInv, NEW t \in Thread, WriteMember(t)
  PROVE  QuietInv'
<1> DEFINE c == call[t].target
<1>1. /\ pc[t] = "write" /\ c \in Cell /\ pc' = pc /\ call' = call /\ how' = how
      /\ seenData' = seenData /\ seenType' = seenType
      /\ \A u \in Thread \ {t} : left'[u] = left[u]
  BY DEF WriteMember, seen, ControlInv, LocalOK, CallInv
<1>2. \A d \in Cell \ {c} : data'[d] = data[d] /\ type'[d] = type[d]
  BY <1>1 DEF WriteMember, DataInv, CellsOK
<1>3. ASSUME NEW u \in Thread \ {t}, ~overlap'[u], pc[u] # "idle"
      PROVE  /\ ~overlap[u] /\ call[u].target \in Cell \ {c}
             /\ call[u].op = "assign" => call[u].source \in Cell \ {c}
  BY <1>1, <1>3 DEF WriteMember, Uses, ControlInv, CallInv
<1>4. overlap'[t] = overlap[t]
  BY DEF WriteMember, ControlInv, LocalOK
<1>5. ASSUME NEW u \in Thread \ {t}, ~overlap'[u], pc[u] # "idle"
      PROVE  New(u)' = New(u)
  <2>1. CASE call[u].op = "assign"
    BY <1>1, <1>2, <1>3, <1>5, <2>1 DEF New, ControlInv, CallInv
  <2>2. CASE call[u].op # "assign"
    BY <1>1, <2>2 DEF New
  <2> QED
    BY <2>1, <2>2
<1> QED
  BY <1>1, <1>2, <1>3, <1>4, <1>5 DEF QuietInv

LEMMA QuietStep ==
  ASSUME ControlInv, DataInv, HowInv, QuietInv, [Next]_vars
  PROVE  QuietInv'
<1>0. /\ pc \in [Thread -> Labels] /\ left \in [Thread -> SUBSET Members] /\ CallInv
      /\ DOMAIN call = Thread /\ how \in [Thread -> {"pointer", "object", "none"}]
      /\ DOMAIN seenData = Thread /\ DOMAIN seenType = Thread
      /\ overlap \in [Thread -> BOOLEAN]
  BY DEF ControlInv, LocalOK
<1> USE DEF QuietInv, New, Go, Readers, Writers, Inits
<1>1. ASSUME NEW t \in Thread, BeginInit(t) \/ BeginFrom(t) \/ BeginReset(t)
      PROVE  QuietInv'
  <2>1. /\ UNCHANGED <<data, type, seenData, seenType, overlap, left>> /\ pc[t] = "idle"
        /\ pc'[t] = "upgrade"
        /\ call'[t].op = "init" => how'[t] = "pointer"
        /\ \A u \in Thread \ {t} : call'[u] = call[u] /\ pc'[u] = pc[u] /\ how'[u] = how[u]
    BY <1>0, <1>1 DEF BeginInit, BeginFrom, BeginReset, Begin, cells, seen
  <2> QED
    BY <2>1
<1>2. ASSUME NEW t \in Thread, BeginAssign(t) PROVE QuietInv'
  <2>1. PICK a, b \in Cell :
          /\ call' = [call EXCEPT ![t] = [op |-> "assign", target |-> a, source |-> b]]
          /\ pc' = [pc EXCEPT ![t] = IF a = b THEN "return" ELSE "source"]
    BY <1>2 DEF BeginAssign, Begin
  <2>2. UNCHANGED <<data, type, seenData, seenType, overlap, left, how>> /\ pc[t] = "idle"
    BY <1>2 DEF BeginAssign, Begin, cells, seen
  <2>3. how[t] = "none"
    BY <1>0, <2>2 DEF CallInv
  <2> QED
    BY <1>0, <2>1, <2>2, <2>3
<1>3. ASSUME NEW t \in Thread, BeginRead(t) PROVE QuietInv'
  <2>1. /\ UNCHANGED <<data, type, seenData, seenType, overlap, how>> /\ pc[t] = "idle"
        /\ pc'[t] \in {"share", "read"} /\ left'[t] = {"data", "type"}
        /\ call'[t].op \in Readers
        /\ \A u \in Thread \ {t} : call'[u] = call[u] /\ pc'[u] = pc[u] /\ left'[u] = left[u]
    BY <1>0, <1>3 DEF BeginRead, Begin, cells, seen, Members
  <2> QED
    BY <2>1
<1>4. ASSUME NEW t \in Thread, EnterSource(t) \/ EnterUpgrade(t) \/ EnterExclusive(t)
      PROVE  QuietInv'
  <2>1. /\ UNCHANGED <<data, type, call, how, seenData, seenType, overlap>>
        /\ pc[t] # "idle" /\ pc'[t] \in {"upgrade", "exclude", "write"}
        /\ \A u \in Thread \ {t} : pc'[u] = pc[u] /\ left'[u] = left[u]
    BY <1>0, <1>4 DEF EnterSource, EnterUpgrade, EnterExclusive, cells, seen
  <2> QED
    BY <2>1
<1>5. ASSUME NEW t \in Thread, EnterShare(t) PROVE QuietInv'
  <2>1. /\ UNCHANGED <<data, type, call, how, left, seenData, seenType, overlap>>
        /\ pc[t] = "share" /\ pc'[t] = "read" /\ left[t] = {"data", "type"}
        /\ call[t].op = "toT"
        /\ \A u \in Thread \ {t} : pc'[u] = pc[u]
    BY <1>0, <1>5 DEF EnterShare, cells, seen, CallInv, Members
  <2> QED
    BY <2>1
<1>6. ASSUME NEW t \in Thread, Release(t) PROVE QuietInv'
  <2>1. /\ UNCHANGED <<data, type, call, how, left, seenData, seenType, overlap>>
        /\ pc[t] = "write" /\ left[t] = {} /\ call[t].op \in Writers
        /\ pc'[t] = IF call[t].op = "init" /\ how[t] = "pointer" THEN "test" ELSE "return"
        /\ \A u \in Thread \ {t} : pc'[u] = pc[u]
    BY <1>0, <1>6 DEF Release, cells, seen, CallInv
  <2>2. data[call[t].target] = New(t).data /\ type[call[t].target] = New(t).type
    BY <2>1 DEF DataInv, WriteInv
  <2> QED
    BY <2>1, <2>2
<1>7. ASSUME NEW t \in Thread, Test(t) PROVE QuietInv'
  <2>1. /\ UNCHANGED <<data, type, call, left, seenData, seenType, overlap>>
        /\ pc[t] = "test" /\ call[t].op = "init" /\ how[t] = "pointer"
        /\ \A u \in Thread \ {t} : pc'[u] = pc[u] /\ how'[u] = how[u]
    BY <1>0, <1>7 DEF Test, cells, seen, CallInv
  <2>2. New(t) = InitByPtr(call[t].arg, call[t].want)
    BY <2>1
  <2>3. CASE data[call[t].target] = NoData
    <3>1. pc'[t] = "upgrade" /\ how'[t] = "object"
      BY <1>0, <1>7, <2>3 DEF Test
    <3>2. ~overlap[t] => InitByPtr(call[t].arg, call[t].want).data = NoData
      BY <2>1, <2>2, <2>3
    <3> QED
      BY <2>1, <3>1, <3>2
  <2>4. CASE data[call[t].target] # NoData
    <3>1. pc'[t] = "return" /\ how' = how
      BY <1>0, <1>7, <2>4 DEF Test
    <3> QED
      BY <2>1, <2>4, <3>1
  <2> QED
    BY <2>3, <2>4
<1>8. ASSUME NEW t \in Thread, ReadMember(t) PROVE QuietInv'
  <2>1. /\ UNCHANGED <<data, type, pc, call, how, overlap>> /\ pc[t] = "read"
        /\ \A u \in Thread \ {t} : /\ left'[u] = left[u]
                                   /\ seenData'[u] = seenData[u] /\ seenType'[u] = seenType[u]
    BY <1>0, <1>8 DEF ReadMember, cells
  <2>2. PICK m \in left[t] :
          /\ left'[t] = left[t] \ {m}
          /\ seenData'[t] = IF m = "data" THEN data[call[t].target] ELSE seenData[t]
          /\ seenType'[t] = IF m = "type" THEN type[call[t].target] ELSE seenType[t]
    BY <1>0, <1>8 DEF ReadMember
  <2> QED
    BY <2>1, <2>2
<1>9. ASSUME NEW t \in Thread, ReadDone(t) PROVE QuietInv'
  <2>1. /\ UNCHANGED <<data, type, call, how, left, seenData, seenType, overlap>>
        /\ pc[t] = "read" /\ left[t] = {} /\ pc'[t] \in {"return", "reread"}
        /\ call[t].op \in Readers
        /\ \A u \in Thread \ {t} : pc'[u] = pc[u]
    BY <1>0, <1>9 DEF ReadDone, cells, seen, CallInv
  <2> QED
    BY <2>1
<1>10. ASSUME NEW t \in Thread, Reread(t) PROVE QuietInv'
  <2>1. /\ UNCHANGED <<data, type, call, how, left, seenType, overlap>>
        /\ pc[t] = "reread" /\ pc'[t] = "return" /\ call[t].op = "bundle"
        /\ seenData'[t] = data[call[t].target]
        /\ \A u \in Thread \ {t} : pc'[u] = pc[u] /\ seenData'[u] = seenData[u]
    BY <1>0, <1>10 DEF Reread, cells, CallInv
  <2> QED
    BY <2>1
<1>11. ASSUME NEW t \in Thread, Return(t) PROVE QuietInv'
  <2>1. /\ UNCHANGED <<data, type, left>> /\ pc'[t] = "idle"
        /\ \A u \in Thread \ {t} : /\ pc'[u] = pc[u] /\ call'[u] = call[u] /\ how'[u] = how[u]
                                   /\ seenData'[u] = seenData[u] /\ seenType'[u] = seenType[u]
                                   /\ overlap'[u] = overlap[u]
    BY <1>0, <1>11 DEF Return, cells
  <2> QED
    BY <2>1
<1>12. CASE UNCHANGED vars
  BY <1>12 DEF vars, cells, seen
<1> QED
  BY <1>1, <1>2, <1>3, <1>4, <1>5, <1>6, <1>7, <1>8, <1>9, <1>10, <1>11, <1>12, QuietWrite
     DEF Next, Start, Continue, Done

-----------------------------------------------------------------------------
(* The casts. *)

\* The candidates are found by their position in the order of the numbers.
LEMMA NarrowerShort ==
  ASSUME NEW types, NEW T, \E i \in 1 .. 6 : types[i] = T
  PROVE  /\ Len(Narrower(types, T)) \in 0 .. 5
         /\ DOMAIN Narrower(types, T) = 1 .. Len(Narrower(types, T))
<1> DEFINE i == CHOOSE i \in 1 .. 6 : types[i] = T
           S == {types[j] : j \in 1 .. 6}
           f == [k \in 1 .. i - 1 |-> types[i - k]]
<1>1. i \in 1 .. 6
  OBVIOUS
<1>2. Narrower(types, T) = f
  BY DEF Narrower
<1> HIDE DEF i
<1>3. i - 1 \in Nat /\ \A k \in 1 .. i - 1 : types[i - k] \in S
  BY <1>1
<1>4. f \in Seq(S)
  BY <1>3, IsASeq
<1>5. Len(f) \in Nat /\ DOMAIN f = 1 .. Len(f) /\ DOMAIN f = 1 .. i - 1
  BY <1>4, LenProperties
<1>6. Len(f) = i - 1
  BY <1>3, <1>5
<1> QED
  BY <1>1, <1>2, <1>5, <1>6

LEMMA CandidatesShort ==
  ASSUME NEW T
  PROVE  /\ Len(Candidates(T)) \in 0 .. 5
         /\ DOMAIN Candidates(T) = 1 .. Len(Candidates(T))
<1>1. CASE \E i \in 1 .. 6 : Signed[i] = T
  BY <1>1, NarrowerShort DEF Candidates
<1>2. CASE /\ ~\E i \in 1 .. 6 : Signed[i] = T
           /\ \E i \in 1 .. 6 : Unsigned[i] = T
  BY <1>2, NarrowerShort DEF Candidates
<1>3. CASE /\ ~\E i \in 1 .. 6 : Signed[i] = T
           /\ ~\E i \in 1 .. 6 : Unsigned[i] = T
  <2>1. Candidates(T) = <<"char const*", "char*">> \/ Candidates(T) = <<>>
    BY <1>3 DEF Candidates
  <2>2. <<"char const*", "char*">> \in Seq({"char const*", "char*"})
    OBVIOUS
  <2>3. Len(<<"char const*", "char*">>) = 2 /\ Len(<<>>) = 0
    OBVIOUS
  <2>4. DOMAIN <<"char const*", "char*">> = 1 .. 2 /\ DOMAIN <<>> = 1 .. 0
    BY <2>2, <2>3, LenProperties, EmptySeq
  <2>5. CASE Candidates(T) = <<"char const*", "char*">>
    <3>1. Len(Candidates(T)) = 2
      BY <2>3, <2>5
    <3>2. DOMAIN Candidates(T) = 1 .. 2
      BY <2>4, <2>5
    <3> QED
      BY <3>1, <3>2
  <2>6. CASE Candidates(T) = <<>>
    <3>1. Len(Candidates(T)) = 0
      BY <2>3, <2>6
    <3>2. DOMAIN Candidates(T) = 1 .. 0
      BY <2>4, <2>6
    <3> QED
      BY <3>1, <3>2
  <2> QED
    BY <2>1, <2>5, <2>6
<1> QED
  BY <1>1, <1>2, <1>3

\* The chains of toT try the type itself and exactly the first four candidates, for
\* every type and every value: the fifth of long long and unsigned long long, bool,
\* is never tried (any.hpp:803-837).
THEOREM CastsCorrect ==
  ASSUME NEW v, NEW T
  PROVE  TakesObject(v, T) <=>
           /\ v.form = "object"
           /\ \/ v.type = T
              \/ \E i \in DOMAIN Candidates(T) \cap 1 .. 4 : Candidates(T)[i] = v.type
<1> DEFINE c == Candidates(T)
<1>1. Len(c) \in 0 .. 5 /\ DOMAIN c = 1 .. Len(c)
  BY CandidatesShort
<1> HIDE DEF c
<1> USE DEF TakesObject, ToT0, ToT1, ToT2, ToT3, ToT4, ToT5
<1>2. CASE Len(c) = 0
  BY <1>1, <1>2 DEF c
<1>3. CASE Len(c) = 1
  BY <1>1, <1>3 DEF c
<1>4. CASE Len(c) = 2
  BY <1>1, <1>4 DEF c
<1>5. CASE Len(c) = 3
  BY <1>1, <1>5 DEF c
<1>6. CASE Len(c) = 4
  BY <1>1, <1>6 DEF c
<1>7. CASE Len(c) = 5
  BY <1>1, <1>7 DEF c
<1> QED
  <2>1. \/ Len(c) = 0 \/ Len(c) = 1 \/ Len(c) = 2 \/ Len(c) = 3 \/ Len(c) = 4 \/ Len(c) = 5
    BY <1>1
  <2> QED
    BY <2>1, <1>2, <1>3, <1>4, <1>5, <1>6, <1>7

-----------------------------------------------------------------------------
(* The theorems about Spec. *)

IInv == ControlInv /\ DataInv /\ HowInv /\ QuietInv

\* The conjunction of the parts is an inductive invariant of Any.
THEOREM Invariance == Spec => []IInv
<1>1. Init => IInv
  BY ControlInit, DataInit, QuietInit DEF IInv
<1>2. IInv /\ [Next]_vars => IInv'
  BY ControlStep, DataStep, HowStep, QuietStep DEF IInv
<1> QED
  BY <1>1, <1>2, PTL DEF Spec

\* Every member of Any and every local has its type, and an Any is labelled with a
\* type it was asked to take, or void.
THEOREM TypeCorrect == Spec => []TypeOK
<1>1. IInv => TypeOK
  BY DEF IInv, ControlInv, LocalOK, CallInv, RwOK, DataInv, CellsOK, Objects, TypeOK,
         Calls, Writers, Readers, Inits
<1> QED
  BY <1>1, Invariance, PTL

\* init, reset, operator= and the casts give back every lock they take, for any
\* number of objects and threads.
THEOREM LocksCorrect == Spec => []LocksHeld
<1>1. IInv => LocksHeld
  BY DEF IInv, ControlInv
<1> QED
  BY <1>1, Invariance, PTL

\* However inits, resets and assignments meet on an Any, its type is that of its
\* object when nobody writes it (typeinfo and data are two members).
THEOREM LabelCorrect == Spec => []Labelled
<1>1. IInv => Labelled
  BY DEF IInv, DataInv
<1> QED
  BY <1>1, Invariance, PTL

\* A cast never takes an object for one of another type, and a read without the
\* lock that nobody overlaps sees one state of the Any.
THEOREM ReadCorrect == Spec => []ReadsMatch
<1>1. IInv => ReadsMatch
  BY DEF IInv, DataInv, CastInv, QuietInv, ReadsMatch, Readers
<1> QED
  BY <1>1, Invariance, PTL

\* A call that no other overlaps does what it says, for every value and type: a value
\* that fits is taken, by pointer or by one of four candidates, and any other unsets
\* the Any.
THEOREM QuietCorrect == Spec => []QuietCall
<1>1. ASSUME NEW v \in Value, NEW T \in Type
      PROVE  /\ FitsPointer(v, T) => InitByPtr(v, T) = [data |-> Held(v), type |-> T]
             /\ ~FitsPointer(v, T) => InitByPtr(v, T) = Unset
             /\ FitsObject(v, T) =>
                  InitByObj(v, T) = [data |-> [of |-> T, raw |-> FALSE], type |-> T]
             /\ ~FitsObject(v, T) => InitByObj(v, T) = Unset
             /\ FitsObject(v, T) => ~FitsPointer(v, T)
  BY CastsCorrect DEF FitsPointer, FitsObject, InitByPtr, InitByObj, TakesPointer, VoidForm
<1>2. ASSUME NEW v \in Value, NEW T \in Type
      PROVE  /\ InitByPtr(v, T) = [data |-> InitByPtr(v, T).data, type |-> InitByPtr(v, T).type]
             /\ InitByObj(v, T) = [data |-> InitByObj(v, T).data, type |-> InitByObj(v, T).type]
  BY DEF InitByPtr, InitByObj, Unset
<1>3. ASSUME IInv, NEW t \in Thread, pc[t] = "return", ~overlap[t], call[t].op \in Writers
      PROVE  Now(call[t].target) = [data |-> New(t).data, type |-> New(t).type]
  BY <1>3 DEF IInv, QuietInv, Now
<1>4. ASSUME IInv, NEW t \in Thread, pc[t] = "return", ~overlap[t]
      PROVE  /\ call[t].op = "reset" => Now(call[t].target) = Unset
             /\ call[t].op = "assign" => Now(call[t].target) = Now(call[t].source)
  <2>1. call[t].op \in {"reset", "assign"} => how[t] = "none"
    BY <1>4 DEF IInv, ControlInv, CallInv
  <2>2. call[t].op = "reset" => New(t) = Unset
    BY <2>1 DEF New
  <2>3. call[t].op = "assign" =>
          New(t) = [data |-> data[call[t].source], type |-> type[call[t].source]]
    BY <2>1 DEF New
  <2> QED
    BY <1>3, <1>4, <2>2, <2>3 DEF Writers, Now, Unset
<1>5. ASSUME IInv, NEW t \in Thread, pc[t] = "return", ~overlap[t], call[t].op \in Inits
      PROVE  /\ AsObject(call[t]) /\ FitsObject(call[t].arg, call[t].want) =>
                  Now(call[t].target)
                    = [data |-> [of |-> call[t].want, raw |-> FALSE], type |-> call[t].want]
             /\ AsPointer(call[t]) /\ FitsPointer(call[t].arg, call[t].want)
                  /\ ~call[t].arg.null =>
                  Now(call[t].target) = [data |-> Held(call[t].arg), type |-> call[t].want]
             /\ /\ ~FitsObject(call[t].arg, call[t].want)
                /\ ~FitsPointer(call[t].arg, call[t].want)
                => Now(call[t].target) = Unset
  <2> DEFINE v == call[t].arg
             T == call[t].want
             c == call[t].target
  <2>1. v \in Value /\ T \in Type
    BY <1>5 DEF IInv, ControlInv, CallInv
  <2>2. /\ how[t] = "pointer" => New(t) = InitByPtr(v, T)
        /\ how[t] = "object" => New(t) = InitByObj(v, T)
        /\ how[t] = "none" => New(t) = Unset
        /\ how[t] \in {"pointer", "object", "none"}
    BY <1>5 DEF New, Inits, IInv, ControlInv, LocalOK
  <2>3. /\ how[t] = "pointer" => Now(c) = InitByPtr(v, T)
        /\ how[t] = "object" => Now(c) = InitByObj(v, T)
        /\ how[t] = "none" => Now(c) = Unset
    BY <1>2, <1>3, <1>5, <2>1, <2>2 DEF Writers, Unset
  <2>4. /\ call[t].op = "init" => how[t] \in {"pointer", "object"}
        /\ call[t].op = "initByPtr" => how[t] = "pointer"
        /\ call[t].op = "initByObj" => how[t] = "object"
        /\ call[t].op = "from" => how[t] = Factory(v, T)
    BY <1>5 DEF IInv, HowInv
  <2>5. /\ call[t].op = "init" /\ how[t] = "object" => InitByPtr(v, T).data = NoData
        /\ call[t].op = "init" /\ how[t] = "pointer" => data[c] # NoData
    BY <1>5 DEF IInv, QuietInv
  <2>6. v.form = "object" => Factory(v, T) = "object"
    BY DEF Factory
  <2>7. v.form = "constPointer" => Factory(v, T) = "pointer"
    BY DEF Factory
  <2>8. ASSUME AsObject(call[t]), FitsObject(v, T) PROVE how[t] = "object"
    <3>1. CASE call[t].op = "init"
      <4>1. InitByPtr(v, T).data = NoData
        BY <1>1, <2>1, <2>8 DEF Unset
      <4>2. how[t] # "pointer"
        BY <2>3, <2>5, <3>1, <4>1 DEF Now
      <4> QED
        BY <2>4, <3>1, <4>2
    <3>2. CASE call[t].op = "initByObj"
      BY <2>4, <3>2
    <3>3. CASE call[t].op = "from"
      BY <2>4, <2>6, <2>8, <3>3 DEF FitsObject
    <3> QED
      BY <2>8, <3>1, <3>2, <3>3 DEF AsObject
  <2>9. ASSUME AsPointer(call[t]), FitsPointer(v, T), ~v.null PROVE how[t] = "pointer"
    <3>1. CASE call[t].op = "init"
      <4>1. InitByPtr(v, T).data = Held(v)
        BY <1>1, <2>1, <2>9
      <4>2. Held(v) # NoData
        BY <2>1, <2>9, ValueAssumption DEF Held, NoData
      <4> QED
        BY <2>4, <2>5, <3>1, <4>1, <4>2
    <3>2. CASE call[t].op = "initByPtr"
      BY <2>4, <3>2
    <3>3. CASE call[t].op = "from" /\ v.form = "constPointer"
      BY <2>4, <2>7, <3>3
    <3> QED
      BY <2>9, <3>1, <3>2, <3>3 DEF AsPointer
  <2>10. AsObject(call[t]) /\ FitsObject(v, T) =>
           Now(c) = [data |-> [of |-> T, raw |-> FALSE], type |-> T]
    BY <1>1, <2>1, <2>3, <2>8
  <2>11. AsPointer(call[t]) /\ FitsPointer(v, T) /\ ~v.null =>
           Now(c) = [data |-> Held(v), type |-> T]
    BY <1>1, <2>1, <2>3, <2>9
  <2>12. ~FitsObject(v, T) /\ ~FitsPointer(v, T) => Now(c) = Unset
    BY <1>1, <2>1, <2>2, <2>3
  <2> QED
    BY <2>10, <2>11, <2>12
<1>6. ASSUME NEW t \in Thread, AsPointer(call[t]) \/ AsObject(call[t])
      PROVE  call[t].op \in Inits
  BY <1>6 DEF AsPointer, AsObject, Inits
<1>7. IInv => QuietCall
  BY <1>4, <1>5, <1>6 DEF QuietCall
<1> QED
  BY <1>7, Invariance, PTL

-----------------------------------------------------------------------------
(* AnyCell implements AtomicAny. *)

LEMMA NewRecord ==
  ASSUME NEW t
  PROVE  \/ call[t].op = "assign"
         \/ New(t) = [data |-> New(t).data, type |-> New(t).type]
BY DEF New, InitByPtr, InitByObj, Unset

\* One thread at most has begun to write an object, and what it writes is what the
\* object will hold; an object that nobody has begun to write is as it is.
SettledInv ==
    \A c \in Cell :
        /\ \A t \in Thread : Writing(t, c) => Settled[c] = New(t)
        /\ (\A t \in Thread : ~Writing(t, c)) => Settled[c] = Now(c)

LEMMA SettledIs == IInv => SettledInv
<1> SUFFICES ASSUME IInv, NEW c \in Cell
             PROVE  /\ \A t \in Thread : Writing(t, c) => Settled[c] = New(t)
                    /\ (\A t \in Thread : ~Writing(t, c)) => Settled[c] = Now(c)
  BY DEF SettledInv
<1>1. ASSUME NEW t \in Thread, NEW u \in Thread, Writing(t, c), Writing(u, c)
      PROVE  t = u
  BY <1>1, Alone DEF Writing, IInv
<1>2. ASSUME NEW t \in Thread, Writing(t, c) PROVE Settled[c] = New(t)
  <2> DEFINE w == CHOOSE u \in Thread : Writing(u, c)
  <2>1. w \in Thread /\ Writing(w, c)
    BY <1>2
  <2>2. w = t
    BY <1>1, <1>2, <2>1
  <2>3. Settled[c] = New(w)
    BY <1>2 DEF Settled
  <2> QED
    BY <2>2, <2>3
<1>3. (\A t \in Thread : ~Writing(t, c)) => Settled[c] = Now(c)
  BY DEF Settled
<1> QED
  BY <1>2, <1>3

LEMMA SettledNext == IInv' => SettledInv'
BY SettledIs, PTL

\* What is settled changes only with the members or with the writers that have begun.
Begun(t) == pc[t] = "write" /\ left[t] # Members

LEMMA SettledKept ==
  ASSUME IInv, IInv', UNCHANGED <<data, type>>,
         \A t \in Thread : /\ Begun(t)' <=> Begun(t)
                           /\ Begun(t) => call'[t] = call[t] /\ how'[t] = how[t]
  PROVE  Settled' = Settled
<1>1. ASSUME NEW c \in Cell PROVE Settled'[c] = Settled[c]
  <2>1. CASE \E t \in Thread : Writing(t, c)
    <3>1. PICK t \in Thread : Writing(t, c)
      BY <2>1
    <3>2. Begun(t) /\ call'[t] = call[t] /\ how'[t] = how[t] /\ Writing(t, c)'
      BY <3>1 DEF Writing, Begun
    <3>3. New(t)' = New(t)
      BY <3>2 DEF New
    <3>4. Settled[c] = New(t) /\ Settled'[c] = New(t)'
      BY <3>1, <3>2, SettledIs, SettledNext DEF SettledInv
    <3> QED
      BY <3>3, <3>4
  <2>2. CASE \A t \in Thread : ~Writing(t, c)
    <3>1. \A t \in Thread : ~Writing(t, c)'
      BY <2>2 DEF Writing, Begun
    <3>2. Settled[c] = Now(c) /\ Settled'[c] = Now(c)'
      BY <2>2, <3>1, SettledIs, SettledNext DEF SettledInv
    <3> QED
      BY <3>2 DEF Now
  <2> QED
    BY <2>1, <2>2
<1> QED
  BY <1>1 DEF Settled

\* A step of t moves nobody else.
Phases == [t \in Thread |-> Phase(t)]
Founds == [t \in Thread |-> Found(t)]
OnlyMoves(t) ==
    \A u \in Thread \ {t} :
        /\ pc'[u] = pc[u] /\ call'[u] = call[u] /\ how'[u] = how[u] /\ left'[u] = left[u]
        /\ seenData'[u] = seenData[u] /\ seenType'[u] = seenType[u]

LEMMA Moves ==
  ASSUME NEW t \in Thread, OnlyMoves(t)
  PROVE  /\ Phases' = [Phases EXCEPT ![t] = Phase(t)']
         /\ Founds' = [Founds EXCEPT ![t] = Found(t)']
<1>1. ASSUME NEW u \in Thread \ {t} PROVE Phase(u)' = Phase(u) /\ Found(u)' = Found(u)
  BY DEF OnlyMoves, Phase, Found, Acted
<1> QED
  BY <1>1 DEF Phases, Founds

LEMMA Stays ==
  ASSUME NEW t \in Thread, OnlyMoves(t),
         Phase(t)' = Phase(t), Found(t)' = Found(t)
  PROVE  UNCHANGED <<Phases, Founds>>
BY Moves DEF Phases, Founds

LEMMA AtomicInit == Init => Atomic!Init
<1> SUFFICES ASSUME Init PROVE Atomic!Init
  OBVIOUS
<1>1. \A c \in Cell : Now(c) = Unset /\ \A t \in Thread : ~Writing(t, c)
  BY DEF Init, Now, Unset, Writing
<1>2. Settled = [c \in Cell |-> Unset]
  BY <1>1 DEF Settled
<1>3. \A t \in Thread : Phase(t) = "idle" /\ Found(t) = Unset
  BY DEF Init, Phase, Found, NoCall
<1> QED
  BY <1>2, <1>3 DEF Atomic!Init, Init, NoCall, Atomic!NoCall

\* A call that starts: the way it tries first, and whether it needs the lock.
LEMMA BeginStep ==
  ASSUME IInv, IInv', NEW t \in Thread, NEW c \in Atomic!Call, OnlyMoves(t),
         pc[t] = "idle", pc'[t] # "write", UNCHANGED <<data, type>>,
         call' = [call EXCEPT ![t] = c],
         how' = [how EXCEPT ![t] = Atomic!First(c)],
         Phase(t)' = IF Atomic!Lockless(c) THEN "done" ELSE "called",
         Found(t)' = Unset
  PROVE  Atomic!Begin(t)
<1>1. Phases[t] = "idle" /\ Found(t) = Unset
  BY DEF Phases, Phase, Found, Acted
<1>2. Settled' = Settled
  <2>1. \A u \in Thread : Begun(u)' <=> Begun(u)
    BY DEF OnlyMoves, Begun
  <2>2. \A u \in Thread : Begun(u) => call'[u] = call[u] /\ how'[u] = how[u]
    BY DEF OnlyMoves, Begun
  <2> QED
    BY <2>1, <2>2, SettledKept
<1>3. Founds' = Founds
  BY <1>1, Moves DEF Founds
<1>4. Phases' = [Phases EXCEPT ![t] = IF Atomic!Lockless(c) THEN "done" ELSE "called"]
  BY Moves
<1> QED
  BY <1>1, <1>2, <1>3, <1>4 DEF Atomic!Begin, Phases, Founds

LEMMA StartStep ==
  ASSUME IInv, IInv', NEW t \in Thread, Start(t)
  PROVE  Atomic!Begin(t)
<1>0. /\ pc \in [Thread -> Labels] /\ DOMAIN call = Thread
      /\ how \in [Thread -> {"pointer", "object", "none"}]
      /\ left \in [Thread -> SUBSET Members]
      /\ pc[t] = "idle" => how[t] = "none"
  BY DEF IInv, ControlInv, LocalOK, CallInv
<1> USE DEF Go
<1>1. CASE BeginInit(t)
  <2>1. PICK o \in {"init", "initByPtr", "initByObj"}, a \in Cell, v \in Value, T \in Type :
          /\ Begin(t, [op |-> o, target |-> a, arg |-> v, want |-> T], "upgrade")
          /\ how' = [how EXCEPT ![t] = IF o = "initByObj" THEN "object" ELSE "pointer"]
          /\ UNCHANGED left
    BY <1>1 DEF BeginInit
  <2> DEFINE c == [op |-> o, target |-> a, arg |-> v, want |-> T]
  <2>2. /\ c \in Atomic!Call /\ c.op = o
        /\ Atomic!First(c) = IF o = "initByObj" THEN "object" ELSE "pointer"
        /\ ~Atomic!Lockless(c)
    BY DEF Atomic!Call, Atomic!First, Atomic!Lockless
  <2>3. /\ pc[t] = "idle" /\ pc' = [pc EXCEPT ![t] = "upgrade"]
        /\ call' = [call EXCEPT ![t] = c] /\ UNCHANGED <<data, type, seenData, seenType>>
    BY <2>1 DEF Begin, cells, seen
  <2> HIDE DEF c
  <2>4. OnlyMoves(t) /\ Phase(t)' = "called" /\ Found(t)' = Unset
    BY <1>0, <2>1, <2>2, <2>3 DEF OnlyMoves, Phase, Found, Acted
  <2> QED
    BY <1>0, <2>1, <2>2, <2>3, <2>4, BeginStep
<1>2. CASE BeginFrom(t)
  <2>1. PICK a \in Cell, v \in Value, T \in Type :
          /\ Begin(t, [op |-> "from", target |-> a, arg |-> v, want |-> T], "upgrade")
          /\ how' = [how EXCEPT ![t] = Factory(v, T)]
          /\ UNCHANGED left
    BY <1>2 DEF BeginFrom
  <2> DEFINE c == [op |-> "from", target |-> a, arg |-> v, want |-> T]
  <2>2. /\ c \in Atomic!Call /\ c.op = "from"
        /\ Atomic!First(c) = Factory(v, T)
        /\ ~Atomic!Lockless(c)
    BY DEF Atomic!Call, Atomic!First, Atomic!Lockless
  <2>3. /\ pc[t] = "idle" /\ pc' = [pc EXCEPT ![t] = "upgrade"]
        /\ call' = [call EXCEPT ![t] = c] /\ UNCHANGED <<data, type, seenData, seenType>>
    BY <2>1 DEF Begin, cells, seen
  <2> HIDE DEF c
  <2>4. OnlyMoves(t) /\ Phase(t)' = "called" /\ Found(t)' = Unset
    BY <1>0, <2>1, <2>2, <2>3 DEF OnlyMoves, Phase, Found, Acted
  <2> QED
    BY <1>0, <2>1, <2>2, <2>3, <2>4, BeginStep
<1>3. CASE BeginReset(t)
  <2>1. PICK a \in Cell : Begin(t, [op |-> "reset", target |-> a], "upgrade")
    BY <1>3 DEF BeginReset
  <2> DEFINE c == [op |-> "reset", target |-> a]
  <2>2. /\ c \in Atomic!Call /\ c.op = "reset"
        /\ Atomic!First(c) = "none" /\ ~Atomic!Lockless(c)
    BY DEF Atomic!Call, Atomic!First, Atomic!Lockless
  <2>3. /\ pc[t] = "idle" /\ pc' = [pc EXCEPT ![t] = "upgrade"]
        /\ call' = [call EXCEPT ![t] = c] /\ UNCHANGED <<data, type, seenData, seenType>>
        /\ UNCHANGED <<how, left>> /\ how' = [how EXCEPT ![t] = "none"]
    BY <1>0, <1>3, <2>1 DEF Begin, BeginReset, cells, seen
  <2> HIDE DEF c
  <2>4. OnlyMoves(t) /\ Phase(t)' = "called" /\ Found(t)' = Unset
    BY <1>0, <2>2, <2>3 DEF OnlyMoves, Phase, Found, Acted
  <2> QED
    BY <1>0, <2>2, <2>3, <2>4, BeginStep
<1>4. CASE BeginAssign(t)
  <2>1. PICK a \in Cell, b \in Cell :
          Begin(t, [op |-> "assign", target |-> a, source |-> b],
                IF a = b THEN "return" ELSE "source")
    BY <1>4 DEF BeginAssign
  <2> DEFINE c == [op |-> "assign", target |-> a, source |-> b]
  <2>2. /\ c \in Atomic!Call /\ c.op = "assign"
        /\ Atomic!First(c) = "none" /\ (Atomic!Lockless(c) <=> a = b)
    BY DEF Atomic!Call, Atomic!First, Atomic!Lockless
  <2>3. /\ pc[t] = "idle" /\ pc' = [pc EXCEPT ![t] = IF a = b THEN "return" ELSE "source"]
        /\ call' = [call EXCEPT ![t] = c] /\ UNCHANGED <<data, type, seenData, seenType>>
        /\ UNCHANGED <<how, left>> /\ how' = [how EXCEPT ![t] = "none"]
    BY <1>0, <1>4, <2>1 DEF Begin, BeginAssign, cells, seen
  <2> HIDE DEF c
  <2>4. /\ OnlyMoves(t) /\ Found(t)' = Unset
        /\ Phase(t)' = IF Atomic!Lockless(c) THEN "done" ELSE "called"
    BY <1>0, <2>2, <2>3 DEF OnlyMoves, Phase, Found, Acted
  <2> QED
    BY <1>0, <2>2, <2>3, <2>4, BeginStep
<1>5. CASE BeginRead(t)
  <2>1. PICK o \in {"toT", "copy", "bundle"}, a \in Cell :
          Begin(t, [op |-> o, target |-> a], IF o = "toT" THEN "share" ELSE "read")
    BY <1>5 DEF BeginRead
  <2> DEFINE c == [op |-> o, target |-> a]
  <2>2. /\ c \in Atomic!Call /\ c.op = o
        /\ Atomic!First(c) = "none" /\ (Atomic!Lockless(c) <=> o # "toT")
    BY DEF Atomic!Call, Atomic!First, Atomic!Lockless
  <2>3. /\ pc[t] = "idle" /\ pc' = [pc EXCEPT ![t] = IF o = "toT" THEN "share" ELSE "read"]
        /\ call' = [call EXCEPT ![t] = c] /\ UNCHANGED <<data, type, seenData, seenType>>
        /\ UNCHANGED how /\ how' = [how EXCEPT ![t] = "none"]
        /\ left' = [left EXCEPT ![t] = Members]
    BY <1>0, <1>5, <2>1 DEF Begin, BeginRead, cells, seen
  <2> HIDE DEF c
  <2>4. /\ OnlyMoves(t) /\ Found(t)' = Unset
        /\ Phase(t)' = IF Atomic!Lockless(c) THEN "done" ELSE "called"
    BY <1>0, <2>2, <2>3 DEF OnlyMoves, Phase, Found, Acted
  <2> QED
    BY <1>0, <2>2, <2>3, <2>4, BeginStep
<1> QED
  BY <1>1, <1>2, <1>3, <1>4, <1>5 DEF Start

\* A call takes locks, and an unlocked reader reads, before or after its moment.
LEMMA LockStep ==
  ASSUME IInv, IInv', NEW t \in Thread,
         \/ EnterSource(t) \/ EnterUpgrade(t) \/ EnterExclusive(t) \/ EnterShare(t)
         \/ ReadDone(t) \/ Reread(t)
  PROVE  UNCHANGED Atomic!shown
<1>0. /\ pc \in [Thread -> Labels] /\ left \in [Thread -> SUBSET Members] /\ CallInv
      /\ Members # {}
      /\ DOMAIN seenData = Thread /\ DOMAIN seenType = Thread
  BY DEF IInv, ControlInv, LocalOK, Members
<1> SUFFICES /\ UNCHANGED <<data, type, call, how>> /\ OnlyMoves(t)
             /\ Begun(t)' <=> Begun(t)
             /\ Phase(t)' = Phase(t) /\ Found(t)' = Found(t)
  <2>1. Settled' = Settled
    BY SettledKept DEF OnlyMoves, Begun
  <2> QED
    BY <2>1, Stays DEF Atomic!shown, Phases, Founds
<1> USE DEF OnlyMoves, Begun, Phase, Found, Acted, cells, seen, Go, CallInv
<1>1. CASE EnterSource(t)
  BY <1>0, <1>1 DEF EnterSource
<1>2. CASE EnterUpgrade(t)
  BY <1>0, <1>2 DEF EnterUpgrade, Writers, Inits
<1>3. CASE EnterExclusive(t)
  BY <1>0, <1>3 DEF EnterExclusive, Writers, Inits
<1>4. CASE EnterShare(t)
  BY <1>0, <1>4 DEF EnterShare
<1>5. CASE ReadDone(t)
  BY <1>0, <1>5 DEF ReadDone, Readers
<1>6. CASE Reread(t)
  BY <1>0, <1>6 DEF Reread
<1> QED
  BY <1>1, <1>2, <1>3, <1>4, <1>5, <1>6

\* What a writer does to its object leaves the others as they are, also those that
\* another thread has begun to write, or copies from.
LEMMA SettledElsewhere ==
  ASSUME IInv, IInv', NEW t \in Thread, pc[t] = "write", UNCHANGED <<call, how>>,
         OnlyMoves(t),
         \A d \in Cell \ {call[t].target} : data'[d] = data[d] /\ type'[d] = type[d],
         NEW d \in Cell \ {call[t].target}
  PROVE  Settled'[d] = Settled[d]
<1>1. \A u \in Thread : Writing(u, d)' <=> Writing(u, d)
  BY DEF Writing, OnlyMoves
<1>2. CASE \E u \in Thread : Writing(u, d)
  <2>1. PICK u \in Thread : Writing(u, d)
    BY <1>2
  <2>2. pc[u] = "write" /\ u # t
    BY <2>1 DEF Writing
  <2>3. CASE call[u].op = "assign"
    <3>1. call[u].source \in Cell \ {call[t].target} /\ how[u] = "none"
      BY <2>2, <2>3, Alone DEF IInv, ControlInv, CallInv
    <3>2. New(u)' = New(u)
      BY <2>3, <3>1 DEF New
    <3> QED
      BY <1>1, <2>1, <3>2, SettledIs, SettledNext DEF SettledInv
  <2>4. CASE call[u].op # "assign"
    <3>1. New(u)' = New(u)
      BY <2>4 DEF New
    <3> QED
      BY <1>1, <2>1, <3>1, SettledIs, SettledNext DEF SettledInv
  <2> QED
    BY <2>3, <2>4
<1>3. CASE \A u \in Thread : ~Writing(u, d)
  <2>1. Settled[d] = Now(d) /\ Settled'[d] = Now(d)'
    BY <1>1, <1>3, SettledIs, SettledNext DEF SettledInv
  <2>2. data'[d] = data[d] /\ type'[d] = type[d]
    OBVIOUS
  <2> QED
    BY <2>1, <2>2 DEF Now
<1> QED
  BY <1>2, <1>3

\* The object of a writer that is done with both members is what it set out to write.
LEMMA WholeNow ==
  ASSUME IInv, NEW t \in Thread, pc[t] = "write", left[t] = {}
  PROVE  Now(call[t].target) = New(t)
<1>1. /\ data[call[t].target] = New(t).data /\ type[call[t].target] = New(t).type
      /\ call[t].op = "assign" => how[t] = "none"
  BY DEF IInv, DataInv, WriteInv, ControlInv, CallInv
<1>2. New(t) = [data |-> New(t).data, type |-> New(t).type]
  <2>1. CASE call[t].op = "assign"
    BY <1>1, <2>1 DEF New
  <2>2. CASE call[t].op # "assign"
    BY <2>2, NewRecord
  <2> QED
    BY <2>1, <2>2
<1> QED
  BY <1>1, <1>2 DEF Now

LEMMA ReleaseStep ==
  ASSUME IInv, IInv', NEW t \in Thread, Release(t)
  PROVE  UNCHANGED Atomic!shown
<1> DEFINE c == call[t].target
<1>0. /\ pc \in [Thread -> Labels] /\ left \in [Thread -> SUBSET Members] /\ CallInv
      /\ Members # {}
  BY DEF IInv, ControlInv, LocalOK, Members
<1>1. /\ pc[t] = "write" /\ left[t] = {} /\ c \in Cell
      /\ UNCHANGED <<data, type, call, how, left, seenData, seenType>>
      /\ pc' = [pc EXCEPT ![t] = IF call[t].op = "init" /\ how[t] = "pointer"
                                 THEN "test" ELSE "return"]
      /\ call[t].op \in Writers
  BY <1>0 DEF Release, Go, cells, seen, CallInv
<1>2. OnlyMoves(t)
  BY <1>0, <1>1 DEF OnlyMoves
<1>3. Phase(t)' = Phase(t) /\ Found(t)' = Found(t)
  BY <1>0, <1>1 DEF Phase, Found, Acted, Writers, Inits
<1>4. Settled'[c] = Settled[c]
  <2>1. Writing(t, c)
    BY <1>0, <1>1 DEF Writing
  <2>2. \A u \in Thread : ~Writing(u, c)'
    BY <1>0, <1>1, Alone DEF Writing, IInv
  <2>3. Settled[c] = New(t) /\ Settled'[c] = Now(c)'
    BY <1>1, <2>1, <2>2, SettledIs, SettledNext DEF SettledInv
  <2> QED
    BY <1>1, <2>3, WholeNow DEF Now
<1>5. Settled' = Settled
  BY <1>1, <1>2, <1>4, SettledElsewhere DEF Settled
<1> QED
  BY <1>1, <1>2, <1>3, <1>5, Stays DEF Atomic!shown, Phases, Founds

\* The first member a writer writes is the moment of its call; the second is hidden.
LEMMA WriteStep ==
  ASSUME IInv, IInv', NEW t \in Thread, WriteMember(t)
  PROVE  Atomic!Write(t) \/ UNCHANGED Atomic!shown
<1> DEFINE c == call[t].target
<1>0. /\ pc \in [Thread -> Labels] /\ left \in [Thread -> SUBSET Members] /\ CallInv
      /\ DOMAIN data = Cell /\ DOMAIN type = Cell
  BY DEF IInv, ControlInv, LocalOK, DataInv, CellsOK
<1>1. /\ pc[t] = "write" /\ c \in Cell /\ call[t].op \in Writers
      /\ UNCHANGED <<pc, call, how, seenData, seenType>>
      /\ call[t].op = "assign" => /\ call[t].source \in Cell \ {c}
                                  /\ how[t] = "none"
  BY <1>0 DEF WriteMember, seen, CallInv
<1>2. PICK m \in left[t] :
        /\ left' = [left EXCEPT ![t] = left[t] \ {m}]
        /\ data' = IF m = "data" THEN [data EXCEPT ![c] = New(t).data] ELSE data
        /\ type' = IF m = "type" THEN [type EXCEPT ![c] = New(t).type] ELSE type
  BY DEF WriteMember
<1>3. /\ OnlyMoves(t)
      /\ \A d \in Cell \ {c} : data'[d] = data[d] /\ type'[d] = type[d]
      /\ left'[t] # Members
  <2>1. left'[t] = left[t] \ {m} /\ m \in Members
    BY <1>0, <1>2
  <2>2. left'[t] # Members
    BY <2>1
  <2> QED
    BY <1>0, <1>1, <1>2, <2>2 DEF OnlyMoves
<1>4. New(t)' = New(t)
  <2>1. CASE call[t].op = "assign"
    BY <1>1, <1>3, <2>1 DEF New
  <2>2. CASE call[t].op # "assign"
    BY <1>1, <2>2 DEF New
  <2> QED
    BY <2>1, <2>2
<1>5. Settled'[c] = New(t)
  <2>1. Writing(t, c)'
    BY <1>1, <1>3 DEF Writing
  <2> QED
    BY <1>1, <1>4, <2>1, SettledNext DEF SettledInv
<1>6. \A d \in Cell \ {c} : Settled'[d] = Settled[d]
  BY <1>1, <1>3, SettledElsewhere
<1>7. Settled' = [Settled EXCEPT ![c] = New(t)]
  BY <1>5, <1>6 DEF Settled
<1>8. Found(t)' = Found(t) /\ Founds' = Founds
  <2>1. Found(t)' = Found(t)
    BY <1>1 DEF Found, Writers, Inits
  <2> QED
    BY <1>3, <2>1, Moves DEF Founds
<1>9. CASE left[t] = Members
  <2>1. Phase(t) = "called"
    BY <1>1, <1>9 DEF Phase, Acted, Writers, Inits
  <2>2. Phase(t)' = IF call[t].op = "init" /\ how[t] = "pointer" THEN "tried" ELSE "done"
    BY <1>1, <1>3 DEF Phase, Acted
  <2>3. Atomic!Made(t) = New(t)
    <3>1. CASE call[t].op = "assign"
      <4>1. \A u \in Thread : ~Writing(u, call[t].source)
        BY <1>1, <3>1, Alone DEF Writing, IInv
      <4>2. Settled[call[t].source] = Now(call[t].source)
        BY <1>1, <3>1, <4>1, SettledIs DEF SettledInv
      <4> QED
        BY <1>1, <3>1, <4>2 DEF Atomic!Made, New, Now
    <3>2. CASE call[t].op # "assign"
      BY <3>2 DEF Atomic!Made, New
    <3> QED
      BY <3>1, <3>2
  <2>4. Phases' = [Phases EXCEPT ![t] = IF call[t].op = "init" /\ how[t] = "pointer"
                                        THEN "tried" ELSE "done"]
    BY <1>3, <2>2, Moves
  <2>5. Phases[t] = "called"
    BY <2>1 DEF Phases
  <2>6. call[t].op # "toT"
    BY <1>1 DEF Writers, Inits
  <2>7. Atomic!Write(t)
    BY <1>1, <1>7, <1>8, <2>3, <2>4, <2>5, <2>6 DEF Atomic!Write, Phases, Founds
  <2> QED
    BY <2>7
<1>10. CASE left[t] # Members
  <2>1. Writing(t, c)
    BY <1>1, <1>10 DEF Writing
  <2>2. Settled[c] = New(t)
    BY <1>1, <2>1, SettledIs DEF SettledInv
  <2>3. Settled' = Settled
    BY <1>7, <2>2 DEF Settled
  <2>4. Phase(t)' = Phase(t)
    BY <1>1, <1>3, <1>10 DEF Phase, Acted
  <2> QED
    BY <1>1, <1>3, <1>8, <2>3, <2>4, Stays DEF Atomic!shown, Phases, Founds
<1> QED
  BY <1>9, <1>10

\* The look of init without the lock: with nobody at the object it is exact.
LEMMA TestStep ==
  ASSUME IInv, IInv', NEW t \in Thread, Test(t)
  PROVE  Atomic!Succeed(t) \/ Atomic!TryObject(t)
<1> DEFINE c == call[t].target
<1>0. /\ pc \in [Thread -> Labels] /\ CallInv /\ DOMAIN call = Thread
      /\ how \in [Thread -> {"pointer", "object", "none"}]
  BY DEF IInv, ControlInv, LocalOK
<1>1. /\ pc[t] = "test" /\ c \in Cell /\ call[t].op = "init"
      /\ UNCHANGED <<data, type, call, left, seenData, seenType>>
  BY <1>0 DEF Test, cells, seen, CallInv
<1>2. \/ /\ data[c] = NoData /\ pc' = [pc EXCEPT ![t] = "upgrade"]
         /\ how' = [how EXCEPT ![t] = "object"]
      \/ /\ data[c] # NoData /\ pc' = [pc EXCEPT ![t] = "return"] /\ how' = how
  BY DEF Test, Go
<1>3. OnlyMoves(t) /\ Found(t)' = Found(t) /\ Phases[t] = "tried"
  BY <1>0, <1>1, <1>2 DEF OnlyMoves, Found, Phases, Phase
<1>4. Founds' = Founds
  BY <1>3, Moves DEF Founds
<1>5. Settled' = Settled
  <2>1. \A u \in Thread : Begun(u)' <=> Begun(u)
    BY <1>0, <1>1, <1>2 DEF Begun
  <2>2. \A u \in Thread : Begun(u) => call'[u] = call[u] /\ how'[u] = how[u]
    BY <1>0, <1>1, <1>2 DEF Begun
  <2> QED
    BY <1>1, <2>1, <2>2, SettledKept
<1>6. Settled[c].data = data[c] \/ Atomic!Raced(t)
  <2>1. CASE \A u \in Thread : ~Writing(u, c)
    <3>1. Settled[c] = Now(c)
      BY <1>1, <2>1, SettledIs DEF SettledInv
    <3> QED
      BY <3>1 DEF Now
  <2>2. CASE \E u \in Thread : Writing(u, c)
    <3>1. PICK u \in Thread : Writing(u, c)
      BY <2>2
    <3>2. /\ pc[u] = "write" /\ call[u].target = c /\ u # t
          /\ call[u].op \in Writers
          /\ call[u].op = "assign" => call[u].source # call[u].target
      BY <1>0, <1>1, <3>1 DEF Writing, CallInv
    <3>3. Phases[u] \in {"tried", "done"}
      BY <3>1 DEF Writing, Phases, Phase, Acted
    <3>4. ~Atomic!Lockless(call[u]) /\ call[u].op # "toT"
      BY <3>2 DEF Atomic!Lockless, Writers, Inits
    <3> QED
      BY <1>0, <3>2, <3>3, <3>4 DEF Atomic!Raced, Phases
  <2> QED
    BY <2>1, <2>2
<1>7. CASE data[c] = NoData
  <2>1. pc' = [pc EXCEPT ![t] = "upgrade"] /\ how' = [how EXCEPT ![t] = "object"]
    BY <1>2, <1>7
  <2>2. Phase(t)' = "called"
    BY <1>0, <1>1, <2>1 DEF Phase, Acted
  <2>3. Phases' = [Phases EXCEPT ![t] = "called"]
    BY <1>3, <2>2, Moves
  <2> QED
    BY <1>1, <1>3, <1>4, <1>5, <1>6, <1>7, <2>1, <2>3
       DEF Atomic!TryObject, Phases, Founds, Unset
<1>8. CASE data[c] # NoData
  <2>1. pc' = [pc EXCEPT ![t] = "return"] /\ how' = how
    BY <1>2, <1>8
  <2>2. Phase(t)' = "done"
    BY <1>0, <1>1, <2>1 DEF Phase, Acted
  <2>3. Phases' = [Phases EXCEPT ![t] = "done"]
    BY <1>3, <2>2, Moves
  <2> QED
    BY <1>1, <1>3, <1>4, <1>5, <1>6, <1>8, <2>1, <2>3
       DEF Atomic!Succeed, Phases, Founds, Unset
<1> QED
  BY <1>7, <1>8

\* The last member a cast reads is the moment of its call: its lock has kept the
\* writers out since the first.
LEMMA ReadStep ==
  ASSUME IInv, IInv', NEW t \in Thread, ReadMember(t)
  PROVE  Atomic!Read(t) \/ UNCHANGED Atomic!shown
<1> DEFINE c == call[t].target
<1>0. /\ pc \in [Thread -> Labels] /\ left \in [Thread -> SUBSET Members] /\ CallInv
      /\ DOMAIN seenData = Thread /\ DOMAIN seenType = Thread
  BY DEF IInv, ControlInv, LocalOK
<1>1. /\ pc[t] = "read" /\ c \in Cell /\ call[t].op \in Readers
      /\ UNCHANGED <<data, type, pc, call, how>>
  BY <1>0 DEF ReadMember, cells, CallInv
<1>2. PICK m \in left[t] : /\ left' = [left EXCEPT ![t] = left[t] \ {m}]
                           /\ \A u \in Thread \ {t} : /\ seenData'[u] = seenData[u]
                                                      /\ seenType'[u] = seenType[u]
  BY <1>0 DEF ReadMember
<1>3. OnlyMoves(t) /\ left[t] # {}
  BY <1>0, <1>1, <1>2 DEF OnlyMoves
<1>4. Settled' = Settled
  <2>1. \A u \in Thread : Begun(u)' <=> Begun(u)
    BY <1>1, <1>3 DEF Begun, OnlyMoves
  <2> QED
    BY <1>1, <2>1, SettledKept
<1>5. CASE call[t].op = "toT" /\ left'[t] = {}
  <2>1. /\ seenData'[t] = data[c] /\ seenType'[t] = type[c]
    BY <1>1, <1>5 DEF IInv, DataInv, CastInv
  <2>2. Settled[c] = Now(c)
    <3>1. \A u \in Thread : ~Writing(u, c)
      BY <1>1, <1>5, Alone DEF Writing, IInv
    <3> QED
      BY <1>1, <3>1, SettledIs DEF SettledInv
  <2>3. Found(t)' = Settled[c]
    BY <1>1, <1>5, <2>1, <2>2 DEF Found, Acted, Now
  <2>4. Phases[t] = "called" /\ Phase(t)' = "done"
    BY <1>1, <1>3, <1>5 DEF Phases, Phase, Acted
  <2>5. /\ Founds' = [Founds EXCEPT ![t] = Settled[c]]
        /\ Phases' = [Phases EXCEPT ![t] = "done"]
    BY <1>3, <2>3, <2>4, Moves
  <2> QED
    BY <1>1, <1>4, <1>5, <2>4, <2>5 DEF Atomic!Read, Phases, Founds
<1>6. CASE ~(call[t].op = "toT" /\ left'[t] = {})
  <2>1. Phase(t)' = Phase(t) /\ Found(t)' = Found(t)
    BY <1>1, <1>3, <1>6 DEF Phase, Found, Acted, Readers
  <2> QED
    BY <1>1, <1>3, <1>4, <2>1, Stays DEF Atomic!shown, Phases, Founds
<1> QED
  BY <1>5, <1>6

LEMMA ReturnStep ==
  ASSUME IInv, IInv', NEW t \in Thread, Return(t)
  PROVE  Atomic!Return(t)
<1>0. /\ pc \in [Thread -> Labels] /\ DOMAIN call = Thread /\ DOMAIN how = Thread
  BY DEF IInv, ControlInv, LocalOK
<1>1. /\ pc[t] = "return" /\ pc' = [pc EXCEPT ![t] = "idle"]
      /\ call' = [call EXCEPT ![t] = NoCall] /\ how' = [how EXCEPT ![t] = "none"]
      /\ UNCHANGED <<data, type, left>>
  BY DEF Return, Go, cells
<1>2. OnlyMoves(t)
  BY <1>0, <1>1 DEF OnlyMoves, Return
<1>3. Settled' = Settled
  <2>1. \A u \in Thread : Begun(u)' <=> Begun(u)
    BY <1>0, <1>1 DEF Begun
  <2>2. \A u \in Thread : Begun(u) => call'[u] = call[u] /\ how'[u] = how[u]
    BY <1>0, <1>1 DEF Begun
  <2> QED
    BY <1>1, <2>1, <2>2, SettledKept
<1>4. Phases[t] = "done" /\ Phase(t)' = "idle" /\ Found(t)' = Unset
  BY <1>0, <1>1 DEF Phases, Phase, Found, Acted, NoCall
<1>5. /\ Phases' = [Phases EXCEPT ![t] = "idle"]
      /\ Founds' = [Founds EXCEPT ![t] = Unset]
  BY <1>2, <1>4, Moves
<1> QED
  BY <1>1, <1>3, <1>4, <1>5 DEF Atomic!Return, Phases, Founds, NoCall, Atomic!NoCall

LEMMA AtomicStep ==
  ASSUME IInv, IInv', [Next]_vars
  PROVE  [Atomic!Next]_(Atomic!shown)
<1>1. ASSUME NEW t \in Thread, Start(t) PROVE Atomic!Next
  BY <1>1, StartStep DEF Atomic!Next
<1>2. ASSUME NEW t \in Thread, Continue(t) PROVE [Atomic!Next]_(Atomic!shown)
  <2>1. CASE WriteMember(t)
    BY <2>1, WriteStep DEF Atomic!Next
  <2>2. CASE Test(t)
    BY <2>2, TestStep DEF Atomic!Next
  <2>3. CASE ReadMember(t)
    BY <2>3, ReadStep DEF Atomic!Next
  <2>4. CASE Return(t)
    BY <2>4, ReturnStep DEF Atomic!Next
  <2>5. CASE Release(t)
    BY <2>5, ReleaseStep
  <2> QED
    BY <1>2, <2>1, <2>2, <2>3, <2>4, <2>5, LockStep DEF Continue
<1>3. CASE UNCHANGED vars
  <2>1. UNCHANGED <<data, type, pc, call, how, left, seenData, seenType>>
    BY <1>3 DEF vars, cells, seen
  <2>2. Settled' = Settled
    BY <2>1, SettledKept DEF Begun
  <2>3. \A t \in Thread : Phase(t)' = Phase(t) /\ Found(t)' = Found(t)
    BY <2>1 DEF Phase, Found, Acted
  <2> QED
    BY <2>1, <2>2, <2>3 DEF Atomic!shown
<1> QED
  BY <1>1, <1>2, <1>3 DEF Next, Done

\* Any with its locks and its two members implements AtomicAny: for any threads,
\* objects, values and types, whatever takes the lock of an Any (init, reset,
\* operator=, the factories, toT) takes place at one moment, and an object never
\* comes apart from its label.
THEOREM AtomicCorrect == Spec => AtomicCalls
<1>1. Init => Atomic!Init
  BY AtomicInit
<1>2. IInv /\ IInv' /\ [Next]_vars => [Atomic!Next]_(Atomic!shown)
  BY AtomicStep
<1> QED
  BY <1>1, <1>2, Invariance, PTL DEF Spec, AtomicCalls, Atomic!Spec
=============================================================================
