--------------------------- MODULE RegistryProofs ---------------------------
(***************************************************************************)
(* Proofs about Registry for every number of threads and files.            *)
(*                                                                         *)
(* The argument: instancesRwlock is held exactly at the labels that search *)
(* or change the map (LockInv), so the Logger between its construction and *)
(* its insertion is the one reference nobody else can reach (InsertInv);   *)
(* ownership follows.  A file that is warm and not released always has its *)
(* Logger in the map, so nobody is ever on the way to replace it (WarmInv).*)
(***************************************************************************)
EXTENDS Registry, TLAPS

\* What MapExclusive needs to be inductive: one upgrade lock at a time.
LockInv ==
    /\ MapExclusive
    /\ \A t, u \in rw.upgrade : t = u

\* The Logger that getLogger is about to insert.
InsertInv ==
    \A t \in Thread : pc[t] = "insert" =>
        /\ ref[t] \in alive
        /\ owner[ref[t]] = file[t]
        /\ \A f \in File : instances[f] # ref[t]

RefInv == \A t \in Thread : pc[t] \in Dereferences \cup {"insert"} => ref[t] # 0

\* On the way to change the map.
Changing == {"upgrade", "exclude", "construct", "insert", "erase"}

WarmInv ==
    /\ \A f \in Warm \ released : instances[f] # 0
    /\ \A n \in 1 .. made : owner[n] \in Warm \ released => n \in alive
    /\ \A t \in Thread : pc[t] \in Changing => file[t] \notin Warm \ released

IInv == TypeOK /\ LockInv /\ InsertInv /\ RefInv /\ MapOwns /\ WarmInv

\* The numbering of the warm Loggers.
LEMMA InitFacts ==
  ASSUME Init
  PROVE  /\ made \in 0 .. MaxLoggers /\ alive = 1 .. made
         /\ instances \in [File -> 0 .. made]
         /\ owner \in [LoggerId -> File]
         /\ \A f \in File : instances[f] # 0 <=> f \in Warm
         /\ \A f \in Warm : instances[f] \in alive /\ owner[instances[f]] = f
         /\ \A n \in alive : instances[owner[n]] = n
<1>1. PICK number \in [Warm -> LoggerId] :
         /\ \A f, g \in Warm : number[f] = number[g] => f = g
         /\ instances = [f \in File |-> IF f \in Warm THEN number[f] ELSE 0]
         /\ alive = {number[f] : f \in Warm}
         /\ owner = [n \in LoggerId |->
                       IF \E f \in Warm : number[f] = n
                       THEN CHOOSE f \in Warm : number[f] = n ELSE Default]
         /\ made \in {n \in 0 .. MaxLoggers : alive = 1 .. n}
  BY DEF Init
<1>2. made \in 0 .. MaxLoggers /\ alive = 1 .. made /\ MaxLoggers \in Nat
  BY <1>1, BoundAssumption
<1>3. \A f \in Warm : number[f] \in 1 .. made /\ number[f] \in alive /\ f \in File
  BY <1>1, <1>2, FileAssumption
<1>4. instances \in [File -> 0 .. made]
  BY <1>1, <1>2, <1>3
<1>5. \A n \in LoggerId : (\E f \in Warm : number[f] = n)
        => (CHOOSE f \in Warm : number[f] = n) \in Warm
           /\ number[CHOOSE f \in Warm : number[f] = n] = n
  OBVIOUS
<1>6. owner \in [LoggerId -> File]
  BY <1>1, <1>5, FileAssumption
<1>7. \A n \in alive : n \in LoggerId /\ owner[n] \in Warm /\ number[owner[n]] = n
  BY <1>1, <1>2, <1>5 DEF LoggerId
<1>8. \A f \in File : instances[f] # 0 <=> f \in Warm
  BY <1>1, <1>3
<1>9. \A f \in Warm : instances[f] = number[f]
  BY <1>1, <1>3
<1>10. \A f \in Warm : owner[number[f]] = f
  BY <1>1, <1>3, <1>7
<1> QED
  BY <1>2, <1>3, <1>4, <1>6, <1>7, <1>8, <1>9, <1>10

LEMMA InvInit == Init => IInv
<1> SUFFICES ASSUME Init PROVE IInv
  OBVIOUS
<1>1. /\ made \in 0 .. MaxLoggers /\ alive = 1 .. made
      /\ instances \in [File -> 0 .. made]
      /\ owner \in [LoggerId -> File]
      /\ \A f \in File : instances[f] # 0 <=> f \in Warm
      /\ \A f \in Warm : instances[f] \in alive /\ owner[instances[f]] = f
      /\ \A n \in alive : instances[owner[n]] = n
  BY InitFacts
<1>2. /\ open = {} /\ rw = Unlocked /\ default = Default
      /\ pc = [t \in Thread |-> "idle"] /\ op = [t \in Thread |-> "get"]
      /\ file = [t \in Thread |-> Default] /\ ref = [t \in Thread |-> 0]
      /\ round = [t \in Thread |-> 0] /\ released = {} /\ calls = 0
  BY DEF Init
<1>3. TypeOK
  BY <1>1, <1>2, FileAssumption, BoundAssumption DEF TypeOK, Labels, Unlocked, MutexType
<1>4. LockInv
  BY <1>2 DEF LockInv, MapExclusive, MutexSafe, Unlocked
<1>5. InsertInv /\ RefInv
  BY <1>2 DEF InsertInv, RefInv, Dereferences
<1>6. MapOwns
  BY <1>1 DEF MapOwns
<1>7. WarmInv
  BY <1>1, <1>2, FileAssumption DEF WarmInv, Changing
<1> QED
  BY <1>3, <1>4, <1>5, <1>6, <1>7 DEF IInv

LEMMA TypeStep ==
  ASSUME TypeOK, RefInv, [Next]_vars
  PROVE  TypeOK'
<1> USE DEF TypeOK, Go, Labels
<1>1. ASSUME NEW t \in Thread, SetDefault(t) PROVE TypeOK'
  BY <1>1 DEF SetDefault, Begin, data, locals
<1>2. ASSUME NEW t \in Thread, BeginGet(t) PROVE TypeOK'
  BY <1>2 DEF BeginGet, Begin, data
<1>3. ASSUME NEW t \in Thread, BeginRelease(t) PROVE TypeOK'
  BY <1>3 DEF BeginRelease, Begin, data
<1>4. ASSUME NEW t \in Thread, BeginUse(t) PROVE TypeOK'
  BY <1>4 DEF BeginUse, Begin, data
<1>5. ASSUME NEW t \in Thread, EnterFind(t) PROVE TypeOK'
  BY <1>5 DEF EnterFind, LockShared, MutexType, data, locals
<1>6. ASSUME NEW t \in Thread, Find(t) PROVE TypeOK'
  BY <1>6 DEF Find, UnlockShared, MutexType, data
<1>7. ASSUME NEW t \in Thread, Configure(t) PROVE TypeOK'
  BY <1>7 DEF Configure, Got, data, locals
<1>8. ASSUME NEW t \in Thread, EnterUpgrade(t) PROVE TypeOK'
  BY <1>8 DEF EnterUpgrade, LockUpgrade, MutexType, data, locals
<1>9. ASSUME NEW t \in Thread, EnterExclusive(t) PROVE TypeOK'
  BY <1>9 DEF EnterExclusive, LockExclusive, MutexType, data, locals
<1>10. ASSUME NEW t \in Thread, Construct(t) PROVE TypeOK'
  BY <1>10, BoundAssumption, SMTT(60) DEF Construct, LoggerId
<1>11. ASSUME NEW t \in Thread, Insert(t) PROVE TypeOK'
  BY <1>11 DEF Insert, Got, UnlockExclusive, MutexType, locals
<1>12. ASSUME NEW t \in Thread, Erase(t) PROVE TypeOK'
  BY <1>12 DEF Erase, UnlockExclusive, MutexType, locals
<1>13. ASSUME NEW t \in Thread, EndUse(t) PROVE TypeOK'
  BY <1>13 DEF EndUse, RefInv, Dereferences
<1>14. CASE UNCHANGED vars
  BY <1>14 DEF vars, data, locals
<1> QED
  BY <1>1, <1>2, <1>3, <1>4, <1>5, <1>6, <1>7, <1>8, <1>9, <1>10, <1>11, <1>12, <1>13,
     <1>14 DEF Next, Start, Continue, Done

LEMMA LockStep ==
  ASSUME TypeOK, LockInv, [Next]_vars
  PROVE  LockInv'
<1> USE DEF TypeOK, LockInv, MapExclusive, MutexSafe, MutexType, Go
<1>1. ASSUME NEW t \in Thread, Start(t) PROVE LockInv'
  BY <1>1 DEF Start, SetDefault, BeginGet, BeginRelease, BeginUse, Begin
<1>2. ASSUME NEW t \in Thread, EnterFind(t) PROVE LockInv'
  BY <1>2 DEF EnterFind, CanShare, LockShared
<1>3. ASSUME NEW t \in Thread, Find(t) PROVE LockInv'
  BY <1>3 DEF Find, UnlockShared
<1>4. ASSUME NEW t \in Thread, Configure(t) \/ EndUse(t) PROVE LockInv'
  BY <1>4 DEF Configure, Got, EndUse
<1>5. ASSUME NEW t \in Thread, EnterUpgrade(t) PROVE LockInv'
  BY <1>5 DEF EnterUpgrade, CanUpgrade, LockUpgrade
<1>6. ASSUME NEW t \in Thread, EnterExclusive(t) PROVE LockInv'
  BY <1>6 DEF EnterExclusive, CanExclude, LockExclusive
<1>7. ASSUME NEW t \in Thread, Construct(t) PROVE LockInv'
  BY <1>7 DEF Construct
<1>8. ASSUME NEW t \in Thread, Insert(t) \/ Erase(t) PROVE LockInv'
  BY <1>8 DEF Insert, Erase, Got, UnlockExclusive
<1>9. CASE UNCHANGED vars
  BY <1>9 DEF vars
<1> QED
  BY <1>1, <1>2, <1>3, <1>4, <1>5, <1>6, <1>7, <1>8, <1>9
     DEF Next, Start, Continue, Done

\* Whoever changes the map is alone at the labels that do.
LEMMA Alone ==
  ASSUME LockInv, NEW t \in Thread, NEW s \in Thread,
         pc[t] \in {"construct", "insert", "erase"},
         pc[s] \in {"construct", "insert", "erase"}
  PROVE  s = t
  BY DEF LockInv, MapExclusive, MutexSafe

LEMMA RefStep ==
  ASSUME TypeOK, RefInv, [Next]_vars
  PROVE  RefInv'
<1> USE DEF TypeOK, RefInv, Dereferences, Go
<1>1. ASSUME NEW t \in Thread, Start(t) PROVE RefInv'
  BY <1>1 DEF Start, SetDefault, BeginGet, BeginRelease, BeginUse, Begin, locals
<1>2. ASSUME NEW t \in Thread, Find(t) PROVE RefInv'
  BY <1>2 DEF Find
<1>3. ASSUME NEW t \in Thread, Construct(t) PROVE RefInv'
  BY <1>3, BoundAssumption DEF Construct
<1>4. ASSUME NEW t \in Thread, EnterFind(t) \/ EnterUpgrade(t) \/ EnterExclusive(t)
      PROVE RefInv'
  BY <1>4 DEF EnterFind, EnterUpgrade, EnterExclusive, locals
<1>5. ASSUME NEW t \in Thread, Configure(t) \/ Insert(t) \/ Erase(t) \/ EndUse(t)
      PROVE RefInv'
  BY <1>5 DEF Configure, Insert, Erase, EndUse, Got, locals
<1>6. CASE UNCHANGED vars
  BY <1>6 DEF vars, locals
<1> QED
  BY <1>1, <1>2, <1>3, <1>4, <1>5, <1>6 DEF Next, Start, Continue, Done

\* Construct, Insert and Erase are the steps that change the Loggers or the map.
LEMMA MapFrame ==
  ASSUME TypeOK, NEW t \in Thread, Start(t) \/ Continue(t),
         ~Construct(t), ~Insert(t), ~Erase(t)
  PROVE  /\ UNCHANGED <<instances, owner, alive, made>>
         /\ \A s \in Thread : pc'[s] = "insert" =>
              pc[s] = "insert" /\ ref'[s] = ref[s] /\ file'[s] = file[s]
<1> USE DEF TypeOK, Go, data, locals
<1>1. CASE Start(t)
  BY <1>1 DEF Start, SetDefault, BeginGet, BeginRelease, BeginUse, Begin
<1>2. CASE EnterFind(t) \/ Find(t) \/ EnterUpgrade(t)
  BY <1>2 DEF EnterFind, Find, EnterUpgrade
<1>3. CASE Configure(t) \/ EnterExclusive(t) \/ EndUse(t)
  BY <1>3 DEF Configure, EnterExclusive, EndUse, Got
<1> QED
  BY <1>1, <1>2, <1>3 DEF Continue

\* The Logger a thread is about to insert is nobody else's, and the map owns all
\* others.
LEMMA OwnStep ==
  ASSUME TypeOK, LockInv, RefInv, InsertInv, MapOwns, [Next]_vars
  PROVE  InsertInv' /\ MapOwns'
<1>1. ASSUME NEW t \in Thread, Start(t) \/ Continue(t),
             ~Construct(t), ~Insert(t), ~Erase(t)
      PROVE  InsertInv' /\ MapOwns'
  <2>1. /\ UNCHANGED <<instances, owner, alive, made>>
        /\ \A s \in Thread : pc'[s] = "insert" =>
             pc[s] = "insert" /\ ref'[s] = ref[s] /\ file'[s] = file[s]
    BY <1>1, MapFrame
  <2>2. \A s \in Thread : pc[s] = "insert" => pc'[s] = "insert" /\ ref'[s] = ref[s]
    BY <1>1 DEF TypeOK, Go, locals, Start, SetDefault, BeginGet, BeginRelease, BeginUse,
       Begin, Continue, EnterFind, Find, EnterUpgrade, Configure, EnterExclusive, EndUse, Got
  <2> QED
    BY <2>1, <2>2 DEF InsertInv, MapOwns
<1>2. ASSUME NEW t \in Thread, Construct(t) PROVE InsertInv' /\ MapOwns'
  <2>1. /\ made' = made + 1 /\ made + 1 \in LoggerId
        /\ owner' = [owner EXCEPT ![made + 1] = file[t]]
        /\ alive' = alive \cup {made + 1}
        /\ ref' = [ref EXCEPT ![t] = made + 1]
        /\ pc' = [pc EXCEPT ![t] = "insert"]
        /\ UNCHANGED <<instances, file>>
        /\ pc[t] = "construct"
    BY <1>2, BoundAssumption DEF Construct, TypeOK, Go, LoggerId
  <2>2. \A s \in Thread : pc[s] # "insert"
    BY <2>1, Alone
  <2>3. InsertInv'
    BY <2>1, <2>2 DEF InsertInv, TypeOK
  <2>4. \A n \in alive : n # made + 1 /\ owner'[n] = owner[n]
    BY <2>1 DEF TypeOK, LoggerId
  <2>5. \A f \in File : instances[f] # made + 1
    BY DEF TypeOK
  <2>6. MapOwns'
    BY <2>1, <2>2, <2>4, <2>5 DEF MapOwns, TypeOK
  <2> QED
    BY <2>3, <2>6
<1>3. ASSUME NEW t \in Thread, Insert(t) PROVE InsertInv' /\ MapOwns'
  <2>1. /\ instances' = [instances EXCEPT ![file[t]] = ref[t]]
        /\ alive' = alive \ {instances[file[t]]}
        /\ UNCHANGED <<owner, ref, file>>
        /\ pc[t] = "insert" /\ pc'[t] # "insert"
        /\ \A s \in Thread : s # t => pc'[s] = pc[s]
    BY <1>3 DEF Insert, Got, Go, TypeOK, locals
  <2>2. \A s \in Thread : pc'[s] # "insert"
    BY <2>1, Alone
  <2>3. /\ ref[t] \in alive /\ owner[ref[t]] = file[t] /\ ref[t] # 0
        /\ \A f \in File : instances[f] # ref[t]
        /\ file[t] \in File
    BY <2>1 DEF InsertInv, RefInv, TypeOK
  <2>4. \A n \in alive : n = ref[t] \/ instances[owner[n]] = n
    BY <2>1, Alone DEF MapOwns
  <2>5. \A n \in alive : owner[n] \in File
    BY BoundAssumption DEF TypeOK, LoggerId
  <2>6. \A f \in File : instances'[f] = IF f = file[t] THEN ref[t] ELSE instances[f]
    BY <2>1 DEF TypeOK
  <2>7. MapOwns'
    BY <2>1, <2>3, <2>4, <2>5, <2>6 DEF MapOwns
  <2> QED
    BY <2>2, <2>7 DEF InsertInv
<1>4. ASSUME NEW t \in Thread, Erase(t) PROVE InsertInv' /\ MapOwns'
  <2>1. /\ instances' = [instances EXCEPT ![file[t]] = 0]
        /\ alive' = alive \ {instances[file[t]]}
        /\ UNCHANGED <<owner, ref, file>>
        /\ pc[t] = "erase" /\ pc'[t] # "insert"
        /\ \A s \in Thread : s # t => pc'[s] = pc[s]
    BY <1>4 DEF Erase, Go, TypeOK, locals
  <2>2. \A s \in Thread : pc'[s] # "insert" /\ pc[s] # "insert"
    BY <2>1, Alone
  <2>3. \A f \in File : instances'[f] = IF f = file[t] THEN 0 ELSE instances[f]
    BY <2>1 DEF TypeOK
  <2>4. \A n \in alive : owner[n] \in File
    BY BoundAssumption DEF TypeOK, LoggerId
  <2>5. \A n \in alive' : n \in alive /\ instances[owner[n]] = n /\ owner[n] # file[t]
    BY <2>1, <2>2, <2>4 DEF MapOwns
  <2>6. ASSUME NEW f \in File, instances'[f] # 0
        PROVE  instances'[f] \in alive' /\ owner[instances'[f]] = f
    <3>1. f # file[t] /\ instances'[f] = instances[f] /\ file[t] \in File
      BY <2>3, <2>6 DEF TypeOK
    <3>2. instances[f] \in alive /\ owner[instances[f]] = f
      BY <2>6, <3>1 DEF MapOwns
    <3>3. instances[f] # instances[file[t]]
      BY <2>6, <3>1, <3>2 DEF MapOwns
    <3> QED
      BY <2>1, <3>1, <3>2, <3>3
  <2>7. MapOwns'
    BY <2>1, <2>3, <2>4, <2>5, <2>6 DEF MapOwns
  <2> QED
    BY <2>2, <2>7 DEF InsertInv
<1>5. CASE UNCHANGED vars
  BY <1>5 DEF vars, data, locals, InsertInv, MapOwns
<1> QED
  BY <1>1, <1>2, <1>3, <1>4, <1>5 DEF Next, Done

\* A warm file that nobody released keeps its Logger, and nobody is on the way to
\* replace it.
LEMMA WarmStep ==
  ASSUME TypeOK, LockInv, InsertInv, RefInv, MapOwns, WarmInv, [Next]_vars
  PROVE  WarmInv'
<1> DEFINE Safe == Warm \ released
<1>1. ASSUME NEW t \in Thread, SetDefault(t) \/ BeginGet(t) \/ BeginUse(t) PROVE WarmInv'
  BY <1>1 DEF SetDefault, BeginGet, BeginUse, Begin, WarmInv, Changing, TypeOK, Go, data,
     locals
<1>2. ASSUME NEW t \in Thread, BeginRelease(t) PROVE WarmInv'
  <2>1. PICK f \in File : file' = [file EXCEPT ![t] = f] /\ released' = released \cup {f}
    BY <1>2 DEF BeginRelease
  <2>2. /\ pc' = [pc EXCEPT ![t] = "upgrade"]
        /\ UNCHANGED <<instances, owner, alive, made>>
    BY <1>2 DEF BeginRelease, Go, data
  <2> QED
    BY <2>1, <2>2 DEF WarmInv, Changing, TypeOK
<1>3. ASSUME NEW t \in Thread, Find(t) PROVE WarmInv'
  <2>1. /\ UNCHANGED <<instances, owner, alive, made, file, released>>
        /\ pc'[t] = "configure" \/ instances[file[t]] = 0
        /\ \A s \in Thread : s # t => pc'[s] = pc[s]
        /\ file[t] \in File
    BY <1>3 DEF Find, TypeOK, Go, data
  <2> QED
    BY <2>1 DEF WarmInv, Changing
<1>4. ASSUME NEW t \in Thread,
             EnterFind(t) \/ Configure(t) \/ EnterUpgrade(t) \/ EnterExclusive(t) \/ EndUse(t)
      PROVE WarmInv'
  <2>1. /\ UNCHANGED <<instances, owner, alive, made, released>>
        /\ \A s \in Thread : pc'[s] \in Changing => pc[s] \in Changing /\ file'[s] = file[s]
    BY <1>4 DEF EnterFind, Configure, Got, EnterUpgrade, EnterExclusive, EndUse, TypeOK, Go,
       data, locals, Changing
  <2> QED
    BY <2>1 DEF WarmInv
<1>5. ASSUME NEW t \in Thread, Construct(t) PROVE WarmInv'
  <2>1. /\ made' = made + 1 /\ made + 1 \in LoggerId
        /\ owner' = [owner EXCEPT ![made + 1] = file[t]]
        /\ alive' = alive \cup {made + 1}
        /\ \A s \in Thread : pc'[s] \in Changing => pc[s] \in Changing
        /\ UNCHANGED <<instances, file, released>>
    BY <1>5, BoundAssumption DEF Construct, TypeOK, Go, LoggerId, Changing
  <2>2. \A n \in 1 .. made' : n # made + 1 => n \in 1 .. made /\ owner'[n] = owner[n]
    BY <2>1, BoundAssumption DEF TypeOK, LoggerId
  <2> QED
    BY <2>1, <2>2 DEF WarmInv
<1>6. ASSUME NEW t \in Thread, Insert(t) \/ Erase(t) PROVE WarmInv'
  <2>1. /\ alive' = alive \ {instances[file[t]]}
        /\ \A f \in File : f # file[t] => instances'[f] = instances[f]
        /\ UNCHANGED <<owner, made, file, released>>
        /\ \A s \in Thread : pc'[s] \in Changing => pc[s] \in Changing
        /\ pc[t] \in Changing /\ file[t] \in File
    BY <1>6 DEF Insert, Erase, Got, TypeOK, Go, locals, Changing
  <2>2. file[t] \notin Safe
    BY <2>1 DEF WarmInv
  <2>3. instances[file[t]] # 0 => owner[instances[file[t]]] = file[t]
    BY <2>1 DEF MapOwns
  <2>4. \A n \in 1 .. made : owner[n] \in Safe => n \in alive'
    BY <2>1, <2>2, <2>3 DEF WarmInv
  <2>5. \A f \in Safe : instances'[f] # 0
    BY <2>1, <2>2, FileAssumption DEF WarmInv
  <2> QED
    BY <2>1, <2>4, <2>5 DEF WarmInv
<1>7. CASE UNCHANGED vars
  BY <1>7 DEF vars, data, locals, WarmInv
<1> QED
  BY <1>1, <1>2, <1>3, <1>4, <1>5, <1>6, <1>7 DEF Next, Start, Continue, Done

\* The inductive invariant of the registry.
THEOREM Invariance == Spec => []IInv
<1>1. IInv /\ [Next]_vars => IInv'
  BY TypeStep, LockStep, RefStep, OwnStep, WarmStep DEF IInv
<1> QED
  BY <1>1, InvInit, PTL DEF Spec

\* The map and every reference getLogger returns name Loggers that were made, for
\* any number of threads and files.
THEOREM TypeCorrect == Spec => []TypeOK
<1>1. IInv => TypeOK
  BY DEF IInv
<1> QED
  BY <1>1, Invariance, PTL

\* A thread that changes the map is alone in it, and every path gives
\* instancesRwlock back.
THEOREM ExclusionCorrect == Spec => []MapExclusive
<1>1. IInv => MapExclusive
  BY DEF IInv, LockInv
<1> QED
  BY <1>1, Invariance, PTL

\* The map owns the Loggers: none lives outside it, and none in it is destroyed,
\* whoever gets, releases and replaces Loggers at once.
THEOREM OwnershipCorrect == Spec => []MapOwns
<1>1. IInv => MapOwns
  BY DEF IInv
<1> QED
  BY <1>1, Invariance, PTL

\* A Logger got before the threads start stays alive under whoever uses it, until
\* somebody releases its file.
THEOREM WarmCorrect == Spec => []WarmStays
<1>1. IInv => WarmStays
  <2> SUFFICES ASSUME IInv, NEW t \in Thread, pc[t] \in Dereferences, ref[t] \notin alive
               PROVE  owner[ref[t]] \notin Warm \/ owner[ref[t]] \in released
    BY DEF WarmStays
  <2>1. ref[t] \in 1 .. made
    BY DEF IInv, TypeOK, RefInv
  <2> QED
    BY <2>1 DEF IInv, WarmInv
<1> QED
  BY <1>1, Invariance, PTL

=============================================================================
