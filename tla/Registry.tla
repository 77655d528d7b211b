------------------------------ MODULE Registry ------------------------------
(***************************************************************************)
(* The table of Loggers of src/log.cpp: Logger::getLogger, hasLogger and   *)
(* releaseLogger over the static map `instances`, and the references that  *)
(* callers, the macros of loghelper.cpp.hpp among them, use afterwards.    *)
(* The map owns the Loggers: one that it drops is destroyed.  A Logger is  *)
(* the number of its construction, 0 for none.                             *)
(***************************************************************************)
EXTENDS Naturals, SharedMutex

CONSTANTS
    Thread,       \* threads that call
    File,         \* paths
    Warm,         \* files whose Logger was got before the threads started
    Default,      \* defaultLogFile at that time
    Ops,          \* API calls the threads make
    MaxLoggers,   \* bound: constructions, the warm ones included
    MaxCalls      \* bound: API calls

ASSUME FileAssumption  == Warm \subseteq File /\ Default \in File
ASSUME OpsAssumption   ==
    Ops \subseteq {"get", "macro", "use", "release", "setDefault"}
ASSUME BoundAssumption == MaxLoggers \in Nat /\ MaxCalls \in Nat

VARIABLES
    instances,    \* Logger of each file in the map, 0 when it has none
    owner,        \* file of each Logger constructed so far
    alive,        \* Loggers not destroyed yet
    open,         \* Loggers whose stream is open
    rw,           \* instancesRwlock
    default,      \* defaultLogFile
    pc, op, file, ref,  \* where a thread is, why, its `file`, its Logger&
    round,        \* getLogger calls its macro may still make
    made,         \* Loggers constructed so far
    released,     \* files that releaseLogger has been called for
    calls

data   == <<instances, owner, alive, open, made>>
locals == <<op, file, ref, round>>
vars   == <<data, rw, default, pc, locals, released, calls>>

Labels == {"idle", "enter", "find", "configure", "upgrade", "exclude",
           "construct", "insert", "erase", "using"}

LoggerId == 1 .. MaxLoggers

\* Where a thread dereferences ref.
Dereferences == {"configure", "using"}

\* Warm Loggers are numbered by some one-to-one choice of numbers.
Init ==
    /\ \E number \in [Warm -> LoggerId] :
         /\ \A f, g \in Warm : number[f] = number[g] => f = g
         /\ \A f \in Warm, n \in LoggerId :
              n < number[f] => \E g \in Warm : number[g] = n
         /\ instances = [f \in File |-> IF f \in Warm THEN number[f] ELSE 0]
         /\ alive = {number[f] : f \in Warm}
         /\ owner = [n \in LoggerId |->
                       IF \E f \in Warm : number[f] = n
                       THEN CHOOSE f \in Warm : number[f] = n ELSE Default]
         /\ made \in {n \in 0 .. MaxLoggers : alive = 1 .. n}
    /\ open = {}
    /\ rw = Unlocked
    /\ default = Default
    /\ pc = [t \in Thread |-> "idle"]
    /\ op = [t \in Thread |-> "get"]
    /\ file = [t \in Thread |-> Default]
    /\ ref = [t \in Thread |-> 0]
    /\ round = [t \in Thread |-> 0]
    /\ released = {} /\ calls = 0

Go(t, label) == pc' = [pc EXCEPT ![t] = label]

Begin(t, o) ==
    /\ pc[t] = "idle"
    /\ o \in Ops
    /\ calls < MaxCalls
    /\ calls' = calls + 1

-----------------------------------------------------------------------------
\* setDefaultLogger with a path that is not empty.
SetDefault(t) ==
    /\ Begin(t, "setDefault")
    /\ default' \in File
    /\ UNCHANGED <<data, rw, pc, locals, released>>

\* getLogger: an empty path stands for the default file.  The macros of
\* loghelper.cpp.hpp get the default Logger for isLogable and again to append.
BeginGet(t) ==
    /\ \/ /\ Begin(t, "get")
          /\ op' = [op EXCEPT ![t] = "get"]
          /\ \E f \in File : file' = [file EXCEPT ![t] = f]
          /\ UNCHANGED round
       \/ /\ Begin(t, "macro")
          /\ op' = [op EXCEPT ![t] = "macro"]
          /\ file' = [file EXCEPT ![t] = default]
          /\ round' = [round EXCEPT ![t] = 2]
    /\ Go(t, "enter")
    /\ UNCHANGED <<data, rw, default, ref, released>>

\* hasLogger takes the lock shared and gives it back before it returns.
EnterFind(t) ==
    /\ pc[t] = "enter"
    /\ CanShare(rw)
    /\ rw' = LockShared(rw, t)
    /\ Go(t, "find")
    /\ UNCHANGED <<data, default, locals, released, calls>>

\* Mutant: the Logger that is there is not looked at.
FindNothing(t) ==
    /\ pc[t] = "find"
    /\ rw' = UnlockShared(rw, t)
    /\ Go(t, "upgrade")
    /\ UNCHANGED <<data, default, locals, released, calls>>

\* Mutant: the shared lock is kept while the exclusive one is asked for.
FindKeepingLock(t) ==
    /\ pc[t] = "find"
    /\ IF instances[file[t]] # 0
       THEN /\ ref' = [ref EXCEPT ![t] = instances[file[t]]]
            /\ rw' = UnlockShared(rw, t)
            /\ Go(t, "configure")
       ELSE Go(t, "upgrade") /\ UNCHANGED <<ref, rw>>
    /\ UNCHANGED <<data, default, op, file, round, released, calls>>

Find(t) ==
    /\ pc[t] = "find"
    /\ rw' = UnlockShared(rw, t)
    /\ IF instances[file[t]] # 0
       THEN /\ ref' = [ref EXCEPT ![t] = instances[file[t]]]
            /\ Go(t, "configure")
       ELSE Go(t, "upgrade") /\ UNCHANGED ref
    /\ UNCHANGED <<data, default, op, file, round, released, calls>>

\* What the caller of getLogger does next: a macro uses the Logger at once.
Got(t) == Go(t, IF op[t] = "macro" THEN "using" ELSE "idle")

\* getLogger sets the use-once level and the outputs of the Logger it found;
\* nothing holds the map, or the Logger, any more.
Configure(t) ==
    /\ pc[t] = "configure"
    /\ Got(t)
    /\ UNCHANGED <<data, rw, default, locals, released, calls>>

EnterUpgrade(t) ==
    /\ pc[t] = "upgrade"
    /\ CanUpgrade(rw)
    /\ rw' = LockUpgrade(rw, t)
    /\ Go(t, "exclude")
    /\ UNCHANGED <<data, default, locals, released, calls>>

EnterExclusive(t) ==
    /\ pc[t] = "exclude"
    /\ CanExclude(rw)
    /\ rw' = LockExclusive(rw, t)
    /\ Go(t, IF op[t] = "release" THEN "erase" ELSE "construct")
    /\ UNCHANGED <<data, default, locals, released, calls>>

\* Mutant: the construction is not recorded.
ConstructUncounted(t) ==
    /\ pc[t] = "construct"
    /\ made < MaxLoggers
    /\ owner' = [owner EXCEPT ![made + 1] = file[t]]
    /\ alive' = alive \cup {made + 1}
    /\ ref' = [ref EXCEPT ![t] = made + 1]
    /\ Go(t, "insert")
    /\ UNCHANGED <<instances, open, made, rw, default, op, file, round, released,
                   calls>>

\* The map is not searched again.  The new Logger does not open its file: its
\* constructor resets it while outputs still is CoutOrCerr.
Construct(t) ==
    /\ pc[t] = "construct"
    /\ made < MaxLoggers
    /\ made' = made + 1
    /\ owner' = [owner EXCEPT ![made'] = file[t]]
    /\ alive' = alive \cup {made'}
    /\ ref' = [ref EXCEPT ![t] = made']
    /\ Go(t, "insert")
    /\ UNCHANGED <<instances, open, rw, default, op, file, round, released, calls>>

\* Mutant: the Logger that was in the map is not destroyed.
InsertKeepingOld(t) ==
    /\ pc[t] = "insert"
    /\ instances' = [instances EXCEPT ![file[t]] = ref[t]]
    /\ rw' = UnlockExclusive(rw, t)
    /\ Got(t)
    /\ UNCHANGED <<owner, alive, open, made, default, locals, released, calls>>

\* instances[file] = ret: whatever the map held there is destroyed, and its
\* destructor closes the stream.
Insert(t) ==
    /\ pc[t] = "insert"
    /\ instances' = [instances EXCEPT ![file[t]] = ref[t]]
    /\ alive' = alive \ {instances[file[t]]}
    /\ open' = open \ {instances[file[t]]}
    /\ rw' = UnlockExclusive(rw, t)
    /\ Got(t)
    /\ UNCHANGED <<owner, made, default, locals, released, calls>>

-----------------------------------------------------------------------------
BeginRelease(t) ==
    /\ Begin(t, "release")
    /\ op' = [op EXCEPT ![t] = "release"]
    /\ \E f \in File : /\ file' = [file EXCEPT ![t] = f]
                       /\ released' = released \cup {f}
    /\ Go(t, "upgrade")
    /\ UNCHANGED <<data, rw, default, ref, round>>

Erase(t) ==
    /\ pc[t] = "erase"
    /\ instances' = [instances EXCEPT ![file[t]] = 0]
    /\ alive' = alive \ {instances[file[t]]}
    /\ open' = open \ {instances[file[t]]}
    /\ rw' = UnlockExclusive(rw, t)
    /\ Go(t, "idle")
    /\ UNCHANGED <<owner, made, default, locals, released, calls>>

\* A caller uses the Logger& it was given.
BeginUse(t) ==
    /\ Begin(t, "use")
    /\ ref[t] # 0
    /\ op' = [op EXCEPT ![t] = "use"]
    /\ Go(t, "using")
    /\ UNCHANGED <<data, rw, default, file, ref, round, released>>

\* An append may open the stream.  On a destroyed Logger it may do so too: the
\* build may find the memory as the destructor left it.
EndUse(t) ==
    /\ pc[t] = "using"
    /\ open' \in {open, open \cup {ref[t]}}
    /\ \/ /\ round[t] = 2
          /\ round' = [round EXCEPT ![t] = 1]
          /\ file' = [file EXCEPT ![t] = default]
          /\ Go(t, "enter")
       \/ /\ round' = [round EXCEPT ![t] = 0]
          /\ Go(t, "idle")
          /\ UNCHANGED file
    /\ UNCHANGED <<instances, owner, alive, made, rw, default, op, ref, released,
                   calls>>

\* The program stops calling: not a deadlock.
Done ==
    /\ calls = MaxCalls
    /\ \A t \in Thread : pc[t] = "idle"
    /\ UNCHANGED vars

Start(t) == SetDefault(t) \/ BeginGet(t) \/ BeginRelease(t) \/ BeginUse(t)
Continue(t) ==
    \/ EnterFind(t) \/ Find(t) \/ Configure(t) \/ EnterUpgrade(t)
    \/ EnterExclusive(t) \/ Construct(t) \/ Insert(t) \/ Erase(t) \/ EndUse(t)

Next == (\E t \in Thread : Start(t) \/ Continue(t)) \/ Done

Spec == Init /\ [][Next]_vars

\* A thread inside a call keeps running; the calls are bounded, so readers
\* cannot keep a writer out for ever.
FairSpec == Spec /\ \A t \in Thread : WF_vars(Continue(t))

-----------------------------------------------------------------------------
(* Properties. *)

\* Every variable has its type (the statics of Logger, the locals of getLogger);
\* the map, the references and the open streams are of Loggers that were made.
TypeOK ==
    /\ made \in 0 .. MaxLoggers
    /\ instances \in [File -> 0 .. made]
    /\ owner \in [LoggerId -> File]
    /\ alive \in SUBSET (1 .. made) /\ open \in SUBSET (1 .. made)
    /\ rw \in MutexType(Thread)
    /\ default \in File
    /\ pc \in [Thread -> Labels]
    /\ op \in [Thread -> {"get", "macro", "use", "release"}]
    /\ file \in [Thread -> File]
    /\ ref \in [Thread -> 0 .. made]
    /\ round \in [Thread -> 0 .. 2]
    /\ released \in SUBSET File /\ calls \in Nat

\* A thread that changes the map is alone in it: no other thread searches it or
\* changes it, and every path of getLogger, hasLogger and releaseLogger gives
\* instancesRwlock back.
MapExclusive ==
    /\ \A t \in Thread :
         /\ pc[t] = "find" <=> t \in rw.shared
         /\ pc[t] = "exclude" <=> t \in rw.upgrade
         /\ pc[t] \in {"construct", "insert", "erase"} <=> t \in rw.exclusive
    /\ MutexSafe(rw)

\* The map owns the Loggers: one that lives is the instance of its file, but for
\* the one that getLogger is about to put there, and every instance lives.
MapOwns ==
    /\ \A n \in alive :
         \/ instances[owner[n]] = n
         \/ \E t \in Thread : pc[t] = "insert" /\ ref[t] = n
    /\ \A f \in File : instances[f] # 0 =>
         instances[f] \in alive /\ owner[instances[f]] = f

\* A Logger got before the threads start, and not released, is never destroyed
\* under a thread that uses it: getLogger finds it and replaces nothing.
WarmStays ==
    \A t \in Thread :
        pc[t] \in Dereferences /\ ref[t] \notin alive =>
            owner[ref[t]] \notin Warm \/ owner[ref[t]] \in released

\* "Get a Logger instance": while nobody releases a Logger, the reference that
\* getLogger returned is one.
RefsLive ==
    \A t \in Thread : pc[t] \in Dereferences => ref[t] \in alive

\* Every call returns: readers and writers of instancesRwlock do not wait for
\* each other for ever.
CallsReturn == \A t \in Thread : pc[t] # "idle" ~> pc[t] = "idle"

=============================================================================
