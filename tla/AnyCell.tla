------------------------------ MODULE AnyCell ------------------------------
(***************************************************************************)
(* Objects of class Any (src/any.cpp, any.hpp) shared by threads: init,    *)
(* assign, reset, operator= and the readers, with the rwlock that each Any *)
(* carries.  data and typeinfo are two members and are written one after   *)
(* the other.  Readers that take no lock (the copy constructor,            *)
(* getDataBundle, operator bool) race with the writers: their reads, and   *)
(* the two writes as such a reader sees them, come in any order.           *)
(***************************************************************************)
EXTENDS AnyCast, FiniteSets, SharedMutex

CONSTANTS
    Thread,       \* threads that use the Any objects
    Cell,         \* the Any objects
    Value,        \* boost::any arguments of init
    Type,         \* types T that init, assign and the factories are called with
    Ops,          \* calls the threads make
    MaxCalls      \* bound: calls

Calls == {"init", "initByPtr", "initByObj", "from", "reset", "assign", "toT",
          "copy", "bundle"}

ASSUME ValueAssumption ==
    \A v \in Value : /\ v.form \in Form /\ v.null \in BOOLEAN
                     /\ v.form = "object" => ~v.null
                     /\ v.type # "void"
ASSUME TypeAssumption  == "void" \notin Type
ASSUME OpsAssumption   == Ops \subseteq Calls
ASSUME BoundAssumption == MaxCalls \in Nat

VARIABLES
    data, type,       \* members of the Any objects
    rw,               \* the rwlock of each
    pc,
    call,             \* the call of a thread and its arguments
    how,              \* what it makes of them: by pointer, by object, neither
    left,             \* members the thread has still to write or to read
    seenData, seenType,  \* what a reader has read
    overlap,          \* has another thread written what the call uses
    calls

cells == <<data, type>>
seen  == <<seenData, seenType>>
vars  == <<cells, rw, pc, call, how, left, seen, overlap, calls>>

Labels  == {"idle", "source", "share", "upgrade", "exclude", "write", "test",
            "read", "reread", "return"}
Members == {"data", "type"}
NoCall  == [op |-> "none"]

Init ==
    /\ data = [c \in Cell |-> NoData]
    /\ type = [c \in Cell |-> "void"]
    /\ rw = [c \in Cell |-> Unlocked]
    /\ pc = [t \in Thread |-> "idle"]
    /\ call = [t \in Thread |-> NoCall]
    /\ how = [t \in Thread |-> "none"]
    /\ left = [t \in Thread |-> {}]
    /\ seenData = [t \in Thread |-> NoData]
    /\ seenType = [t \in Thread |-> "void"]
    /\ overlap = [t \in Thread |-> FALSE]
    /\ calls = 0

Go(t, label) == pc' = [pc EXCEPT ![t] = label]

\* The objects a call reads or writes.
Uses(c) == IF c.op = "assign" THEN {c.target, c.source} ELSE {c.target}

Begin(t, c, label) ==
    /\ pc[t] = "idle"
    /\ c.op \in Ops
    /\ calls < MaxCalls
    /\ calls' = calls + 1
    /\ call' = [call EXCEPT ![t] = c]
    /\ Go(t, label)
    /\ UNCHANGED <<cells, rw, seen, overlap>>

-----------------------------------------------------------------------------
(* The calls. *)

\* init(value), init(value, true) and init(value, false), and assign, which is
\* init; the first tries the pointer, then the object.
BeginInit(t) ==
    \E o \in {"init", "initByPtr", "initByObj"}, a \in Cell, v \in Value, T \in Type :
        /\ Begin(t, [op |-> o, target |-> a, arg |-> v, want |-> T], "upgrade")
        /\ how' = [how EXCEPT ![t] = IF o = "initByObj" THEN "object" ELSE "pointer"]
        /\ UNCHANGED left

\* a = Any::fromT(...), fromTPtr(...) or create(...), on a value of the very type T:
\* an assignment from an Any that nobody else has, whose lock is therefore free.
Factory(v, T) ==
    CASE v.form = "object"       -> "object"
      [] v.form = "constPointer" -> "pointer"
      [] OTHER -> IF T \in Created THEN "pointer" ELSE "none"

BeginFrom(t) ==
    \E a \in Cell, v \in Value, T \in Type :
        /\ v.type = T
        /\ v.form \in {"object", "constPointer"} \/ (v.form = "voidPointer" /\ ~v.null)
        /\ Begin(t, [op |-> "from", target |-> a, arg |-> v, want |-> T], "upgrade")
        /\ how' = [how EXCEPT ![t] = Factory(v, T)]
        /\ UNCHANGED left

BeginReset(t) ==
    /\ \E a \in Cell : Begin(t, [op |-> "reset", target |-> a], "upgrade")
    /\ UNCHANGED <<how, left>>

\* a = b compares the addresses first: a = a takes no lock.
BeginAssign(t) ==
    /\ \E a, b \in Cell :
         Begin(t, [op |-> "assign", target |-> a, source |-> b],
               IF a = b THEN "return" ELSE "source")
    /\ UNCHANGED <<how, left>>

\* toT, toTPtr and toTPtrd take the lock; the copy constructor and getDataBundle
\* do not.
BeginRead(t) ==
    /\ \E o \in {"toT", "copy", "bundle"}, a \in Cell :
         Begin(t, [op |-> o, target |-> a], IF o = "toT" THEN "share" ELSE "read")
    /\ left' = [left EXCEPT ![t] = Members]
    /\ UNCHANGED how

-----------------------------------------------------------------------------
(* The writers. *)

\* Mutant: the right side is copied without its lock.
CopyWithoutLock(t) ==
    /\ pc[t] = "source"
    /\ Go(t, "upgrade")
    /\ UNCHANGED <<cells, rw, call, how, left, seen, overlap, calls>>

\* operator= holds the right side shared while it waits for the left.
EnterSource(t) ==
    /\ pc[t] = "source"
    /\ CanShare(rw[call[t].source])
    /\ rw' = [rw EXCEPT ![call[t].source] = LockShared(@, t)]
    /\ Go(t, "upgrade")
    /\ UNCHANGED <<cells, call, how, left, seen, overlap, calls>>

EnterUpgrade(t) ==
    /\ pc[t] = "upgrade"
    /\ CanUpgrade(rw[call[t].target])
    /\ rw' = [rw EXCEPT ![call[t].target] = LockUpgrade(@, t)]
    /\ Go(t, "exclude")
    /\ UNCHANGED <<cells, call, how, left, seen, overlap, calls>>

EnterExclusive(t) ==
    /\ pc[t] = "exclude"
    /\ CanExclude(rw[call[t].target])
    /\ rw' = [rw EXCEPT ![call[t].target] = LockExclusive(@, t)]
    /\ left' = [left EXCEPT ![t] = Members]
    /\ Go(t, "write")
    /\ UNCHANGED <<cells, call, how, seen, overlap, calls>>

\* What the call makes of its argument: a value that does not fit unsets the Any.
New(t) ==
    CASE call[t].op = "assign" -> [data |-> data[call[t].source],
                                   type |-> type[call[t].source]]
      [] how[t] = "pointer"    -> InitByPtr(call[t].arg, call[t].want)
      [] how[t] = "object"     -> InitByObj(call[t].arg, call[t].want)
      [] OTHER                 -> Unset

WriteMember(t) ==
    /\ pc[t] = "write"
    /\ \E m \in left[t] :
         /\ left' = [left EXCEPT ![t] = @ \ {m}]
         /\ data' = IF m = "data" THEN [data EXCEPT ![call[t].target] = New(t).data] ELSE data
         /\ type' = IF m = "type" THEN [type EXCEPT ![call[t].target] = New(t).type] ELSE type
    /\ overlap' = [u \in Thread |->
                     \/ overlap[u]
                     \/ u # t /\ pc[u] # "idle" /\ call[t].target \in Uses(call[u])]
    /\ UNCHANGED <<rw, pc, call, how, seen, calls>>

\* Mutant: the lock of the right side stays.
ReleaseTarget(t) == [rw EXCEPT ![call[t].target] = UnlockExclusive(@, t)]

Released(t) ==
    [c \in Cell |->
       CASE c = call[t].target -> UnlockExclusive(rw[c], t)
         [] c # call[t].target /\ c \in Uses(call[t]) -> UnlockShared(rw[c], t)
         [] OTHER -> rw[c]]

Release(t) ==
    /\ pc[t] = "write"
    /\ left[t] = {}
    /\ rw' = Released(t)
    /\ Go(t, IF call[t].op = "init" /\ how[t] = "pointer" THEN "test" ELSE "return")
    /\ UNCHANGED <<cells, call, how, left, seen, overlap, calls>>

\* Mutant: whatever came of the pointer, the object is tried.
TestNothing(t) ==
    /\ pc[t] = "test"
    /\ how' = [how EXCEPT ![t] = "object"]
    /\ Go(t, "upgrade")
    /\ UNCHANGED <<cells, rw, call, left, seen, overlap, calls>>

\* init(value) looks, without the lock, whether the pointer has set the Any.
Test(t) ==
    /\ pc[t] = "test"
    /\ IF data[call[t].target] = NoData
       THEN Go(t, "upgrade") /\ how' = [how EXCEPT ![t] = "object"]
       ELSE Go(t, "return") /\ UNCHANGED how
    /\ UNCHANGED <<cells, rw, call, left, seen, overlap, calls>>

-----------------------------------------------------------------------------
(* The readers. *)

\* Mutant: the members are read without the lock.
ShareWithoutLock(t) ==
    /\ pc[t] = "share"
    /\ Go(t, "read")
    /\ UNCHANGED <<cells, rw, call, how, left, seen, overlap, calls>>

EnterShare(t) ==
    /\ pc[t] = "share"
    /\ CanShare(rw[call[t].target])
    /\ rw' = [rw EXCEPT ![call[t].target] = LockShared(@, t)]
    /\ Go(t, "read")
    /\ UNCHANGED <<cells, call, how, left, seen, overlap, calls>>

ReadMember(t) ==
    /\ pc[t] = "read"
    /\ \E m \in left[t] :
         /\ left' = [left EXCEPT ![t] = @ \ {m}]
         /\ seenData' = IF m = "data" THEN [seenData EXCEPT ![t] = data[call[t].target]]
                        ELSE seenData
         /\ seenType' = IF m = "type" THEN [seenType EXCEPT ![t] = type[call[t].target]]
                        ELSE seenType
    /\ UNCHANGED <<cells, rw, pc, call, how, overlap, calls>>

\* The types getDataBundle knows.
Bundled == {"short", "int", "long", "long long", "std::string", "AnyVector",
            "DataAndSize", "Anyable"}

ReadDone(t) ==
    /\ pc[t] = "read"
    /\ left[t] = {}
    /\ rw' = [rw EXCEPT ![call[t].target] = UnlockShared(@, t)]
    /\ Go(t, IF /\ call[t].op = "bundle"
                /\ seenData[t] # NoData /\ seenType[t] \in Bundled
             THEN "reread" ELSE "return")
    /\ UNCHANGED <<cells, call, how, left, seen, overlap, calls>>

\* getDataBundle reads data again for the address it returns.
Reread(t) ==
    /\ pc[t] = "reread"
    /\ seenData' = [seenData EXCEPT ![t] = data[call[t].target]]
    /\ Go(t, "return")
    /\ UNCHANGED <<cells, rw, call, how, left, seenType, overlap, calls>>

Return(t) ==
    /\ pc[t] = "return"
    /\ call' = [call EXCEPT ![t] = NoCall]
    /\ how' = [how EXCEPT ![t] = "none"]
    /\ seenData' = [seenData EXCEPT ![t] = NoData]
    /\ seenType' = [seenType EXCEPT ![t] = "void"]
    /\ overlap' = [overlap EXCEPT ![t] = FALSE]
    /\ Go(t, "idle")
    /\ UNCHANGED <<cells, rw, left, calls>>

-----------------------------------------------------------------------------
\* The program stops calling: not a deadlock.
Done ==
    /\ calls = MaxCalls
    /\ \A t \in Thread : pc[t] = "idle"
    /\ UNCHANGED vars

Start(t) == BeginInit(t) \/ BeginFrom(t) \/ BeginReset(t) \/ BeginAssign(t) \/ BeginRead(t)
Continue(t) ==
    \/ EnterSource(t) \/ EnterUpgrade(t) \/ EnterExclusive(t) \/ WriteMember(t)
    \/ Release(t) \/ Test(t) \/ EnterShare(t) \/ ReadMember(t) \/ ReadDone(t)
    \/ Reread(t) \/ Return(t)

Next == (\E t \in Thread : Start(t) \/ Continue(t)) \/ Done

Spec == Init /\ [][Next]_vars

\* A thread inside a call keeps running; the calls are bounded, so readers cannot
\* keep a writer out for ever.
FairSpec == Spec /\ \A t \in Thread : WF_vars(Continue(t))

-----------------------------------------------------------------------------
(* Properties. *)

\* Every variable has its type (members of Any, locals of its functions); an Any
\* is labelled with a type it was asked to take, or with void.
TypeOK ==
    /\ \A c \in Cell : /\ data[c].of \in Type \cup {"void"} \cup {v.type : v \in Value}
                       /\ type[c] \in Type \cup {"void"}
    /\ rw \in [Cell -> MutexType(Thread)]
    /\ pc \in [Thread -> Labels]
    /\ how \in [Thread -> {"pointer", "object", "none"}]
    /\ left \in [Thread -> SUBSET Members]
    /\ overlap \in [Thread -> BOOLEAN]
    /\ calls \in Nat
    /\ \A t \in Thread : pc[t] # "idle" => call[t].op \in Calls /\ call[t].target \in Cell

\* Who holds which lock follows from where the threads are: every path of init,
\* reset, operator= and toT gives back what it took, of both objects.
LocksHeld ==
    \A c \in Cell :
        /\ \A t \in Thread :
             /\ t \in rw[c].shared <=>
                  \/ pc[t] = "read" /\ call[t].op = "toT" /\ call[t].target = c
                  \/ /\ pc[t] \in {"upgrade", "exclude", "write"}
                     /\ call[t].op = "assign" /\ call[t].source = c
             /\ t \in rw[c].upgrade <=> pc[t] = "exclude" /\ call[t].target = c
             /\ t \in rw[c].exclusive <=> pc[t] = "write" /\ call[t].target = c
        /\ MutexSafe(rw[c])

Matches(d, T) == d = NoData \/ d.raw \/ d.of = T

\* An Any that nobody is writing is labelled with the type of the object it
\* holds, whatever inits, resets and assignments met on it, unless a caller passed
\* that object as a pointer to void.
Labelled ==
    \A c \in Cell :
        (\A t \in Thread : ~(pc[t] = "write" /\ call[t].target = c))
        => Matches(data[c], type[c])

\* A cast under the lock never takes an object for one of another type; a read
\* without it is of one state of the Any as long as nobody writes meanwhile.
ReadsMatch ==
    \A t \in Thread : pc[t] = "return" =>
        /\ call[t].op = "toT" => Matches(seenData[t], seenType[t])
        /\ call[t].op \in {"toT", "copy", "bundle"} /\ ~overlap[t] =>
             seenData[t] = data[call[t].target] /\ seenType[t] = type[call[t].target]

\* What init takes, told without the chains: a pointer to T; and an object of T or
\* of one of the first four candidates for T.
FitsPointer(v, T) ==
    \/ v.form = "constPointer" /\ v.type = T
    \/ v.form = "pointer" /\ v.type = T /\ T \in Listed
    \/ v.form \in VoidForm /\ T \in Listed
FitsObject(v, T) ==
    /\ T \in ByObject /\ v.form = "object"
    /\ \/ v.type = T
       \/ \E i \in DOMAIN Candidates(T) \cap 1 .. 4 : Candidates(T)[i] = v.type

AsPointer(c) == \/ c.op \in {"init", "initByPtr"}
                \/ c.op = "from" /\ c.arg.form = "constPointer"
AsObject(c)  == c.op \in {"init", "initByObj", "from"}

Now(c) == [data |-> data[c], type |-> type[c]]

\* A call that no other overlaps leaves in its Any what it was asked for: init(value)
\* takes whatever either of its halves takes, a value that fits neither unsets the
\* Any; assignments and resets do what they say.
QuietCall ==
    \A t \in Thread : pc[t] = "return" /\ ~overlap[t] =>
        LET c == call[t]
        IN  /\ c.op = "reset" => Now(c.target) = Unset
            /\ c.op = "assign" => Now(c.target) = Now(c.source)
            /\ AsObject(c) /\ FitsObject(c.arg, c.want) =>
                 Now(c.target) = [data |-> [of |-> c.want, raw |-> FALSE], type |-> c.want]
            /\ AsPointer(c) /\ FitsPointer(c.arg, c.want) /\ ~c.arg.null =>
                 Now(c.target) = [data |-> Held(c.arg), type |-> c.want]
            /\ /\ AsPointer(c) \/ AsObject(c)
               /\ ~FitsObject(c.arg, c.want) /\ ~FitsPointer(c.arg, c.want)
               => Now(c.target) = Unset

\* What the members of an Any will be when its writer leaves, from the writer's first
\* write on.
Writing(t, c) == pc[t] = "write" /\ call[t].target = c /\ left[t] # Members
Settled == [c \in Cell |-> IF \E t \in Thread : Writing(t, c)
                           THEN New(CHOOSE t \in Thread : Writing(t, c))
                           ELSE Now(c)]

\* A call has had its effect with the first member it writes and the last it reads.
Acted(t) == \/ pc[t] = "return" \/ call[t].op \in {"copy", "bundle"}
            \/ pc[t] = "write" /\ left[t] # Members
            \/ pc[t] = "read" /\ left[t] = {}
Phase(t) ==
    IF pc[t] = "idle" THEN "idle"
    ELSE IF \/ pc[t] = "test"
            \/ /\ pc[t] = "write" /\ left[t] # Members
               /\ call[t].op = "init" /\ how[t] = "pointer" THEN "tried"
    ELSE IF Acted(t) THEN "done" ELSE "called"

Found(t) == IF call[t].op = "toT" /\ Acted(t)
            THEN [data |-> seenData[t], type |-> seenType[t]] ELSE Unset

Atomic == INSTANCE AtomicAny
          WITH held <- Settled, at <- [t \in Thread |-> Phase(t)],
               got <- [t \in Thread |-> Found(t)]

\* However many threads use the Any objects, every init, reset, assignment and cast
\* works as if it took place at one moment: nobody who takes the lock sees an object
\* without its label, an assignment copies one state of its right side although the
\* locks of the two sides are taken one after the other, and the look between the
\* halves of init errs only if another writer is there.
AtomicCalls == Atomic!Spec

\* "Cast to type T from any and with 1 primary and 5 candidates" (any.hpp:803): an
\* object whose type is any of the candidates for T is taken.
EveryCandidate ==
    \A t \in Thread : LET c == call[t] IN
        /\ pc[t] = "return" /\ ~overlap[t]
        /\ c.op \in {"init", "initByObj"} /\ c.arg.form = "object"
        /\ \E i \in DOMAIN Candidates(c.want) : Candidates(c.want)[i] = c.arg.type
        => type[c.target] = c.want

\* Assignments that hold each the right side the next one wants to write.
Crossed ==
    \E S \in SUBSET Thread :
        /\ S # {}
        /\ \A s \in S : /\ pc[s] = "exclude" /\ call[s].op = "assign"
                        /\ \E u \in S : pc[u] = "exclude" /\ call[u].op = "assign"
                                        /\ call[u].source = call[s].target

\* Every call returns unless assignments cross: that is the only way the locks of
\* two objects can wait for each other.
CallsReturn == \A t \in Thread : pc[t] # "idle" ~> (pc[t] = "idle" \/ Crossed)

=============================================================================
