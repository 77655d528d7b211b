----------------------------- MODULE AtomicAny -----------------------------
(***************************************************************************)
(* What the lock of an Any promises, seen from outside and without locks   *)
(* or members: every call that takes the lock has its effect at one moment *)
(* between its start and its return.  A writer puts a whole object with    *)
(* its label there, a cast takes one away, an assignment copies one from   *)
(* Any to Any.  AnyCell implements it (AnyCell!AtomicCalls).  What an init *)
(* makes of its argument is a parameter here.                              *)
(***************************************************************************)
CONSTANTS
    Thread, Cell, Value, Type,   \* as in AnyCell
    Unset,                       \* an Any that holds nothing
    Factory(_, _),               \* how a factory makes its Any
    InitByPtr(_, _), InitByObj(_, _)

VARIABLES
    held,             \* what each Any holds: an object and its label
    at,               \* how far each thread is in its call
    call,             \* the call of a thread and its arguments
    how,              \* by pointer, by object or neither
    got               \* what a cast has found

shown == <<held, at, call, how, got>>

NoCall == [op |-> "none"]

Call ==
    [op : {"init", "initByPtr", "initByObj", "from"},
     target : Cell, arg : Value, want : Type]
    \cup [op : {"assign"}, target : Cell, source : Cell]
    \cup [op : {"reset", "toT", "copy", "bundle"}, target : Cell]

Init ==
    /\ held = [c \in Cell |-> Unset]
    /\ at = [t \in Thread |-> "idle"]
    /\ call = [t \in Thread |-> NoCall]
    /\ how = [t \in Thread |-> "none"]
    /\ got = [t \in Thread |-> Unset]

\* init(value) tries the pointer first.
First(c) ==
    CASE c.op \in {"init", "initByPtr"} -> "pointer"
      [] c.op = "initByObj"             -> "object"
      [] c.op = "from"                  -> Factory(c.arg, c.want)
      [] OTHER                          -> "none"

\* Calls that do nothing through the lock: of a = a there is nothing to do, the copy
\* constructor and getDataBundle read without it, and nothing is promised of them.
Lockless(c) == \/ c.op = "assign" /\ c.source = c.target
               \/ c.op \in {"copy", "bundle"}

Begin(t) ==
    /\ at[t] = "idle"
    /\ \E c \in Call :
         /\ call' = [call EXCEPT ![t] = c]
         /\ how' = [how EXCEPT ![t] = First(c)]
         /\ at' = [at EXCEPT ![t] = IF Lockless(c) THEN "done" ELSE "called"]
    /\ UNCHANGED <<held, got>>

\* What a writer makes of its argument, or copies.
Made(t) ==
    CASE call[t].op = "assign" -> held[call[t].source]
      [] how[t] = "pointer"    -> InitByPtr(call[t].arg, call[t].want)
      [] how[t] = "object"     -> InitByObj(call[t].arg, call[t].want)
      [] OTHER                 -> Unset

Write(t) ==
    /\ at[t] = "called" /\ call[t].op # "toT"
    /\ held' = [held EXCEPT ![call[t].target] = Made(t)]
    /\ at' = [at EXCEPT ![t] = IF call[t].op = "init" /\ how[t] = "pointer"
                               THEN "tried" ELSE "done"]
    /\ UNCHANGED <<call, how, got>>

\* Another call has written the Any of t and has not returned.
Raced(t) ==
    \E u \in DOMAIN call \ {t} :
        /\ at[u] \in {"tried", "done"} /\ ~Lockless(call[u])
        /\ call[u].op # "toT" /\ call[u].target = call[t].target

\* init(value) looks whether the pointer has set the Any, and then tries the object;
\* it looks without the lock, so a writer it races may show it either answer.
Succeed(t) ==
    /\ at[t] = "tried"
    /\ held[call[t].target].data # Unset.data \/ Raced(t)
    /\ at' = [at EXCEPT ![t] = "done"]
    /\ UNCHANGED <<held, call, how, got>>

TryObject(t) ==
    /\ at[t] = "tried"
    /\ held[call[t].target].data = Unset.data \/ Raced(t)
    /\ at' = [at EXCEPT ![t] = "called"]
    /\ how' = [how EXCEPT ![t] = "object"]
    /\ UNCHANGED <<held, call, got>>

Read(t) ==
    /\ at[t] = "called" /\ call[t].op = "toT"
    /\ got' = [got EXCEPT ![t] = held[call[t].target]]
    /\ at' = [at EXCEPT ![t] = "done"]
    /\ UNCHANGED <<held, call, how>>

Return(t) ==
    /\ at[t] = "done"
    /\ at' = [at EXCEPT ![t] = "idle"]
    /\ call' = [call EXCEPT ![t] = NoCall]
    /\ how' = [how EXCEPT ![t] = "none"]
    /\ got' = [got EXCEPT ![t] = Unset]
    /\ UNCHANGED held

Next ==
    \E t \in Thread : \/ Begin(t) \/ Write(t) \/ Succeed(t) \/ TryObject(t)
                      \/ Read(t) \/ Return(t)

Spec == Init /\ [][Next]_shown

=============================================================================
