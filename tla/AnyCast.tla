------------------------------ MODULE AnyCast ------------------------------
(***************************************************************************)
(* What an Any of src/any.cpp makes of a boost::any: the chains of casts   *)
(* of any.hpp.  A boost::any is its form (an object, or one of the shared  *)
(* pointers the code looks for), the type of the object, and whether a     *)
(* pointer is null.  The state of an Any is the object it holds and the    *)
(* type it is labelled with; casts between numbers only widen, so the      *)
(* number itself is left out.                                              *)
(***************************************************************************)
EXTENDS Naturals, Sequences

Form == {"object", "pointer", "constPointer", "voidPointer", "constVoidPointer"}
VoidForm == {"voidPointer", "constVoidPointer"}

Signed   == <<"bool", "char", "short", "int", "long", "long long">>
Unsigned == <<"bool", "unsigned char", "unsigned short", "unsigned",
              "unsigned long", "unsigned long long">>

\* Types that initByPtr and initByObj name; any other is the caller's.
ByObject == {Signed[i] : i \in 1 .. 6} \cup {Unsigned[i] : i \in 1 .. 6}
            \cup {"std::string", "AnyVector", "DataAndSize"}
Listed   == ByObject \cup {"Anyable"}

NoData == [of |-> "void", raw |-> FALSE]
Unset  == [data |-> NoData, type |-> "void"]

\* The object behind a pointer; `raw` is one whose type only the caller knows.
Held(v) == IF v.null THEN NoData ELSE [of |-> v.type, raw |-> v.form \in VoidForm]

-----------------------------------------------------------------------------
(* Pointers. *)

\* Mutant: a pointer to another type is taken.
TakesAnyPointer(v, T) == v.form # "object"
\* Any::toTPtr<T>.
TakesPointer(v, T) ==
    \/ v.form \in VoidForm
    \/ v.form \in {"pointer", "constPointer"} /\ v.type = T

\* A type the chain does not name is taken as a shared_ptr<T const> only.
InitByPtr(v, T) ==
    IF \/ T \in Listed /\ TakesPointer(v, T)
       \/ v.form = "constPointer" /\ v.type = T
    THEN [data |-> Held(v), type |-> T]
    ELSE Unset

-----------------------------------------------------------------------------
(* Objects: Any::toT<T, C1, ...> with 0 to 5 candidates. *)

ToT0(v, T) == v.form = "object" /\ v.type = T
ToT1(v, T, c1) == ToT0(v, T) \/ ToT0(v, c1)
ToT2(v, T, c1, c2) == ToT0(v, T) \/ ToT1(v, T, c1) \/ ToT1(v, T, c2)
ToT3(v, T, c1, c2, c3) == ToT0(v, T) \/ ToT2(v, T, c1, c2) \/ ToT1(v, T, c3)
ToT4(v, T, c1, c2, c3, c4) ==
    ToT0(v, T) \/ ToT3(v, T, c1, c2, c3) \/ ToT1(v, T, c4)
ToT5(v, T, c1, c2, c3, c4, c5) ==
    \/ ToT0(v, T)
    \/ ToT4(v, T, c1, c2, c3, c4)
    \/ ToT3(v, T, c1, c2, c3)
    \/ ToT1(v, T, c4)

\* The candidates of T: the narrower numbers, the next narrower first.
Narrower(types, T) ==
    LET i == CHOOSE i \in 1 .. 6 : types[i] = T
    IN  [k \in 1 .. i - 1 |-> types[i - k]]

Candidates(T) ==
    IF \E i \in 1 .. 6 : Signed[i] = T THEN Narrower(Signed, T)
    ELSE IF \E i \in 1 .. 6 : Unsigned[i] = T THEN Narrower(Unsigned, T)
    ELSE IF T = "std::string" THEN <<"char const*", "char*">>
    ELSE <<>>

\* Mutant: the last candidate of four is passed over.
TakesObjectShort(v, T) ==
    LET c == Candidates(T)
    IN  \E n \in 0 .. Len(c) : n < 4 /\ (IF n = 0 THEN ToT0(v, T) ELSE ToT0(v, c[n]))

TakesObject(v, T) ==
    LET c == Candidates(T)
    IN  CASE Len(c) = 0 -> ToT0(v, T)
          [] Len(c) = 1 -> ToT1(v, T, c[1])
          [] Len(c) = 2 -> ToT2(v, T, c[1], c[2])
          [] Len(c) = 3 -> ToT3(v, T, c[1], c[2], c[3])
          [] Len(c) = 4 -> ToT4(v, T, c[1], c[2], c[3], c[4])
          [] Len(c) = 5 -> ToT5(v, T, c[1], c[2], c[3], c[4], c[5])

\* Mutant: labelled with the type of the argument.
InitByObjUnconverted(v, T) ==
    IF T \in ByObject /\ TakesObject(v, T)
    THEN [data |-> [of |-> T, raw |-> FALSE], type |-> v.type]
    ELSE Unset

\* The object is converted to T and kept in a shared_ptr of its own.
InitByObj(v, T) ==
    IF T \in ByObject /\ TakesObject(v, T)
    THEN [data |-> [of |-> T, raw |-> FALSE], type |-> T]
    ELSE Unset

\* The types Any::create makes; of any other it makes an Any that is not set.
Created == {"long long", "std::string", "AnyVector"}

=============================================================================
