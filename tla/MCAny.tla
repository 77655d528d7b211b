------------------------------- MODULE MCAny -------------------------------
(***************************************************************************)
(* Values of the constants of AnyCell for TLC.                             *)
(***************************************************************************)
EXTENDS AnyCell

CONSTANTS t1, t2, a, b

TwoThreads == {t1, t2}
TwoCells   == {a, b}
OneThread  == {t1}
OneCell    == {a}

Of(form, T) == [form |-> form, type |-> T, null |-> FALSE]

\* An object that fits by the last of four candidates, a pointer to void that is
\* taken, and a pointer to another type.
SomeValues == {Of("object", "bool"), Of("voidPointer", "long"), Of("pointer", "other")}
SomeTypes  == {"long"}

\* Objects of every type that initByObj takes, and of two that it does not.
AllObjects == {Of("object", T) : T \in ByObject \cup {"char*", "other"}}
=============================================================================
