----------------------------- MODULE RecordStore -----------------------------
(***************************************************************************)
(* What a Logger with a file promises about its records, seen from outside *)
(* and without threads, streams, files or rotations: it is a store that    *)
(* records enter one by one, in order, that a crash takes back to what is  *)
(* durable, and that forgets only at its ends.  Logger implements it       *)
(* (Logger!StoresRecords).  A record is its number.                        *)
(***************************************************************************)
EXTENDS Naturals

VARIABLES
    written,          \* records written so far
    stored,           \* records a reader of the store would find now
    durable           \* those of them that a crash leaves

store == <<written, stored, durable>>

Init == written = 0 /\ stored = {} /\ durable = {}

\* A record becomes durable with all before it, at once or later.
Write ==
    /\ written' = written + 1
    /\ stored' = stored \cup {written'}
    /\ durable' \in {durable, stored'}

Sync ==
    /\ durable' = stored
    /\ UNCHANGED <<written, stored>>

\* Rotation forgets the old backup: the oldest records, never from the middle.
DropOldest ==
    \E n \in 0 .. written :
        /\ stored' = {m \in stored : m > n}
        /\ durable' = {m \in durable : m > n}
        /\ UNCHANGED written

\* A truncating reset, and a rotation whose copy was cut short, forget the
\* newest records, and only when everything is durable.
DropNewest ==
    \E n \in 0 .. written :
        /\ durable = stored
        /\ stored' = {m \in stored : m <= n}
        /\ durable' = stored'
        /\ UNCHANGED written

Crash ==
    /\ stored' = durable
    /\ UNCHANGED <<written, durable>>

Next == Write \/ Sync \/ DropOldest \/ DropNewest \/ Crash

Spec == Init /\ [][Next]_store

=============================================================================
