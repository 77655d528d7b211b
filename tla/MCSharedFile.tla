---------------------------- MODULE MCSharedFile ----------------------------
(***************************************************************************)
(* Values of the constants of SharedFile for TLC.                          *)
(***************************************************************************)
EXTENDS SharedFile, TLC

CONSTANTS t1, t2, f1, f2

TwoThreads == {t1, t2}
TwoNames   == {f1, f2}

\* One file with bytes and one without.
Sizes3and0 == [n \in TwoNames |-> IF n = f1 THEN 3 ELSE 0]

BackAndForth == {-1, 1}

\* No action tells one thread from another.
Symmetry == Permutations(Thread)

=============================================================================
