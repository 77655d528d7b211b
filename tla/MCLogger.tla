------------------------------ MODULE MCLogger ------------------------------
(***************************************************************************)
(* Values of the constants of Logger for TLC.                               *)
(***************************************************************************)
EXTENDS Logger, TLC

CONSTANTS t1, t2

OneThread  == {t1}
TwoThreads == {t1, t2}

OneLevel  == {Note}
\* No action tells one thread from another.
Symmetry == Permutations(Thread)

NoSpin    == {Unchange}
OneSpin   == {Unchange, Debu}

FileOnly  == {{"File"}}
FileOrBoth == {{"File"}, {"CoutOrCerr", "File"}}
FileOrCout == {{"File"}, {"CoutOrCerr"}}
AnyOutputs == SUBSET Output

=============================================================================
