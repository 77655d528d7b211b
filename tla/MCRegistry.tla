----------------------------- MODULE MCRegistry -----------------------------
(***************************************************************************)
(* Values of the constants of Registry for TLC.                            *)
(***************************************************************************)
EXTENDS Registry, TLC

CONSTANTS t1, t2, f1, f2

TwoThreads == {t1, t2}
TwoFiles   == {f1, f2}
FirstFile  == {f1}


=============================================================================
