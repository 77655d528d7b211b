------------------------------ MODULE LogLevel ------------------------------
(***************************************************************************)
(* The enumeration LogLevel of include/ctilog/loglevel.hpp and the pure    *)
(* rules Logger applies to it.  A smaller level is more severe; Unchange   *)
(* lies outside Min..Max and means "no level".                             *)
(***************************************************************************)
EXTENDS Naturals

Min == 0
Fata == Min
Erro == 1
Warn == 2
Note == 3
Info == 4
Trac == 5
Debu == 6
Deta == 7
Max == Deta
Unchange == Max + 2

Level == Min .. Max
LevelOrUnchange == Level \cup {Unchange}

\* Logger::isLogable, and the test both overloads of Logger::append make.
IsLogable(current, lvl) == current >= lvl

\* Mutant: any argument is taken.
Unclamped(current, lvl) == lvl
\* Logger::setLogLevel: an argument outside Min..Max leaves the level alone.
Clamped(current, lvl) == IF lvl \in Level THEN lvl ELSE current

\* Logger::toggleLogLevel: the next level, Max wrapping around to Min.
Toggled(current) == IF current + 1 > Max THEN Min ELSE current + 1

=============================================================================
