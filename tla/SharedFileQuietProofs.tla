------------------------ MODULE SharedFileQuietProofs ------------------------
(***************************************************************************)
(* Proof that a transfer which no call of another thread overlapped moves  *)
(* exactly what it should, for every value of the constants of SharedFile. *)
(*                                                                         *)
(* The argument: as long as a transfer is quiet every other thread is idle *)
(* (Alone), so the File keeps its descriptor and its file from the first   *)
(* look at them to the last system call; the pieces follow each other      *)
(* since the next one starts where the last one ended (Underway), for      *)
(* traverse as long as the pieces are whole pages.                         *)
(***************************************************************************)
EXTENDS SharedFileProofs

(* Whole pages. *)

LEMMA WholePages ==
  ASSUME NEW a \in Nat, NEW p \in Nat \ {0}, a % p = 0
  PROVE  a \div p \in Nat /\ (a \div p) * p = a
OBVIOUS

LEMMA PagesAreWhole ==
  ASSUME NEW q \in Nat, NEW p \in Nat \ {0}
  PROVE  (q * p) % p = 0
OBVIOUS

LEMMA PagesAdd ==
  ASSUME NEW q \in Nat, NEW r \in Nat, NEW p \in Nat \ {0}
  PROVE  (q + r) * p = q * p + r * p
OBVIOUS

LEMMA SumOfPages ==
  ASSUME NEW a \in Nat, NEW b \in Nat, NEW p \in Nat \ {0}, a % p = 0, b % p = 0
  PROVE  (a + b) % p = 0
<1> DEFINE x == a \div p
           y == b \div p
<1>1. x \in Nat /\ y \in Nat /\ x * p = a /\ y * p = b
  BY WholePages
<1> HIDE DEF x, y
<1>2. (x + y) * p = a + b
  BY <1>1, PagesAdd
<1>3. x + y \in Nat
  BY <1>1
<1>4. ((x + y) * p) % p = 0
  BY <1>3, PagesAreWhole
<1> QED
  BY <1>2, <1>4

-----------------------------------------------------------------------------
(* The invariant. *)

Moving == {"check", "lock", "io", "rewind", "position", "return"}

Even(t)  == op[t] # "traverse" \/ EachSize(t) % PageSize = 0
Place(t) == IF op[t] = "traverse" THEN total[t] ELSE table[fd].pos

EndOf(piece) == piece.from + piece.len

\* The pieces belong together.
Chain(t) ==
    LET m == moved[t] IN
    /\ \A i \in 1 .. Len(m) : m[i].own /\ m[i].file = m[1].file
    /\ Even(t) => \A i \in 1 .. Len(m) - 1 : m[i + 1].from = EndOf(m[i])
    /\ op[t] = "traverse" /\ Len(m) > 0 => m[1].from = 0

\* Where the next piece goes.
Underway(t) ==
    LET m == moved[t] IN
    /\ fd # 0 /\ local[t] = fd
    /\ Len(m) > 0 => m[1].file = table[fd].file
    /\ Len(m) = 0 => total[t] = 0
    /\ Even(t) /\ Len(m) > 0 => EndOf(m[Len(m)]) = Place(t)
    /\ op[t] = "traverse" /\ Even(t) => total[t] % PageSize = 0

\* What the last piece leaves.
Final(t) ==
    LET m == moved[t] IN
    Len(m) > 0 /\ ret[t] \in {"ok", "unset"} =>
        \/ total[t] = max[t] \/ op[t] = "readOnce"
        \/ op[t] = "read" /\ EndOf(m[Len(m)]) >= size[m[1].file]

Exact(t) ==
    /\ pc[t] \in Inside \cup {"mark"} => op[t] \in Transfers
    /\ pc[t] \notin Moving => moved[t] = << >>
    /\ quiet[t] =>
         /\ pc[t] = "size" => fd # 0 /\ local[t] = fd
         /\ pc[t] \in Moving => Chain(t)
         /\ pc[t] \in {"check", "lock", "io"} => Underway(t)
         /\ pc[t] \in {"rewind", "position", "return"} => Final(t)

Alone(t) == pc[t] # "idle" /\ quiet[t] => \A u \in Thread \ {t} : pc[u] = "idle"

QuietInv == \A t \in Thread : Exact(t) /\ Alone(t)

\* What every step may use.
Known == IInv /\ HistoryOK /\ QuietInv

LEMMA QuietInit == Init => QuietInv
  BY DEF Init, QuietInv, Exact, Alone, Moving, Inside

-----------------------------------------------------------------------------
(* What a step leaves to the threads that do not take it. *)

LEMMA Frame ==
  ASSUME Known, NEW t \in Thread, Continue(t), NEW u \in Thread \ {t}
  PROVE  /\ pc[t] # "idle"
         /\ pc'[u] = pc[u] /\ op'[u] = op[u] /\ moved'[u] = moved[u] /\ quiet'[u] = quiet[u]
<1> USE DEF Known, IInv, ControlInv, ControlOK, HistoryOK, Forget, Go, members, locals
<1>1. CASE \/ EnterUpgrade(t) \/ EnterExclusive(t) \/ Open(t) \/ OpenFails(t)
           \/ Publish(t) \/ Close(t) \/ EnterName(t) \/ StartAssign(t) \/ Assign(t)
  BY <1>1 DEF EnterUpgrade, EnterExclusive, Open, OpenFails, Publish, Close, Closed,
     EnterName, StartAssign, Assign
<1>2. CASE EnterSeek(t) \/ Seek(t) \/ Return(t)
  BY <1>2 DEF EnterSeek, Seek, SeekDone, Return
<1>3. CASE Mark(t) \/ Primary(t) \/ SizeUp(t) \/ Check(t) \/ LockIo(t) \/ IoFails(t)
  BY <1>3 DEF Mark, Primary, SizeUp, Check, LockIo, IoFails, End
<1>4. CASE Io(t)
  BY <1>4 DEF Io, AfterChunk, End
<1> QED
  BY <1>1, <1>2, <1>3, <1>4 DEF Continue

LEMMA QuietOthers ==
  ASSUME Known, NEW t \in Thread, Continue(t), NEW u \in Thread \ {t}
  PROVE  Exact(u)' /\ Alone(u)'
<1>1. /\ pc[t] # "idle"
      /\ pc'[u] = pc[u] /\ op'[u] = op[u] /\ moved'[u] = moved[u] /\ quiet'[u] = quiet[u]
  BY Frame
<1>2. quiet[u] => pc[u] = "idle"
  BY <1>1 DEF Known, QuietInv, Alone
<1>3. Exact(u)
  BY DEF Known, QuietInv
<1>4. Alone(u)'
  BY <1>1, <1>2 DEF Alone
<1>5. Exact(u)'
  BY <1>1, <1>2, <1>3 DEF Exact, Moving
<1> QED
  BY <1>4, <1>5

\* The thread itself stays alone.
LEMMA AloneStays ==
  ASSUME Known, NEW t \in Thread, Continue(t), quiet'[t] = quiet[t] \/ pc'[t] = "idle"
  PROVE  Alone(t)'
<1>1. \A u \in Thread \ {t} : pc'[u] = pc[u]
  BY Frame
<1>2. pc[t] # "idle" \/ Thread \ {t} = {}
  BY Frame
<1> QED
  BY <1>1, <1>2 DEF Known, QuietInv, Alone

\* A call begins: it overlaps every call in progress.
LEMMA QuietStart ==
  ASSUME Known, NEW t \in Thread, Start(t)
  PROVE  QuietInv'
<1>1. /\ pc[t] = "idle" /\ UNCHANGED moved
      /\ \E l \in {"upgrade", "name", "seek", "mark"} : pc' = [pc EXCEPT ![t] = l]
      /\ \E o : op' = [op EXCEPT ![t] = o] /\ (pc'[t] = "mark" => o \in Transfers)
      /\ quiet' = [u \in Thread |-> IF u = t THEN \A v \in Thread : pc[v] = "idle"
                                   ELSE pc[u] = "idle"]
  BY DEF Start, BeginOpenOrClose, BeginSet, BeginSeek, BeginTransfer, Begin, Go, Known,
     IInv, ControlInv, ControlOK
<1>2. DOMAIN pc = Thread /\ DOMAIN op = Thread
  BY DEF Known, IInv, ControlInv, ControlOK
<1>3. ASSUME NEW u \in Thread PROVE Exact(u)'
  <2>1. Exact(u)
    BY DEF Known, QuietInv
  <2>2. CASE u = t
    BY <1>1, <1>2, <2>1, <2>2 DEF Exact, Moving, Inside
  <2>3. CASE u # t
    BY <1>1, <1>2, <2>1, <2>3 DEF Exact, Moving, Inside
  <2> QED
    BY <2>2, <2>3
<1>4. ASSUME NEW u \in Thread PROVE Alone(u)'
  <2>1. CASE u = t
    BY <1>1, <1>2, <2>1 DEF Alone
  <2>2. CASE u # t
    BY <1>1, <1>2, <2>2 DEF Alone
  <2> QED
    BY <2>1, <2>2
<1> QED
  BY <1>3, <1>4 DEF QuietInv

\* Files that other code opens and closes have other descriptors.
LEMMA QuietElsewhere ==
  ASSUME Known, OtherOpens \/ OtherCloses
  PROVE  QuietInv'
<1>1. /\ UNCHANGED <<fd, size, pc, op, arg, local, max, total, ret, moved, quiet>>
      /\ fd # 0 => table'[fd] = table[fd]
  <2>1. fd # 0 => fd \in Fd /\ fd \notin Free /\ fd \notin others
    BY DEF Known, IInv, DataInv, DescriptorInv, DescriptorsOwned, DataOK, Free
  <2>2. DOMAIN table = Fd
    BY DEF Known, IInv, DataInv, DataOK
  <2> QED
    BY <2>1, <2>2 DEF OtherOpens, OtherCloses, members, locals
<1>2. ASSUME NEW t \in Thread PROVE Exact(t)' /\ Alone(t)'
  <2>1. Exact(t) /\ Alone(t)
    BY DEF Known, QuietInv
  <2>2. Chain(t)' <=> Chain(t)
    BY <1>1 DEF Chain, Even, EachSize, EndOf
  <2>3. Final(t)' <=> Final(t)
    BY <1>1 DEF Final, EndOf
  <2>4. Underway(t) => Underway(t)'
    BY <1>1 DEF Underway, Even, EachSize, EndOf, Place
  <2> QED
    BY <1>1, <2>1, <2>2, <2>3, <2>4 DEF Exact, Alone
<1> QED
  BY <1>2 DEF QuietInv

-----------------------------------------------------------------------------
(* The steps of a thread, as it sees them. *)

\* Calls that move no bytes.
LEMMA QuietCalls ==
  ASSUME Known, NEW t \in Thread,
         \/ EnterUpgrade(t) \/ EnterExclusive(t) \/ Open(t) \/ OpenFails(t)
         \/ Publish(t) \/ Close(t) \/ EnterName(t) \/ StartAssign(t) \/ Assign(t)
         \/ Return(t)
  PROVE  Exact(t)' /\ (quiet'[t] = quiet[t] \/ pc'[t] = "idle")
<1>1. /\ DOMAIN pc = Thread /\ DOMAIN moved = Thread
      /\ Exact(t)
  BY DEF Known, QuietInv, IInv, ControlInv, ControlOK, HistoryOK
<1>2. CASE Forget(t)
  BY <1>1, <1>2 DEF Forget, Go, Exact, Moving, Inside
<1>3. CASE /\ UNCHANGED <<moved, quiet>>
           /\ \E l \in {"exclude", "open", "close", "publish", "assign", "assigned", "upgrade"} :
                 pc' = [pc EXCEPT ![t] = l]
           /\ pc[t] \in {"name", "upgrade", "exclude", "open", "close", "assign"}
  BY <1>1, <1>3 DEF Exact, Moving, Inside
<1> QED
  BY <1>2, <1>3 DEF EnterUpgrade, EnterExclusive, Open, OpenFails, Publish, Close, Closed,
     EnterName, StartAssign, Assign, Return, Go, locals

\* A step that moves nothing and changes no limit keeps the chain.
LEMMA ChainKept ==
  ASSUME NEW t \in Thread, Chain(t), UNCHANGED <<op, arg, max, moved>>
  PROVE  Chain(t)'
BY DEF Chain, Even, EachSize, EndOf

\* The seeks do not look at what was moved.
LEMMA QuietSeeks ==
  ASSUME Known, NEW t \in Thread, EnterSeek(t) \/ Seek(t)
  PROVE  Exact(t)' /\ (quiet'[t] = quiet[t] \/ pc'[t] = "idle")
<1>1. /\ DOMAIN pc = Thread /\ DOMAIN moved = Thread
      /\ Exact(t)
  BY DEF Known, QuietInv, IInv, ControlInv, ControlOK, HistoryOK
<1>2. /\ pc[t] \in {"seek", "rewind", "position"} /\ size' = size
      /\ \/ Forget(t)
         \/ op[t] = "read" /\ pc' = [pc EXCEPT ![t] = "return"] /\ UNCHANGED <<locals, quiet>>
         \/ pc' = [pc EXCEPT ![t] = "position"] /\ UNCHANGED <<locals, quiet>>
  BY DEF EnterSeek, Seek, SeekDone, Go, kernel
<1>3. CASE Forget(t)
  BY <1>1, <1>3 DEF Forget, Go, Exact, Moving, Inside
<1>4. CASE /\ UNCHANGED <<locals, quiet>>
           /\ \/ op[t] = "read" /\ pc' = [pc EXCEPT ![t] = "return"]
              \/ pc' = [pc EXCEPT ![t] = "position"]
  <2>1. UNCHANGED <<op, arg, max, moved, total, ret, quiet>>
    BY <1>4 DEF locals
  <2>2. quiet[t] => Chain(t) /\ Final(t)
    <3>1. CASE pc[t] = "seek"
      <4>1. moved[t] = << >>
        BY <1>1, <3>1 DEF Exact, Moving
      <4> QED
        BY <4>1, EmptySeq DEF Chain, Final
    <3>2. CASE pc[t] \in {"rewind", "position"}
      BY <1>1, <3>2 DEF Exact, Moving
    <3> QED
      BY <1>2, <3>1, <3>2
  <2>3. quiet[t] => Chain(t)' /\ Final(t)'
    BY <1>2, <2>1, <2>2, ChainKept DEF Final, EndOf
  <2> QED
    BY <1>1, <1>4, <2>1, <2>3 DEF Exact, Moving, Inside, Transfers
<1> QED
  BY <1>2, <1>3, <1>4

\* From the first look at the File to the first piece.
LEMMA QuietFirst ==
  ASSUME Known, NEW t \in Thread, Mark(t) \/ Primary(t) \/ SizeUp(t)
  PROVE  Exact(t)' /\ (quiet'[t] = quiet[t] \/ pc'[t] = "idle")
<1>1. /\ DOMAIN pc = Thread /\ DOMAIN local = Thread
      /\ Exact(t)
  BY DEF Known, QuietInv, IInv, ControlInv, ControlOK, DataInv, DataOK
<1>2. /\ UNCHANGED <<fd, table, op, moved, quiet, total>>
      /\ pc[t] \in {"mark", "primary", "size"}
      /\ \/ \E l \in {"primary", "rewind", "return"} : pc' = [pc EXCEPT ![t] = l]
         \/ /\ pc' = [pc EXCEPT ![t] = "size"]
            /\ fd # 0 /\ local' = [local EXCEPT ![t] = fd]
         \/ pc[t] = "size" /\ pc' = [pc EXCEPT ![t] = "check"] /\ local' = local
  BY DEF Mark, Primary, SizeUp, End, Go, members, kernel
<1>3. moved[t] = << >> /\ op[t] \in Transfers
  BY <1>1, <1>2 DEF Exact, Moving, Inside
<1>4. total[t] = 0
  BY <1>2 DEF Known, IInv, DataInv, LimitInv
<1>5. Chain(t)' /\ Final(t)'
  BY <1>2, <1>3, EmptySeq DEF Chain, Final
<1>6. total[t] % PageSize = 0
  BY <1>4, SizeAssumption
<1>7. ASSUME quiet[t], pc'[t] = "check" PROVE Underway(t)'
  <2>1. fd # 0 /\ local[t] = fd /\ local' = local
    BY <1>1, <1>2, <1>7 DEF Exact
  <2> QED
    BY <1>2, <1>3, <1>4, <1>6, <2>1, EmptySeq DEF Underway
<1> QED
  BY <1>1, <1>2, <1>3, <1>5, <1>7 DEF Exact, Moving, Inside

\* Between two pieces.
LEMMA QuietBetween ==
  ASSUME Known, NEW t \in Thread, Check(t) \/ LockIo(t) \/ IoFails(t)
  PROVE  Exact(t)' /\ (quiet'[t] = quiet[t] \/ pc'[t] = "idle")
<1>1. /\ DOMAIN pc = Thread /\ DOMAIN ret = Thread
      /\ Exact(t)
  BY DEF Known, QuietInv, IInv, ControlInv, ControlOK, HistoryOK
<1>2. /\ UNCHANGED <<fd, table, size, op, arg, local, max, moved, quiet, total>>
      /\ pc[t] \in {"check", "lock", "io"}
      /\ \/ \E l \in {"lock", "io"} : pc' = [pc EXCEPT ![t] = l]
         \/ /\ \E l \in {"rewind", "return"} : pc' = [pc EXCEPT ![t] = l]
            /\ ret' = [ret EXCEPT ![t] = "fail"]
  BY DEF Check, LockIo, IoFails, End, Go, members, kernel, locals
<1>3. op[t] \in Transfers
  BY <1>1, <1>2 DEF Exact, Inside
<1>4. ASSUME quiet[t] PROVE Chain(t)' /\ Underway(t)'
  <2>1. Chain(t) /\ Underway(t)
    BY <1>1, <1>2, <1>4 DEF Exact, Moving
  <2>2. Underway(t)'
    BY <1>2, <2>1 DEF Underway, Even, EachSize, EndOf, Place
  <2> QED
    BY <1>2, <2>1, <2>2, ChainKept
<1>5. ASSUME pc'[t] \in {"rewind", "return"} PROVE Final(t)'
  BY <1>1, <1>2, <1>5 DEF Final
<1> QED
  BY <1>1, <1>2, <1>3, <1>4, <1>5 DEF Exact, Moving, Inside

-----------------------------------------------------------------------------
(* A system call. *)

\* What traverse maps next is where it stopped, as long as its pieces are pages.
LEMMA NextPage ==
  ASSUME DataOK, NEW t \in Thread, total[t] % PageSize = 0
  PROVE  PageStart(t) = total[t]
<1>1. total[t] \in Nat /\ PageSize \in Nat \ {0}
  BY SizeAssumption DEF DataOK
<1> QED
  BY <1>1, WholePages DEF PageStart

\* The piece that a system call of a quiet transfer adds, and where it lies.
LEMMA NextPiece ==
  ASSUME Known, NEW t \in Thread, pc[t] = "io", quiet[t], Chain(t), Underway(t)
  PROVE  /\ local[t] \notin others
         /\ op[t] = "traverse" /\ Len(moved[t]) = 0 => From(t) = 0
         /\ Even(t) /\ Len(moved[t]) > 0 => From(t) = EndOf(moved[t][Len(moved[t])])
         /\ Even(t) => From(t) = Place(t)
<1>1. DataOK /\ (fd # 0 => fd \notin others)
  BY DEF Known, IInv, DataInv, DescriptorInv, DescriptorsOwned
<1>2. fd # 0 /\ local[t] = fd
  BY DEF Underway
<1>3. Even(t) => From(t) = Place(t)
  <2>1. CASE op[t] = "traverse"
    BY <1>1, <2>1, NextPage DEF Underway, From, Place
  <2>2. CASE op[t] # "traverse"
    BY <1>2, <2>2 DEF From, Place
  <2> QED
    BY <2>1, <2>2
<1>4. ASSUME op[t] = "traverse", Len(moved[t]) = 0 PROVE From(t) = 0
  <2>1. total[t] = 0
    BY <1>4 DEF Underway
  <2>2. total[t] % PageSize = 0
    BY <2>1, SizeAssumption
  <2> QED
    BY <1>1, <1>4, <2>1, <2>2, NextPage DEF From
<1> QED
  BY <1>1, <1>2, <1>3, <1>4 DEF Underway

\* A whole piece that does not end the transfer has the size asked for.
LEMMA FullPiece ==
  ASSUME IInv, NEW t \in Thread, op[t] = "traverse", NEW n \in Counts(t),
         total[t] + n < max[t]
  PROVE  n = EachSize(t) /\ EachSize(t) \in Nat
<1>1. total[t] \in Nat /\ max[t] \in Nat /\ arg[t].each \in Nat
  BY DEF IInv, DataInv, DataOK
<1>2. EachSize(t) \in Nat
  BY <1>1, SizeAssumption, SMT DEF EachSize, Lower
<1>3. n = Lower(EachSize(t), max[t] - total[t])
  BY DEF Counts, Chunk
<1> QED
  BY <1>1, <1>2, <1>3, SMT DEF Lower

\* A system call that moves nothing has reached the limit or the end of the file.
LEMMA NothingLeft ==
  ASSUME IInv, NEW t \in Thread, pc[t] = "io", IsOpen(local[t]), 0 \in Counts(t),
         op[t] \in {"read", "write", "traverse"}
  PROVE  \/ total[t] = max[t]
         \/ op[t] = "read" /\ table[local[t]].pos >= size[table[local[t]].file]
<1>1. /\ total[t] \in Nat /\ max[t] \in Nat /\ arg[t].each \in Nat
      /\ total[t] <= max[t] /\ UpperBound \in Nat \ {0}
  BY SizeAssumption DEF IInv, DataInv, LimitInv, WithinLimit, DataOK
<1>2. /\ table[local[t]].pos \in Nat /\ size[table[local[t]].file] \in Nat
  BY NameAssumption DEF IInv, DataInv, DataOK, IsOpen
<1>3. EachSize(t) \in Nat /\ (EachSize(t) = 0 => max[t] = 0)
  BY <1>1, SMT DEF EachSize, Lower
<1>4. /\ Chunk(t) = Lower(EachSize(t), max[t] - total[t])
      /\ Chunk(t) \in Int
      /\ Chunk(t) <= 0 => total[t] = max[t]
  BY <1>1, <1>3, SMT DEF Chunk, Lower
<1>5. CASE op[t] = "traverse"
  BY <1>5 DEF Counts
<1>6. CASE op[t] = "write"
  <2>1. Chunk(t) <= 0
    BY <1>4, <1>6, SMT DEF Counts
  <2> QED
    BY <1>4, <2>1
<1>7. CASE op[t] = "read"
  <2> DEFINE there == size[table[local[t]].file] - table[local[t]].pos
  <2>1. Lower(Chunk(t), there) <= 0
    BY <1>2, <1>4, <1>7, SMT DEF Counts, Lower
  <2>2. Chunk(t) <= 0 \/ there <= 0
    BY <1>2, <1>4, <2>1, SMT DEF Lower
  <2> QED
    BY <1>2, <1>4, <1>7, <2>2, SMT
<1> QED
  BY <1>5, <1>6, <1>7

LEMMA QuietIo ==
  ASSUME Known, NEW t \in Thread, Io(t)
  PROVE  Exact(t)' /\ (quiet'[t] = quiet[t] \/ pc'[t] = "idle")
<1> DEFINE d == local[t]
           file == table[d].file
           m == moved[t]
           k == Len(m)
<1>1. PICK n \in Counts(t) :
         /\ moved' = [moved EXCEPT ![t] = Append(m,
                        [file |-> file, own |-> d \notin others, from |-> From(t), len |-> n])]
         /\ total' = [total EXCEPT ![t] = total[t] + n]
         /\ table' = IF op[t] = "traverse" THEN table
                     ELSE [table EXCEPT ![d].pos = table[d].pos + n]
         /\ size' = IF op[t] = "write" /\ n > 0 /\ size[file] < table[d].pos + n
                    THEN [size EXCEPT ![file] = table[d].pos + n] ELSE size
         /\ AfterChunk(t, n)
  BY DEF Io
<1> DEFINE piece == [file |-> file, own |-> d \notin others, from |-> From(t), len |-> n]
<1>2. /\ UNCHANGED <<fd, others, op, arg, local, max, quiet>>
      /\ pc[t] = "io" /\ IsOpen(d) /\ Exact(t) /\ IInv /\ DataOK
      /\ DOMAIN pc = Thread /\ DOMAIN ret = Thread
      /\ moved \in [Thread -> Seq(Piece)]
  BY DEF Io, members, Known, QuietInv, IInv, ControlInv, ControlOK, DataInv, HistoryOK
<1>3. /\ n \in Nat /\ total[t] + n <= max[t]
      /\ total[t] \in Nat /\ max[t] \in Nat /\ total' [t] = total[t] + n
  BY <1>1, <1>2, CountsFit DEF DataOK
<1>4. op[t] \in Transfers
  BY <1>2 DEF Exact, Inside
<1>5. /\ moved'[t] = Append(m, piece) /\ m \in Seq(Piece) /\ k \in Nat
      /\ Len(moved'[t]) = k + 1
      /\ \A i \in 1 .. k : moved'[t][i] = m[i]
      /\ moved'[t][k + 1] = piece
  <2>1. moved'[t] = Append(m, piece) /\ m \in Seq(Piece)
    BY <1>1, <1>2
  <2>2. From(t) \in Nat /\ file \in Name
    BY <1>2, NameAssumption, PageStartIsNumber DEF From, IsOpen, DataOK
  <2>3. piece \in Piece
    BY <1>3, <2>2 DEF Piece
  <2> QED
    BY <2>1, <2>3, LenProperties, AppendProperties
<1>6. Even(t)' = Even(t)
  BY <1>2 DEF Even, EachSize
<1>7. ASSUME quiet[t] PROVE Chain(t) /\ Underway(t)
  BY <1>2, <1>7 DEF Exact, Moving
<1>8. ASSUME quiet[t]
      PROVE  /\ d = fd /\ piece.own
             /\ op[t] = "traverse" /\ k = 0 => piece.from = 0
             /\ Even(t) /\ k > 0 => piece.from = EndOf(m[k])
             /\ Even(t) => piece.from = Place(t)
  BY <1>2, <1>7, <1>8, NextPiece DEF Known, Underway
<1> HIDE DEF m, k, piece
<1>9. ASSUME quiet[t] PROVE Chain(t)'
  <2>1. k > 0 => m[1].file = file
    BY <1>7, <1>8, <1>9 DEF Underway, m, k
  <2>2. \A i \in 1 .. k : m[i].own /\ m[i].file = m[1].file
    BY <1>7, <1>9 DEF Chain, m, k
  <2>3. piece.file = file
    BY DEF piece
  <2>4. \A i \in 1 .. k + 1 : moved'[t][i].own /\ moved'[t][i].file = moved'[t][1].file
    <3>1. TAKE i \in 1 .. k + 1
    <3>2. CASE k = 0
      BY <1>5, <1>8, <1>9, <3>2
    <3>3. CASE k > 0 /\ i = k + 1
      BY <1>5, <1>8, <1>9, <2>1, <2>3, <3>3
    <3>4. CASE k > 0 /\ i # k + 1
      <4>1. i \in 1 .. k /\ 1 \in 1 .. k
        BY <1>5, <3>4
      <4> QED
        BY <1>5, <2>2, <4>1
    <3> QED
      BY <1>5, <3>2, <3>3, <3>4
  <2>5. ASSUME Even(t), NEW i \in 1 .. k
        PROVE  moved'[t][i + 1].from = EndOf(moved'[t][i])
    <3>1. CASE i = k
      BY <1>5, <1>8, <1>9, <2>5, <3>1
    <3>2. CASE i # k
      <4>1. i + 1 \in 1 .. k /\ i \in 1 .. k - 1
        BY <1>5, <2>5, <3>2
      <4>2. m[i + 1].from = EndOf(m[i])
        BY <1>7, <1>9, <2>5, <4>1 DEF Chain, m, k
      <4> QED
        BY <1>5, <2>5, <4>1, <4>2
    <3> QED
      BY <3>1, <3>2
  <2>6. op[t] = "traverse" => moved'[t][1].from = 0
    <3>1. CASE k = 0
      BY <1>5, <1>8, <1>9, <3>1
    <3>2. CASE k > 0
      BY <1>5, <1>7, <1>9, <3>2 DEF Chain, m, k
    <3> QED
      BY <1>5, <3>1, <3>2
  <2>7. Len(moved'[t]) = k + 1 /\ (k + 1) - 1 = k /\ op'[t] = op[t]
    BY <1>2, <1>5
  <2>8. \A i \in 1 .. Len(moved'[t]) : moved'[t][i].own /\ moved'[t][i].file = moved'[t][1].file
    BY <2>4, <2>7
  <2>9. Even(t)' => \A i \in 1 .. Len(moved'[t]) - 1 : moved'[t][i + 1].from = EndOf(moved'[t][i])
    BY <1>6, <2>5, <2>7
  <2>10. op'[t] = "traverse" => moved'[t][1].from = 0
    BY <2>6, <2>7
  <2> HIDE DEF EndOf
  <2> QED
    BY <2>8, <2>9, <2>10, Zenon DEF Chain
<1>10. ASSUME quiet[t], pc'[t] = "check" PROVE Underway(t)'
  <2>1. total[t] + n < max[t]
    BY <1>1, <1>2, <1>10 DEF AfterChunk, End, Go
  <2>2. fd \in Fd /\ table[fd] # NoFile /\ table[fd] \in [file : Name, pos : Nat]
    BY <1>2, <1>8, <1>10 DEF IsOpen, DataOK
  <2>3. table'[fd].file = file /\ (op[t] # "traverse" => table'[fd].pos = table[fd].pos + n)
    BY <1>1, <1>2, <1>8, <1>10, <2>2 DEF DataOK
  <2>4. fd # 0 /\ local[t] = fd
    BY <1>7, <1>10 DEF Underway
  <2>5. moved'[t][1].file = file
    <3>1. CASE k = 0
      BY <1>5, <3>1 DEF piece
    <3>2. CASE k > 0
      BY <1>5, <1>7, <1>8, <1>10, <3>2 DEF Underway, m, k
    <3> QED
      BY <1>5, <3>1, <3>2
  <2>6. ASSUME Even(t) PROVE EndOf(piece) = Place(t)'
    <3>1. piece.from = Place(t) /\ piece.len = n
      BY <1>8, <1>10, <2>6 DEF piece
    <3>2. CASE op[t] = "traverse"
      BY <1>2, <1>3, <3>1, <3>2 DEF EndOf, Place
    <3>3. CASE op[t] # "traverse"
      BY <1>2, <2>3, <3>1, <3>3 DEF EndOf, Place
    <3> QED
      BY <3>2, <3>3
  <2>7. ASSUME op[t] = "traverse", Even(t) PROVE total'[t] % PageSize = 0
    <3>1. n = EachSize(t)
      BY <1>2, <2>1, <2>7, FullPiece
    <3>2. n % PageSize = 0 /\ total[t] % PageSize = 0
      BY <1>7, <1>10, <2>7, <3>1 DEF Even, Underway
    <3> QED
      BY <1>3, <3>2, SizeAssumption, SumOfPages
  <2>8. moved'[t][Len(moved'[t])] = piece /\ Len(moved'[t]) > 0
    BY <1>5
  <2> QED
    BY <1>2, <1>6, <2>3, <2>4, <2>5, <2>6, <2>7, <2>8 DEF Underway
<1>11. ASSUME quiet[t], pc'[t] \in {"rewind", "return"} PROVE Final(t)'
  <2>1. CASE ret'[t] = "cancelled"
    BY <2>1 DEF Final
  <2>2. CASE n # 0 /\ ~(total[t] + n < max[t])
    BY <1>2, <1>3, <2>2 DEF Final
  <2>3. CASE op[t] = "readOnce"
    BY <1>2, <2>3 DEF Final
  <2>4. CASE n = 0 /\ op[t] # "readOnce"
    <3>1. op[t] \in {"read", "write", "traverse"}
      BY <1>4, <2>4 DEF Transfers
    <3>2. \/ total[t] = max[t]
          \/ op[t] = "read" /\ table[d].pos >= size[file]
      BY <1>2, <2>4, <3>1, NothingLeft
    <3>3. CASE total[t] = max[t]
      BY <1>2, <1>3, <2>4, <3>3 DEF Final
    <3>4. CASE op[t] = "read" /\ table[d].pos >= size[file]
      <4>1. size' = size /\ op'[t] = "read"
        BY <1>1, <1>2, <3>4
      <4>2. piece.from = table[d].pos /\ piece.len = 0 /\ piece.file = file
        BY <2>4, <3>4 DEF piece, From
      <4>3. moved'[t][1].file = file
        BY <1>5, <1>9, <1>11, <4>2 DEF Chain
      <4>4. table[d].pos \in Nat
        BY <1>2, NameAssumption DEF IsOpen, DataOK
      <4>5. EndOf(moved'[t][Len(moved'[t])]) = table[d].pos
        BY <1>5, <4>2, <4>4 DEF EndOf
      <4> QED
        BY <3>4, <4>1, <4>3, <4>5 DEF Final
    <3> QED
      BY <3>2, <3>3, <3>4
  <2>5. \/ ret'[t] = "cancelled"
        \/ n # 0 /\ ~(total[t] + n < max[t])
        \/ op[t] = "readOnce" \/ n = 0
    BY <1>1, <1>2, <1>11 DEF AfterChunk, End, Go
  <2> QED
    BY <2>1, <2>2, <2>3, <2>4, <2>5
<1>12. \E l \in {"check", "rewind", "return"} : pc'[t] = l
  BY <1>1, <1>2 DEF AfterChunk, End, Go
<1> QED
  BY <1>2, <1>4, <1>9, <1>10, <1>11, <1>12 DEF Exact, Moving, Inside

-----------------------------------------------------------------------------
LEMMA QuietStep ==
  ASSUME Known, [Next]_vars
  PROVE  QuietInv'
<1>1. ASSUME NEW t \in Thread, Continue(t)
      PROVE  QuietInv'
  <2>1. Exact(t)' /\ (quiet'[t] = quiet[t] \/ pc'[t] = "idle")
    BY <1>1, QuietCalls, QuietSeeks, QuietFirst, QuietBetween, QuietIo DEF Continue
  <2>2. Alone(t)'
    BY <1>1, <2>1, AloneStays
  <2>3. \A u \in Thread \ {t} : Exact(u)' /\ Alone(u)'
    BY <1>1, QuietOthers
  <2> QED
    BY <2>1, <2>2, <2>3 DEF QuietInv
<1>2. ASSUME NEW t \in Thread, Start(t)
      PROVE  QuietInv'
  BY <1>2, QuietStart
<1>3. CASE OtherOpens \/ OtherCloses
  BY <1>3, QuietElsewhere
<1>4. CASE UNCHANGED vars
  <2>1. QuietInv
    BY DEF Known
  <2> QED
    BY <1>4, <2>1 DEF vars, members, kernel, locals, QuietInv, Exact, Alone, Chain, Underway,
       Final, Even, EachSize, EndOf, Place
<1> QED
  BY <1>1, <1>2, <1>3, <1>4 DEF Next, Done

\* For any threads, sizes, pieces, faults and cuts by the kernel: a transfer that no
\* call overlapped moves its pieces through the File's own descriptor, one after
\* the other, up to its limit or to the end of the file.
THEOREM QuietCorrect == Spec => []QuietExact
<1>1. Spec => [](IInv /\ HistoryOK)
  BY FileInvariance, HistoryInit, HistoryStep, PTL DEF Spec
<1>2. Init => QuietInv
  BY QuietInit
<1>3. (IInv /\ HistoryOK) /\ QuietInv /\ [Next]_vars => QuietInv'
  BY QuietStep DEF Known
<1>4. (IInv /\ HistoryOK) /\ QuietInv => QuietExact
  <2> SUFFICES ASSUME IInv, HistoryOK, QuietInv, NEW t \in Thread,
                      pc[t] = "return", quiet[t], Even(t) \/ Len(moved[t]) <= 1,
                      Len(moved[t]) > 0
               PROVE  LET m == moved[t] IN
                      /\ \A i \in 1 .. Len(m) : m[i].own /\ m[i].file = m[1].file
                      /\ \A i \in 1 .. Len(m) - 1 : m[i + 1].from = m[i].from + m[i].len
                      /\ op[t] = "traverse" => m[1].from = 0
                      /\ ret[t] \in {"ok", "unset"} =>
                           \/ total[t] = max[t] \/ op[t] = "readOnce"
                           \/ /\ op[t] = "read"
                              /\ m[Len(m)].from + m[Len(m)].len >= size[m[1].file]
    BY DEF QuietExact, Even
  <2>1. Chain(t) /\ Final(t)
    BY DEF QuietInv, Exact, Moving
  <2>2. Len(moved[t]) \in Nat
    BY LenProperties DEF HistoryOK
  <2> QED
    BY <2>1, <2>2 DEF Chain, Final, EndOf
<1> QED
  BY <1>1, <1>2, <1>3, <1>4, PTL DEF Spec

=============================================================================
