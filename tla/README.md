# cti_log: specifications, model checking and proofs

`ctilog` is a C++ logging library for ROS nodes. This directory holds TLA+
specifications of its concurrent and persistent core, TLC configurations that
model-check them and TLAPS proofs about them. Sources are named as in
`src/ctilog`: `log.cpp` is `src/ctilog/src/log.cpp`, `log.hpp` is
`src/ctilog/include/ctilog/log.hpp`.

## 1. Inventory

| Component | State | Operations | What makes it correct |
|---|---|---|---|
| **Logger** (`log.cpp`, `log.hpp`) | level, use-once level, outputs, `maxSize`, callback, filters, the stream `log`, `writemutex`; static `kLogIdx`; on disk the log and its `.1` copy | two `append`s, `operator<<`, `operator,`, `reset`, `finish`, `shrinkToFit`, configuration calls | lock discipline; no record lost but where intended; files in order; size bounded; ids; use-once level |
| **LogLevel** (`loglevel.hpp`) | none | `isLogable`, `setLogLevel`, `toggleLogLevel` | the level stays in `Min..Max` |
| **Registry** (`log.cpp:25-78`) | `instances`, its lock, `defaultLogFile` | `getLogger`, `hasLogger`, `releaseLogger`, `setDefaultLogger` | one live Logger per file, references stay valid |
| **Scoped locks** (`scopedrwlock.hpp`) | a `boost::shared_mutex` | scoped read and write lock | exclusion, no waiting in circles |
| **Macros** (`loghelper.cpp.hpp`) | none | `Fatal` ... `Detail`, `Assert`, `Throw` | get the default Logger twice per line |
| **File** (`file.cpp`) | name, descriptor, position, `ioBusy`, three locks | open, close, seek, `read`, `traverse`, `write` | exclusive I/O, exact prefix copied, codes tell success from failure |
| **File utilities** (`file.cpp`) | none | `GetFileSize`, `IsExists`, `RemoveFiles`, `MkDirs`, ... | errors reported |
| **Any** (`any.hpp`, `any.cpp`) | `data`, `typeinfo`, a lock of its own | `init`, `assign`, `reset`, `operator=`, copy, `toT`, `toTPtr`, `getDataBundle`, factories | the object and its label agree, exactly the listed types are taken, locks are given back |
| **Rwlock** (`rwlock.cpp`) | a pthread lock, or a critical section with a counter | rdlock, wrlock, try, unlock | exclusion |
| **Flags, Exception, Errno, formatting, example** | none | conversions | - |

How they interact. A caller asks the Registry for a `Logger&` and appends
through it, from any thread. `append` looks at level and outputs without a lock,
calls `reset` when there is no stream, writes under `writemutex`, and afterwards
calls `reset` (on failure) or `shrinkToFit` (every `kShrinkToFitInteval`
records), then the callback. `shrinkToFit` uses two local `File` objects to copy
the log, under `writemutex`. `File` protects name and descriptor with
`shared_mutex`es; only overloads the Logger does not call use `Any`.

Hard behaviour: steps of several threads between the unlocked tests and the
locked sections; system calls that fail half way through a rotation; a crash at
any point; an uninitialised code in `File::write`; counters shared by all
Loggers; the Registry's lookup and construction in two locked sections; an Any
whose two members are written one after the other while some readers take no lock.
`PROJECT.json` lists these hazards one by one, with the properties for each.

## 2. Modules

| Module | Models | Checked by | Proved in |
|---|---|---|---|
| `LogLevel` | the enumeration and its pure rules | run config (through `Logger`) | - |
| `Logger` | one Logger, its threads, its stream and files | solo, threads, config, return, newest | `LoggerProofs`, `LoggerDiskProofs`, `LoggerStoreProofs`, `LoggerSoloProofs` |
| `RecordStore` | what a Logger promises about its records, without threads or files | threads (`StoresRecords`) | `LoggerStoreProofs` |
| `SharedMutex` | `boost::shared_mutex` as the scoped locks use it | registry, file, any | - |
| `SharedFile` | one File, its threads, the descriptors of the process | file, file_return, file_reuse | `SharedFileProofs`, `SharedFileQuietProofs` |
| `Registry` | the map of Loggers and the references to them | registry, race | `RegistryProofs` |
| `AnyCast` | which `boost::any` an Any takes as which type | any, any_candidates (through `AnyCell`) | `AnyProofs` |
| `AnyCell` | Any objects shared by threads | any, any_candidates | `AnyProofs` |
| `AtomicAny` | what the lock of an Any promises, without locks or members | any (`AtomicCalls`) | `AnyProofs` |
| `MCLogger`, `MCRegistry`, `MCSharedFile`, `MCAny` | values of the constants for TLC | | |

`Logger` EXTENDS `LogLevel`; `Registry`, `SharedFile` and `AnyCell` EXTEND `SharedMutex`, one
definition of the lock for every class that has one; `AnyCell` EXTENDS `AnyCast`; `Logger`
instantiates `RecordStore`, and `AnyCell` instantiates `AtomicAny`, with a refinement mapping.

### Logger

A thread walks through labels (`pc`); a label is a point of the code where another
thread can come in between. The unlocked part of `append` is one action per
access to shared state (`ReadSpin`, `ClearSpin`, `CheckLevel`, `SnapshotOutputs`,
`CheckLog`, `IncrementIdx`). A section under `writemutex` is one action unless an
unlocked reader could look in between (`log`, `kLogIdx`, `maxSize`) or the
process could die between two states of the disk; then it is several (`CloseLog`
and `OpenLog` in `reset`; `StartShrink`, `CreateBackup`, `CopyChunk`,
`RetireLog`, `ReopenLog` in `shrinkToFit`). `call` and `rtn` say on whose behalf
`reset` and `shrinkToFit` run and where they return to.

| Variable | Code |
|---|---|
| `logLevel`, `spin`, `outputs`, `maxSize`, `callback`, `filters`, `log`, `mutex` | members `logLevel`, `spinOnceLogLevel`, `outputs`, `maxSize`, `appendCallback`, `acNameFilters`, `log`, `writemutex` |
| `idx` | `kLogIdx` |
| `buf`, `live`, `backup` | the stdio buffer of `log`, the contents of the log file and of `.1` |
| `lvl`, `name`, `out`, `num`, `limit`, `torn` | `lvl`, `name`, the snapshot `o`, the id printed, the bytes `traverse` will read, whether `doWrite2Tmp` cancelled the copy |
| `count`, `ids`, `gone`, `uses` | history: records written, ids printed, records dropped on purpose or by a crash, appends that took the use-once level |

Abstractions. A record is the number of its `fwrite` and every record has size 1,
so `maxSize` counts records; a record cut in the middle by a byte limit is
therefore not seen. stdio may write its buffer out at any append. A short
`fwrite` leaves no record. `fflush` and `fclose` always succeed. The text of a
record, `hasTid` and what the callback does are left out, and `hasIdx` is always
on. A data race on a member is a read or write of the old or the new value, which
is what the build produces for word-sized members; `std::function` and
`std::set` are read whole. `File::write` leaves its code uninitialised on
success, so its sign is a choice among `WriteCodes`. A crash loses the buffer and
the memory and keeps the files; the process starts again with the members'
initial values.

### RecordStore

The abstract specification. A store has `written` records, of which some are
`stored` and some of those `durable`. It writes one record at a time, in order;
it syncs; it forgets from its old end (`DropOldest`) or, when all is durable,
from its new end (`DropNewest`); a crash takes it back to what is durable.
`Logger` maps `written` to the count of records, `durable` to the records in the
two files and `stored` to those and the stdio buffer. Label by label, the writes
of both `append`s are `Write`; `CloseLog`, `Finish` and `StartShrink` sync; the removal
of the old `.1` is `DropOldest`; `reset(true)` and the truncation after a copy
that was cut short are `DropNewest`; everything else, the copy included, is a
stutter. So a rotation never resurrects a record, never takes one from the
middle and never drops an unflushed one, however threads and failures interleave.

### Registry

One action per lock acquisition and per step under the lock: `EnterFind` and
`Find` are `hasLogger`; `EnterUpgrade`, `EnterExclusive`, `Construct` and `Insert`
are the rest of `getLogger`; `Erase` is `releaseLogger`. A write lock is taken in
two steps, for upgrade and then exclusively, as `BoostScopedWriteLock` does,
and a thread waiting for the second lets readers in. The map is the only owner
of a Logger, so the assignment `instances[file] = ret` destroys the one that was
there. `using` is a call on a `Logger&`; on a destroyed Logger it may leave an
open stream behind. Waiting for `writemutex` in the destructor is not modelled.

### SharedFile

`Logger` has the two local Files of a rotation; `SharedFile` has one File that
several threads call, which the locks and `ioBusy` of `file.hpp` are there for,
and beside it other code of the process, which opens and closes files of its own.
The kernel gives the lowest free descriptor, so a number the File has closed is
soon somebody else's.

| Variable | Code |
|---|---|
| `fd`, `filename`, `ioBusy` | the members; descriptor 0 stands for -1 |
| `fdRw`, `nameRw`, `ioMutex` | `fdRwlock`, `filenameRwlock`, `ioMutex` |
| `table`, `others`, `size` | open descriptors with file and position, those that other code opened, the length of each file |
| `local`, `seen` | `initfd` and `initfilename` (in `open`: what `::open` returned) |
| `max`, `total`, `ret` | `maxRead` or `maxWrite`, the bytes moved, the return code |
| `moved`, `quiet` | history: the pieces a transfer moved, whether a call of another thread overlapped it |

`open`, `close` and `setFilename` share the steps that take `fdRwlock`
(`EnterUpgrade`, `EnterExclusive`); `Open` and `Publish` are two steps since
`::open` succeeds before `ioMutex` is taken, and `setFilename` closes under one
lock (`Close`) and assigns under another (`StartAssign`, `Assign`). The three
`read`s and `traverse` and the `write`s go through the same steps with `op` to
tell them apart: `BeginTransfer`, `Mark` (the guard that sets `ioBusy`), `Primary`
(descriptor and path under `fdRwlock`), `SizeUp`, and for every piece `Check`,
`LockIo` and `Io` or `IoFails`. `read` with a callback ends with a `jump2Offset`
(label `rewind`), which is the steps of the seeks. `ret` is `"unset"` where the code
leaves it uninitialised. A callback runs outside every lock, so what it may do
to the File is what another thread may do.

Abstractions. Files are opened without `O_TRUNC` and `O_APPEND`, never shrink, and
other code does not write to them. `filename` while it is assigned is `Torn`, a
path that names no file. `ioPostion` and `ioRestPostion` are a seek that does not
move. `isOpen`, `size` and `isDirectory` only read and are left out; a transfer that
finds `ioBusy` or has no data changes nothing and is left out too. Piece sizes above
`kMaxFileRdMem` and a negative `eachWrite` are values of `Eachs`.

Things the model does that no sentence of the repository excludes, so that no
property is about them: a `read` with a callback leaves the position beyond what
it delivered, since it moves it once more (`file.cpp:980`); an `open` between the
two halves of `setFilename` opens the old path (`file.cpp:374`); `traverse` with an
`eachRead` that is not a multiple of the page hands out bytes twice
(`file.cpp:811`), for which reason `QuietExact` is restricted to whole pages.

### AnyCast and AnyCell

An Any is a `shared_ptr` to an object (`data`), its type (`type`, the member `typeinfo`) and a
lock. A `boost::any` is a form (object, pointer to `T`, to `T const`, to `void`, to
`void const`), a type and whether the pointer is null. `AnyCast` has the casts of `any.hpp` as
operators: `TakesPointer` and `InitByPtr` for the chain of `__toTPtr`, `ToT0` to `ToT5` for the
overloads of `toT` with no to five candidates, each built from the smaller ones as in the code,
and `TakesObject` for the overload that `initByObj` picks by the number of candidates
of the type. `Held` keeps the type of the object behind a pointer: a `shared_ptr<void>` is
reinterpreted as whatever was asked for, and the flag `raw` remembers that only the caller knows
what it is.

In `AnyCell` a writer takes the lock for upgrade and then exclusively, and writes the two
members in any order (`WriteMember` once for each), so that a reader without the lock may
see one new and one old. `init(value)` is two such sections with `Test` between them, which
reads `data` without the lock. `operator=` takes the right side shared first
(`EnterSource`) and keeps it until both are given back (`Released`). `toT` stands for the
readers that take the lock (`toT`, `toTPtr`, `toTPtrd`), `copy` for the copy constructor and `bundle`
for `getDataBundle`, which reads `data` once more (`Reread`). `from` is an assignment from a
fresh temporary (`fromT`, `fromTPtr`, `create`), whose own lock nobody else can hold.

| Variable | Code |
|---|---|
| `data`, `type`, `rw` | the members `data`, `typeinfo`, `rwlock` of each Any |
| `call`, `how` | the call a thread is in and its arguments; whether it tries the pointer or the object |
| `left`, `seenData`, `seenType` | members still to be written or read; what a reader has read |
| `overlap` | history: whether another thread wrote an Any that the call uses |

Abstractions. Numbers only widen, so their values are left out; so are the sizes that
`getDataBundle` returns and the text printed when a cast fails. An unlocked read of a `shared_ptr` that
is being assigned is a data race whose outcomes no model of values covers: it is the old or the new
pointer here, and no property says anything about a read that a write overlaps.

Two things the model does not turn into properties: `init(value, isPtr)` is documented to throw
`bad_any_cast` (`any.hpp:51`) but prints and unsets the Any, which is what `QuietCall` states; and
`getDataBundle` gives `sizeof(int)` for a `short` (`any.cpp:72`), a matter of sizes.

### AtomicAny

The abstract specification. Each Any holds one object with its label (`held`); a call starts
(`Begin`), has its whole effect in one step (`Write`, or `Read` for a cast, which takes object and
label into `got`) and returns. `init(value)` writes twice, with a look in between (`Succeed`,
`TryObject`) that is exact unless another call has written the Any and has not returned (`Raced`): this
is all that the missing lock around that look costs. Nothing is promised of the readers without
the lock, and what an init makes of its argument is a parameter, given by `AnyCast`.

`AnyCell` maps the moment of a writer to the first member it writes and that of a cast to the last
it reads: `held` is what the members are, or, from the first write on, what they will be when
the writer leaves (`Settled`); `at` is the label told by what has happened (`Phase`); `got` is what a
cast has read (`Found`). Every step on a lock, the second member of a writer and the first of a cast are
stutters.

## 3. Runs

| Run | Instance | Shows |
|---|---|---|
| **solo** | 1 thread, 17 calls, 1 crash, flush every 2, shrink every 3, `maxSize` 14 | `SizeBounded`, `UnflushedBounded`, `NoGap`, `LineIdsUnique`, `SpinUsedOnce` hold as long as nothing is concurrent and no call fails |
| **threads** | 2 threads, 5 calls, 1 crash, every fault, chunks of 1 record | `LockInv`, `StreamInv`, `DiskOrder`, `RotationKeeps`, `NoRecordLost`, and the refinement `StoresRecords` |
| **config** | 2 threads, 4 calls, all configuration calls, both appends | `TypeOK`, `LineIdsOrdered`, `SpinUsedOncePerThread` |
| **return** | 2 threads, 4 calls, every fault, fairness | `CallsReturn` |
| **registry** | 2 threads, 3 calls, 2 files, one Logger there from the start | `MapExclusive`, `MapOwns`, `WarmStays`, `CallsReturn`, `TypeOK` |
| **file** | 2 threads, 3 calls from an open or a closed File, 1 open elsewhere, every fault | `LocksHeld`, `DescriptorsOwned`, `CloseOutsideIo`, `BusyFreed`, `WithinLimit`, `QuietExact`, `TypeOK` |
| **file_return** | 2 threads, 2 calls, every fault, fairness | `CallsReturn` |
| **any** | 2 threads, 2 objects, 3 calls, three kinds of values | `LocksHeld`, `Labelled`, `ReadsMatch`, `QuietCall`, `CallsReturn`, `TypeOK`, and the refinement `AtomicCalls` |
| **newest** | 1 thread, `maxSize` lowered to 4 | violation of `RotationKeepsNewest` |
| **race** | 2 threads, one new file | violation of `RefsLive` |
| **file_reuse** | a write, a close, an open elsewhere, no fault | violation of `OwnDescriptor` |
| **any_candidates** | 1 thread, objects of every type | violation of `EveryCandidate` |

The bounds. `MaxCalls` and `MaxCrashes` are the only bounds of `Logger`; the
other constants are parameters of the code with small values. The flush and
shrink intervals (3 and 5 in `log.cpp:188-189`) are 2 and 3: they stay coprime
and flush comes first, so every alignment of the two occurs. Seventeen calls of
one thread are enough for two rotations with a crash between them and a log that
reaches `maxSize / 2` plus its slack; `NoGap` needs `maxSize` at least twice the
slack `(MaxCrashes + 1) * ShrinkInterval + FlushInterval - 1`, otherwise the log
may outgrow `maxSize` and lose its newest records (run newest): 14 is the least
value that meets it. In run threads a rotation takes place after one record
(`maxSize` is 1 after `setMaxSize`, so half of it is 0), and five calls let two
threads reset, rotate and append into each other's windows, each window of which
involves two threads at most. Threads are interchangeable, so runs that check
only invariants and step properties use symmetry. `Registry` constructs at most
two Loggers per call, so `MaxLoggers` never stops a call.

In `SharedFile`, `MaxCalls` and `MaxOthers` are the bounds. Three calls let one
thread close and open, or rename, inside a call of the other; a transfer asks for
3 bytes, in pieces of 1 or of a page of 2, so it has one to three pieces, a last
piece that must be cut and, from `UpperBound` 2, a `read(size)` that is refused. One
file has 3 bytes and one has none. Two descriptors are the least with which the
File and other code both have one. Run file_return has two calls: every way to wait
(for each of the three locks, with each of the others held) involves two calls.

In `AnyCell`, `MaxCalls` is the bound. Three calls are a state to start from and two calls that
overlap, for instance two assignments that cross, or an `init` with a `reset` between its
halves. The values are an object that fits by the last of its candidates, a pointer that
fits by form alone and a pointer that does not fit; one type is enough for the interleavings, and
what every type takes is left to `CastsCorrect`, which is proved, and to run any_candidates, which
goes through all of them in one thread.

Fairness. `FairSpec` (in all four state machines) is weak fairness of
`Continue(t)` for each thread: a thread
inside a call keeps running, which the scheduler of the operating system
grants. A caller need not call. Neither `std::mutex` nor `shared_mutex` is assumed
to be fair: calls are bounded in number, so a thread that waits for a lock finds
it free in the end, and the runs show that nobody waits for something else. The
exception is `Any::operator=`, which holds one lock while it waits for another:
`a = b` beside `b = a` stop for ever. `CallsReturn` of `AnyCell` says that this crossing
(`Crossed`: every assignment of a set waits for readers to leave an object that another
of the set holds) is the only way for a call not to return, and run any does not check
deadlock for the same reason.

What the violations mean. Each contradicts a sentence of the repository, quoted
in `PROJECT.json`:

- *newest*: the comments of `shrinkToFit` speak of the last `maxSize / 2` bytes;
  the code copies the first `maxSize` bytes. The two agree while the log is not
  larger than `maxSize`, which `SizeBounded` and `NoGap` show for one thread with
  a constant `maxSize`.
- *race*: `getLogger` can return a reference to a Logger that is destroyed when two
  threads ask for a new file; `WarmStays` is what holds.
- *file_reuse*: `write` compares descriptors under `fdRwlock`, gives the lock back, and
  writes to the number afterwards; a close in the gap and an open elsewhere
  under the same number send the bytes into that file, with no `FileChanged`.
  `CloseOutsideIo` and `QuietExact` are what holds.
- *any_candidates*: `toT` with five candidates never tries the fifth, so `long long` and
  `unsigned long long` refuse a `bool`, which `long` takes; `QuietCall` and `CastsCorrect` say
  what is taken.

Two properties of run solo are about one thread only. `SpinUsedOnce` ("will be use once",
`log.hpp:56`) fails with two threads, since both may read `spinOnceLogLevel` before either clears it, and
`LineIdsUnique` fails with two threads, since both may increment `kLogIdx` before either reads it
for its line. `SpinUsedOncePerThread` and `LineIdsOrdered`, checked in run config, are what
holds then.

## 4. Proofs

TLAPS checks the theorems below for every set of threads, every value of the
sizes and intervals, and every set of faults.

### Logger

They use the named assumptions of `Logger` on its constants (`ThreadAssumption`, which says that
there are finitely many threads, `CallAssumption`, `NameAssumption`, `LevelAssumption`,
`OutputAssumption`, `SizeAssumption`, `IntervalAssumption`, `BoundAssumption`), which TLC
evaluates in every run.

| Theorem | Establishes |
|---|---|
| `LockCorrect` | `Spec => []LockInv` |
| `Invariance` | `Spec => []IInv`, the inductive invariant |
| `TypeCorrect` | `Spec => []TypeOK` |
| `StreamCorrect` | `Spec => []StreamInv` |
| `RotationCorrect` | `Spec => []RotationKeeps` |
| `NoRecordLostCorrect` | `Spec => NoRecordLost`, a property of steps |
| `IdsCorrect` | `Spec => []LineIdsOrdered` |
| `OrderInvariance` | `Spec => [](IInv /\ OrderInv)` |
| `OrderCorrect` | `Spec => []DiskOrder` |
| `StoreCorrect` | `Spec => StoresRecords`: `Logger` implements `RecordStore` |
| `SpinCorrect` | `Spec => []SpinUsedOncePerThread` |
| `SpinOnceCorrect` | `Spec => []SpinUsedOnce`, if `Single` |
| `UniqueCorrect` | `Spec => []LineIdsUnique`, if `Single` |
| `UnflushedCorrect` | `Spec => []UnflushedBounded`, if `Single` and `Aligned` |
| `SizeCorrect` | `Spec => []SizeBounded`, if `Single`, `Aligned` and `Rotates` |
| `NoGapCorrect` | `Spec => []NoGap`, if `Single`, `Aligned`, `Rotates` and `CopiesWhole` |

The argument. `LockInv` with the type of `pc`, `rtn` and `mutex` is inductive by
itself (`ControlInv`): each action moves one thread, and takes or gives back the
mutex exactly when it enters or leaves a critical label. `IInv` adds the types of
the other variables and three facts they need: `ToggleInv` (the local of a toggle
in progress is a level), and in `RotationInv` the state of the stream
(`StreamInv`) and of a copy (`CopyInv`: while a thread copies, the backup is the
first `Len(backup)` records of the log, not more than `limit`, and `limit` is
between 1 and the length of the log). `CopyInv` is why `RotationKeeps` holds when
the copy ends without having been cut short; `StreamInv` is not inductive without
`LockInv`, since only the lock keeps the other threads off the stream.
`NoRecordLost` follows step by step: `Elems(live) \cup Elems(buf)` only grows but
in `OpenLog` (what reset(true) drops goes to `gone`), `ReopenLog` (a copy of the
whole log is in the backup, by `RotationKeeps`) and a crash.

`LoggerStoreProofs` first reduces the thirty-odd actions to six effects on the records
(`Effect`: nothing, flush, write, drop the log, clear the backup, copy). `DiskOrder` is
inductive with two more facts (`OrderInv`): no stored record is newer than the last one
written, and while a thread copies the backup is a prefix of the log. The refinement needs no
more: `Boundary` shows that the backup is always an initial segment of what is stored, so that
clearing it forgets the oldest records and dropping the log forgets the newest.

`LoggerSoloProofs` proves what a Logger promises only under conditions. `SpinInv` counts: as
long as the use-once level is there, it has been used no more often than there are threads
between reading and clearing it (`Holders`). The other five are about `Single`: one thread uses
the Logger. For `LineIdsUnique` that is all (`UniqueInv`: printed ids increase and stay below the
one taken next). The last three rest on how `kLogIdx` and the two intervals fit together, and
each takes one more hypothesis, a condition on constants that the configuration of run solo meets:

- `Aligned`: no call moves `kLogIdx` without a record or writes a record without moving it
  (`append(msg, level)`, other Loggers), and the file is among the outputs. Then `Phase`, the
  remainder of `kLogIdx` by an interval (of `kLogIdx - 1` while the record on its way is counted but
  not written), bounds the unflushed records at every label but those of a reset (`BufInv`).
- `Rotates`: the calls a rotation needs do not fail and `maxSize` is not changed. Then the
  stream is open from the look at it to the write (`OpenInv`), every multiple of
  `ShrinkInterval` is met by a look at the size, and `SizeInv` bounds the log label by label:
  `Base` plus `Phase`, or plus a whole interval where a look is due or a rotation under way (`Late`).
- `CopiesWhole`: no write of a copy fails or returns a negative code, and `maxSize` is at least
  twice the slack. Then a rotation copies the whole log (`WholeInv`), so by `LossStep` nothing but
  the old backup disappears, and by `DiskOrder` that is older than what stays (`StoredStep`).

The conditions are needed: with any one of the excluded faults, with `append(msg, level)` or
another Logger, with outputs that leave the file out, with `setMaxSize`, with two threads or with
a `maxSize` below the bound, TLC finds a behaviour that breaks the property of the theorem that
excludes it. (Only `SizeBounded` does not need the outputs to contain the file.)

### Registry

`RegistryProofs`, for any set of threads and of files:

| Theorem | Establishes |
|---|---|
| `Invariance` | `Spec => []IInv`, the inductive invariant |
| `TypeCorrect` | `Spec => []TypeOK` |
| `ExclusionCorrect` | `Spec => []MapExclusive` |
| `OwnershipCorrect` | `Spec => []MapOwns` |
| `WarmCorrect` | `Spec => []WarmStays` |

`MapExclusive` is inductive with one fact more, that one thread at a time upgrades (`LockInv`).
`MapOwns` needs that the Logger between `Construct` and `Insert` is in no other entry of the map
(`InsertInv`), and `WarmStays` that no thread is ever on its way to replace the Logger of a file that
was there from the start and is not released (`WarmInv`).

### SharedFile

`SharedFileProofs` and `SharedFileQuietProofs` use `NameAssumption`, `SizeAssumption` and `FdAssumption`.

| Theorem | Establishes |
|---|---|
| `LocksCorrect` | `Spec => []LocksHeld` |
| `LimitCorrect` | `Spec => []WithinLimit` |
| `DescriptorsCorrect` | `Spec => []DescriptorsOwned` |
| `CloseCorrect` | `Spec => CloseOutsideIo`, a property of steps |
| `TypeCorrect` | `Spec => []TypeOK` |
| `BusyCorrect` | `Spec => []BusyFreed` |
| `QuietCorrect` | `Spec => []QuietExact` |

The argument again starts with control. `LocksHeld` says who holds `fdRwlock` and
`ioMutex` by label; with the types of labels and locks and with `RwInv`
(`filenameRwlock` is never shared, one thread at a time upgrades) it is inductive:
`ControlInv`. `WithinLimit` is not inductive without `LimitInv`: nothing has been
moved yet where the limit is still to be set, nor before the system call of a
`read` that makes only one, whose piece is the whole limit; every other piece is
cut to `max - total`. `DescriptorsOwned` is not inductive without `DescriptorInv`,
which says that a thread about to publish its descriptor found the File closed and
holds one that is open and not somebody else's, and that a thread about to move
the position has an open File;
that nobody else comes in between is `LocksHeld`. `CloseCorrect` follows from both:
only `Close` and `Publish` assign `fd`; `Publish` assigns an open descriptor, and
`Close` needs `ioMutex` to be free, which by `LocksHeld` means that nobody is in a
system call.

`TypeOK` adds the history (`HistoryOK`: codes, pieces, names seen). `BusyFreed` needs one fact
more, that only `read` goes through the label where the position is set back (`BusyInv`). For
`QuietExact`, a quiet transfer is alone (`Alone`: the other threads are idle from its
beginning, or it is not quiet any more), so the File keeps its descriptor; in each step the
pieces so far follow each other (`Chain`), the next one starts where the last one ended
(`Underway`; for `traverse` this is arithmetic of whole pages), and where the loop is left the limit or the
end of the file is reached (`Final`).

### Any

`AnyProofs`, for any threads, objects, values and types:

| Theorem | Establishes |
|---|---|
| `CastsCorrect` | `TakesObject(v, T)` is "`v` is an object of `T` or of one of the first four candidates for `T`", for every `v` and `T` |
| `Invariance` | `Spec => []IInv`, the inductive invariant |
| `TypeCorrect`, `LocksCorrect` | `Spec => []TypeOK`, `Spec => []LocksHeld` |
| `LabelCorrect` | `Spec => []Labelled` |
| `ReadCorrect` | `Spec => []ReadsMatch` |
| `QuietCorrect` | `Spec => []QuietCall` |
| `AtomicCorrect` | `Spec => AtomicCalls`: `AnyCell` implements `AtomicAny` |

`ControlInv` is the control: labels, the calls possible at each, and `LocksHeld`. With it,
an object being written has one writer, and the right side of an assignment does not change
while it is copied; so what a writer has written so far is what it set out to write
(`WriteInv`), and the object is consistent again when it leaves (`Labelled`). `HowInv` relates
the half of `init` a thread is in to its arguments, and `QuietInv` carries what a call that nobody
overlapped has done or seen from its last step to its return.

The refinement needs no other invariant. A thread that has begun to write an object is the only
one (`SettledIs`), what it writes does not change until it leaves, because the right side of an
assignment is locked and is not its left side, and with both members written the object is that (`WholeNow`).
`StartStep` to `ReturnStep` map each action to a step of `AtomicAny` or to a stutter, `AtomicStep`
combines them.

### Model-checked only

Liveness (`CallsReturn` in all four state machines) stays with TLC: the prover has no rule for
fairness here.

## 5. Plan

Done: `LogLevel`, `Logger` and `RecordStore` with `LoggerProofs`, `LoggerDiskProofs`,
`LoggerStoreProofs` and `LoggerSoloProofs`, `SharedMutex`, `Registry` with `RegistryProofs`, `SharedFile` with
`SharedFileProofs` and `SharedFileQuietProofs`, `AnyCast`, `AnyCell`
and `AtomicAny` with `AnyProofs`.

1. `MkDirs`, `RemoveFiles` and `CreateSymlink` of two processes as a module of their own.

## 6. Not modelled, and why

Failing `fflush` and `fclose` (the code ignores both results); bytes inside a
record; formatting, colours, time and thread ids; the values of numbers in an `Any` and the
sizes of its bundles; `Exception` and `Errno`, which carry data; `Rwlock`, which the library does not
use and whose other branch, over a `CRITICAL_SECTION`, compiles only where the rest of the library does
not; `CreateSymlink`, which changes the working directory of the process, `AvailableByte`,
`Write2Stream` and the other utilities the library does not call; the data races on
`std::function`, `std::string` and `std::map` internals, whose outcomes are not
limited to an old or a new value; the ROS node of the example.
