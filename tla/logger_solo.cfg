\* One thread that appends, resets, finishes and rotates, and crashes.
CONSTANTS
    t1 = t1
    t2 = t2
    Thread <- OneThread
    NoThread = NoThread
    Ops = {"append", "getLogger", "reset", "truncate", "finish", "shrink"}
    LevelArgs <- OneLevel
    SpinArgs <- OneSpin
    OutputArgs <- FileOnly
    SizeArgs = {}
    Names = {"n"}
    NoName = "n"
    FlushInterval = 2
    ShrinkInterval = 3
    MinLogSize = 4
    DefaultLogSize = 14
    ChunkSize = 4
    WriteCodes = {"ok"}
    Faults = {}
    MaxCalls = 17
    MaxCrashes = 1
SPECIFICATION Spec
INVARIANTS
    NoGap
    SizeBounded
    UnflushedBounded
    LineIdsUnique
    SpinUsedOnce
