\* Two threads that append, reset and rotate while system calls fail.
CONSTANTS
    t1 = t1
    t2 = t2
    Thread <- TwoThreads
    NoThread = NoThread
    Ops = {"append", "truncate", "shrink", "setMaxSize"}
    LevelArgs <- OneLevel
    SpinArgs <- NoSpin
    OutputArgs <- FileOrBoth
    SizeArgs = {0}
    Names = {"n"}
    NoName = "n"
    FlushInterval = 2
    ShrinkInterval = 3
    MinLogSize = 1
    DefaultLogSize = 4
    ChunkSize = 1
    WriteCodes = {"ok", "negative"}
    Faults = {"stat", "open", "mmap", "write", "fwrite", "fopen"}
    MaxCalls = 5
    MaxCrashes = 1
SYMMETRY Symmetry
SPECIFICATION Spec
INVARIANTS
    LockInv
    StreamInv
    DiskOrder
    RotationKeeps
PROPERTIES
    NoRecordLost
    StoresRecords
