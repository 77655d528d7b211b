\* Every call of two threads returns, whatever fails.
CONSTANTS
    t1 = t1
    t2 = t2
    Thread <- TwoThreads
    NoThread = NoThread
    Ops = {"append", "raw", "reset", "shrink", "setOutputs"}
    LevelArgs <- OneLevel
    SpinArgs <- NoSpin
    OutputArgs <- FileOrCout
    SizeArgs = {}
    Names = {"n"}
    NoName = "n"
    FlushInterval = 2
    ShrinkInterval = 2
    MinLogSize = 1
    DefaultLogSize = 2
    ChunkSize = 1
    WriteCodes = {"ok", "negative"}
    Faults = {"stat", "open", "mmap", "write", "fwrite", "fopen"}
    MaxCalls = 4
    MaxCrashes = 0
SPECIFICATION FairSpec
PROPERTIES
    CallsReturn
