\* Two threads that change the configuration while they append.
CONSTANTS
    t1 = t1
    t2 = t2
    Thread <- TwoThreads
    NoThread = NoThread
    Ops = {"append", "stream", "raw", "comma", "reset", "finish", "setLogLevel",
           "toggleLogLevel", "getLogger", "setOutputs", "setAppendCallback",
           "addAcNameFilter", "removeAcNameFilter", "clearAcNameFilters",
           "otherLogger"}
    LevelArgs <- OneLevel
    SpinArgs <- OneSpin
    OutputArgs <- AnyOutputs
    SizeArgs = {}
    Names = {"n"}
    NoName = "n"
    FlushInterval = 2
    ShrinkInterval = 2
    MinLogSize = 1
    DefaultLogSize = 2
    ChunkSize = 1
    WriteCodes = {"ok"}
    Faults = {"fopen"}
    MaxCalls = 4
    MaxCrashes = 0
SYMMETRY Symmetry
SPECIFICATION Spec
INVARIANTS
    TypeOK
    LineIdsOrdered
    SpinUsedOncePerThread
