\* maxSize is lowered when the log is already larger, as example.cpp does.
CONSTANTS
    t1 = t1
    t2 = t2
    Thread <- OneThread
    NoThread = NoThread
    Ops = {"append", "setMaxSize"}
    LevelArgs <- OneLevel
    SpinArgs <- NoSpin
    OutputArgs <- FileOnly
    SizeArgs = {4}
    Names = {"n"}
    NoName = "n"
    FlushInterval = 2
    ShrinkInterval = 3
    MinLogSize = 4
    DefaultLogSize = 20
    ChunkSize = 4
    WriteCodes = {"ok"}
    Faults = {}
    MaxCalls = 12
    MaxCrashes = 0
SPECIFICATION Spec
INVARIANTS
    RotationKeepsNewest
