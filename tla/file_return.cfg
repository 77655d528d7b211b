\* Two threads, all calls of File, every system call may fail.
CONSTANTS
    t1 = t1
    t2 = t2
    f1 = f1
    f2 = f2
    Thread <- TwoThreads
    Nobody = Nobody
    Name <- TwoNames
    Torn = Torn
    StartName = f1
    StartSize <- Sizes3and0
    Fd = {1, 2}
    PageSize = 2
    UpperBound = 2
    Wants = {3}
    Eachs = {0, 1}
    Offsets <- BackAndForth
    Ops = {"open", "close", "set", "seek", "readOnce", "traverse", "read", "write"}
    Faults = {"open", "stat", "seek", "io"}
    MaxCalls = 2
    MaxOthers = 0
SPECIFICATION FairSpec
PROPERTIES
    CallsReturn
