\* Two threads share a File while other code opens and closes descriptors.
CONSTANTS
    t1 = t1
    t2 = t2
    f1 = f1
    f2 = f2
    Thread <- TwoThreads
    Nobody = Nobody
    Name <- TwoNames
    Torn = Torn
    StartName = f1
    StartSize <- Sizes3and0
    Fd = {1, 2}
    PageSize = 2
    UpperBound = 2
    Wants = {3}
    Eachs = {0, 1}
    Offsets <- BackAndForth
    Ops = {"open", "close", "set", "seek", "readOnce", "traverse", "read", "write"}
    Faults = {"open", "stat", "seek", "io"}
    MaxCalls = 3
    MaxOthers = 1
SYMMETRY Symmetry
SPECIFICATION Spec
INVARIANTS
    TypeOK
    LocksHeld
    DescriptorsOwned
    BusyFreed
    WithinLimit
    QuietExact
PROPERTIES
    CloseOutsideIo
