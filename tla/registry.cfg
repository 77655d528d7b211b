\* Two threads, one Logger there from the start and one that they create.
CONSTANTS
    t1 = t1
    t2 = t2
    f1 = f1
    f2 = f2
    Thread <- TwoThreads
    File <- TwoFiles
    Warm <- FirstFile
    Default = f1
    Ops = {"get", "macro", "use", "release", "setDefault"}
    MaxLoggers = 7
    MaxCalls = 3
SPECIFICATION FairSpec
INVARIANTS
    TypeOK
    MapExclusive
    MapOwns
    WarmStays
PROPERTIES
    CallsReturn
