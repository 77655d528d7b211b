\* Two threads ask for the Logger of the same new file.
CONSTANTS
    t1 = t1
    t2 = t2
    f1 = f1
    f2 = f2
    Thread <- TwoThreads
    File <- FirstFile
    Warm = {}
    Default = f1
    Ops = {"get", "use"}
    MaxLoggers = 3
    MaxCalls = 3
SPECIFICATION Spec
INVARIANTS
    RefsLive
