\* One thread initialises one Any from an object of every type.
CONSTANTS
    t1 = t1
    t2 = t2
    a = a
    b = b
    Thread <- OneThread
    Cell <- OneCell
    Value <- AllObjects
    Type <- ByObject
    Ops = {"init", "initByObj"}
    MaxCalls = 1
SPECIFICATION Spec
INVARIANTS
    EveryCandidate
