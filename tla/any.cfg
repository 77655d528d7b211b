\* Two threads initialise, assign, reset and read two Any objects.
CONSTANTS
    t1 = t1
    t2 = t2
    a = a
    b = b
    Thread <- TwoThreads
    Cell <- TwoCells
    Value <- SomeValues
    Type <- SomeTypes
    Ops = {"init", "from", "reset", "assign", "toT", "copy", "bundle"}
    MaxCalls = 3
SPECIFICATION FairSpec
CHECK_DEADLOCK FALSE
INVARIANTS
    TypeOK
    LocksHeld
    Labelled
    ReadsMatch
    QuietCall
PROPERTIES
    CallsReturn
    AtomicCalls
