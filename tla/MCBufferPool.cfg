SPECIFICATION Spec
CONSTANTS
    t1 = t1
    t2 = t2
    t3 = t3
    f1 = f1
    f2 = f2
    p1 = p1
    Frames = Frames
    Params = Params
    None = None
    Threads = {t1, t2}
    NonBlockingThreads = {t2}
    MayAbort = {t2}
    FailingPools = {Params}
    Pools = {Frames, Params}
    Buffers = {f1, f2, p1}
    PoolOf <- MCPoolOf
    Level <- MCLevel
    MaxAttached = 1
INVARIANTS TypeOK CountIsExact NeverActsOnDeadBuffer OnePlace AccountedFor CallsAreSound CountersAgree
PROPERTIES ImplementsLife
