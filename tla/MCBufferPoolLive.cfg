SPECIFICATION FairSpec
CONSTANTS
    t1 = t1
    t2 = t2
    t3 = t3
    f1 = f1
    f2 = f2
    p1 = p1
    Frames = Frames
    Params = Params
    None = None
    Threads = {t1, t2}
    NonBlockingThreads = {}
    MayAbort = {}
    FailingPools = {}
    Pools = {Frames, Params}
    Buffers = {f1, f2, p1}
    PoolOf <- MCPoolOf
    Level <- MCLevel
    MaxAttached = 1
PROPERTIES GetterServed DropCompletes
