SPECIFICATION Spec
CONSTANTS
    u = u
    frameparser = frameparser
    Drainers = {u}
    Parser = frameparser
    Policies = {"discard"}
    NonBlocking = {TRUE, FALSE}
    Exclusive = FALSE
    TimeOuts = FALSE
    MaxFrames = 2
    MaxDrains = 2
    MaxPauses = 0
    MaxOvertaking = 2
    RingSize = 8
    CodedFrames = 4
    DecodeBuffers = 3
    MessageSlots = 2
INVARIANTS DrainedMeansEmpty
CHECK_DEADLOCK FALSE
