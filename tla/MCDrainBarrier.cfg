SPECIFICATION Spec
CONSTANTS
    u = u
    frameparser = frameparser
    Drainers = {u}
    Parser = frameparser
    Policies = {"discard", "parseAll"}
    NonBlocking = {FALSE}
    Exclusive = FALSE
    TimeOuts = FALSE
    MaxFrames = 2
    MaxDrains = 2
    MaxPauses = 0
    MaxOvertaking = 2
    RingSize = 8
    CodedFrames = 3
    DecodeBuffers = 2
    MessageSlots = 2
INVARIANTS TypeOK DrainedMeansEmpty
CHECK_DEADLOCK FALSE
