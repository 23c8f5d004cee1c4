SPECIFICATION Spec
CONSTANTS
    u = u
    frameparser = frameparser
    Drainers = {u, frameparser}
    Parser = frameparser
    Policies = {"discard", "playout"}
    NonBlocking = {TRUE, FALSE}
    Exclusive = TRUE
    TimeOuts = TRUE
    MaxFrames = 1
    MaxDrains = 2
    MaxPauses = 0
    MaxOvertaking = 1
    RingSize = 8
    CodedFrames = 2
    DecodeBuffers = 2
    MessageSlots = 2
INVARIANTS NumbersFollowOrder FlagHasMarker
CHECK_DEADLOCK FALSE
