SPECIFICATION FairSpec
CONSTANTS
    u = u
    frameparser = frameparser
    Drainers = {u}
    Parser = frameparser
    Policies = {"discard", "playout"}
    NonBlocking = {FALSE}
    Exclusive = FALSE
    TimeOuts = FALSE
    MaxFrames = 2
    MaxDrains = 1
    MaxPauses = 1
    MaxOvertaking = 2
    RingSize = 8
    CodedFrames = 4
    DecodeBuffers = 3
    MessageSlots = 2
PROPERTIES DiscardEnds PlayoutEnds
CHECK_DEADLOCK FALSE
