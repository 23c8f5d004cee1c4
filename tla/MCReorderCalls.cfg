SPECIFICATION Spec
CONSTANTS
    MaxFrames = 4
    MaxJumps = 1
    MaxDrains = 0
    MaxCalls = 1
    MaxAhead = 1
    Policies = {"playout", "discard"}
    DecodeBuffers = 5
    WorkingBuffers = 3
    OutOfOrderLimit = 13
    MaxDiscarded = 1
    MessageSlots = 1
    RingSize = 16
INVARIANTS TypeOK TableLeavesBuffers
PROPERTIES CallsNotEarly
