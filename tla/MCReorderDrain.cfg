SPECIFICATION FairSpec
CONSTANTS
    MaxFrames = 4
    MaxJumps = 0
    MaxDrains = 1
    MaxCalls = 0
    MaxAhead = 1
    Policies = {"playout", "discard"}
    DecodeBuffers = 5
    WorkingBuffers = 3
    OutOfOrderLimit = 13
    MaxDiscarded = 1
    MessageSlots = 1
    RingSize = 16
PROPERTIES LeavesInOrder MarkerIsLast MarkersPass
