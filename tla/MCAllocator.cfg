SPECIFICATION FairSpec
CONSTANTS
    Threads = {c, p, q}
    Allocators = {c}
    Freers = {p, q}
    BufferSize = 6
    PhysicalAddress = 11
    Boundary = 4
    MaxBlocks = 5
    AllocationUnit = 2
    Collators = {TRUE, FALSE}
    RequestSizes = {2, 3}
    None = None
INVARIANTS TypeOK NoOverlap NothingLost Coalesced NeverCrosses SleepsForAReason EarlierCallsLeft
PROPERTIES DeleteCompletes
CHECK_DEADLOCK FALSE
