SPECIFICATION Spec
CONSTANTS
    Buffers = {b1, b2}
    Kinds = {"frame", "first", "second"}
    MaxPictures = 3
    MaxReferences = 1
    MaxDrains = 1
    MaxFailures = 0
    FailsAt = {}
    Serialized = FALSE
    None = None
SYMMETRY BufferSymmetry
CHECK_DEADLOCK FALSE
INVARIANTS OutputOnce
