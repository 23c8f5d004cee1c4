SPECIFICATION Spec
CONSTANTS
    Buffers = {b1, b2}
    Kinds = {"frame", "first", "second"}
    MaxPictures = 3
    MaxReferences = 1
    MaxDrains = 1
    MaxFailures = 1
    FailsAt = {"fill","send"}
    Serialized = TRUE
    None = None
SYMMETRY BufferSymmetry
CHECK_DEADLOCK FALSE
INVARIANTS TypeOK ReferencesExact DecodesReadWhatTheyName OutputOnce MarkerNotForgotten MarkerAfterDecodes
