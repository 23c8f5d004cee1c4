SPECIFICATION FairSpec
CONSTANTS
    Inserters = {w1, w2}
    Extractors = {r1}
    Flushers = {w1}
    Values = {v1, v2}
    MaxEntries = 2
    NoError = NoError
    TooManyEntries = TooManyEntries
    NothingToGet = NothingToGet
    Unknown = Unknown
    None = None
INVARIANTS TypeOK NoLostWakeUp
PROPERTIES ImplementsFifo ExtractEnds
