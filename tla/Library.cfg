SPECIFICATION FairSpec
CONSTANTS
    Paths = {p, q}
    Stamps = {v, w}
    Nothing = nothing
    Flushes = {f}
    MaxKeys = 1
    MaxFiles = 1
    MaxEvents = 2
INVARIANT LibraryTypeOK
INVARIANT OkIsTold
PROPERTY LibraryConverges
