SPECIFICATION Spec
CONSTANTS
    Contents = {a, b}
    Mixed = mixed
    Nothing = nothing
    Uploads = {u1, u2}
    Settings = settings
    Keeps = {0, 1}
    MaxIds = 3
    MaxEdits = 2
    MaxTroubles = 1
SYMMETRY Interchangeable
INVARIANTS
    TypeOK
    BackupsAreWhole
    RestoreCanBeUndone
PROPERTIES
    ReportedIsStored
    PinnedIsKept
