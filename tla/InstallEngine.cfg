SPECIFICATION EngineSpec
CONSTANTS
    Absent = absent
    Base = base
    Patches = {up1, up2}
    Storages = {sd, nand}
    NcaCount = 2
    MaxHolders = 3
    MaxTasks = 3
    MaxTrouble = 2
INVARIANTS
    TypeOK
    RecordedIsWhole
    InstalledIsListed
    UndoLeavesNothing
    PlaceholdersAreKnown
    OneCopyRemains
SYMMETRY Interchangeable
PROPERTY
    RecordChangesWhole
