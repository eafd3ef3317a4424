SPECIFICATION FairSpec
CONSTANTS
    Slots = 2
    NoError = none
    Chunks = 4
    MaxAttempts = 2
    MaxTroubles = 2
INVARIANTS
    TypeOK
    WrittenInOrder
    FirstErrorIsTold
PROPERTIES
    PipelineEnds
    CancelEnds
