SPECIFICATION Spec
CONSTANTS
    Versions = {v, w}
    Gone = gone
    Foreign = foreign
    None = none
    MaxIds = 2
    MaxTasks = 2
    MaxEdits = 2
    MaxRestarts = 1
SYMMETRY Stamps
INVARIANT TypeOK
PROPERTIES
    LastCopySurvives
    InstallKeepsOriginal
    NeverOverAFile
CHECK_DEADLOCK FALSE
