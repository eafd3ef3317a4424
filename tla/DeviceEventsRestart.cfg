SPECIFICATION Spec
CONSTANTS
    Devices = {d1, d2}
    AllDevices = all
    MaxEvents = 3
    MaxHead = 6
    MaxRestarts = 1
SYMMETRY Consoles
INVARIANT RestartForcesResync
