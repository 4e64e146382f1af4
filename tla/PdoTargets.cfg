SPECIFICATION Spec
CONSTANTS
    Devices <- MCDevices
INVARIANTS
    EntriesIdentifyTheirTargets
CHECK_DEADLOCK FALSE
