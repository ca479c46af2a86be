\* Default schemes, one remote, longer thresholds (minStart 2, maxStart 2,
\* endTime 4 cycles, startSeen 3): every device of a remote that left is forgotten.
CONSTANTS
    r1 = r1
    r2 = r2
    Remotes <- MCOneRemote
    Ids <- MCOneId
    HYST_SCHEME = 0
    MIN_START_TIME = 2
    MAX_START_TIME = 2
    START_SEEN = 3
    END_TIME = 4
    MEMORY_SCHEME = "Standard"
    CONFIRM_SCHEME = 1
    HYBRID_LIMIT = 1
    RSSI_INTERVAL = 2
    SCAN_EVENTS = 2
SPECIFICATION Spec

PROPERTIES
    DevicesEventuallyForgotten
