\* Active confirmation: a message queued by the listen thread, then changeEpoch,
\* then the handshake that drains the queue.
CONSTANTS
    r1 = r1
    r2 = r2
    Remotes <- MCOneRemote
    Ids <- MCOneId
    HYST_SCHEME = 0
    MIN_START_TIME = 1
    MAX_START_TIME = 1
    START_SEEN = 2
    END_TIME = 2
    MEMORY_SCHEME = "Standard"
    CONFIRM_SCHEME = 2
    HYBRID_LIMIT = 1
    RSSI_INTERVAL = 1
    SCAN_EVENTS = 1
SPECIFICATION Spec

INVARIANTS
    ActiveSecretsShared
