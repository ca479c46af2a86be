\* Hybrid confirmation: passive evidence from adverts, and the listen thread and connect loop of handshake while recentDevices_ holds at most HYBRID_LIMIT devices.
CONSTANTS
    r1 = r1
    r2 = r2
    Remotes <- MCRemotes
    Ids <- MCIds
    HYST_SCHEME = 0
    MIN_START_TIME = 1
    MAX_START_TIME = 1
    START_SEEN = 2
    END_TIME = 2
    MEMORY_SCHEME = "Standard"
    CONFIRM_SCHEME = 3
    HYBRID_LIMIT = 1
    RSSI_INTERVAL = 1
    SCAN_EVENTS = 1
SPECIFICATION Spec
SYMMETRY RemoteSymmetry
VIEW ControlView
INVARIANTS
    TypeOK
    IdsReferToDevices
PROPERTIES
    EventLifecycle

