CONSTANTS
    ADV_N = 8
    RS_K = 3
    BF_B = 2
    CUR_SLACK = 4
    EPOCH_TICKS = 8
    FIRST_DISCOVER = 1
    EXPIRE_TICKS = 6
    CONFIRM_UNITS = 3
INIT Init
NEXT Next
CONSTRAINT TimeBound
INVARIANT EvidenceCountedOnce
