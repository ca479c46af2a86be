\* The BT4 and the BT2 advert channels across sender epochs.
CONSTANTS
    RADIOS = {"BT4", "BT2"}
    BT4_ADV_N = 8
    RS_K = 3
    BF_B = 2
    CUR_SLACK = 4
    BT4_EPOCH_TICKS = 8
    FIRST_DISCOVER = 1
    BT4_EXPIRE_TICKS = 6
    CONFIRM_UNITS = 1
    BT2_ADV_N = 6
    BT2_EPOCH_TICKS = 6
    BT2_EXPIRE_TICKS = 4
INIT Init
NEXT Next
CONSTRAINT TimeBound
INVARIANTS TypeOK NoEpochMixing MatchingSound  BT2DuplicateOnlyIfRepeated
