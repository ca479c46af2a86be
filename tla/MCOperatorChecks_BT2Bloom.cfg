\* The Bloom filter of a BT2 advert, as processAdvert builds it, contains
\* the values the sender put in.
SPECIFICATION Spec
CONSTANTS
    OPS <- MCBT2Ops
    BUF_BYTES <- MCBufBytes
    SOURCES <- MCSources
    DESTS <- MCDests
    JUNK <- MCJunk
    ADDR_SIZE <- MCAddrSize
    RAND <- MCRand
    PARTIALS <- MCPartials
    PARTIAL_MASK <- MCPartialMask
    OTHER_KEYS <- MCOtherKeys
    BF_N <- MCBfN
    BF_N_PASSIVE <- MCBfNPassive
    ADVERTISED <- MCAdvertised
    SECRET_SETS <- MCSecretSets
    LAYOUTS <- MCLayouts
    ADVERT_NUMS <- MCAdvertNums
    SEEDS <- MCSeeds
    SIZE <- MCSize
    SOURCE <- MCSource
    SRC_OFFSETS <- MCSrcOffsets
    BYTE_VALUES <- MCByteValues
    OBJ_JUNK <- MCObjJunk
    KEY_SIZES <- MCKeySizes
    BT2_NUMS <- MCBT2Nums
    HASH_SETS <- MCHashSets
    PSI_INPUTS <- MCPSIInputs
    n1 = n1
    n2 = n2
    PSI_NODES <- MCPSINodes
    PSI_PERIODS <- MCPSIPeriods
    RS_DATA_K <- MCRSDataK
    RS_WIDTHS <- MCRSWidths
    RS_MULTS <- MCRSMults
INVARIANT BT2AdvertRoundTrip
\* Every call ends when it returns.
CHECK_DEADLOCK FALSE
