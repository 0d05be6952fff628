SPECIFICATION FairSpec
CONSTANTS
    BURST_MAX_UNISIG = 3
    BURST_MAX_PACKET_INDEX = 4
    UNISIG_RANGE = 2
    PACKETNUM_RANGE = 2
    UINT8 = 8
    FAR = 9
    MIN_BLOCK_PKTNUM = 2
    Threads = {t1, t2, t3}
    Distance <- MCDistance
    Experiments <- MCExperiments
INVARIANTS
    TypeOK
    NoTaskAfterWait
PROPERTIES
    OracleSpec
    ExperimentsEnd
