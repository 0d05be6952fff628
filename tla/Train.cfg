SPECIFICATION FairSpec
CONSTANTS
    BURST_MAX_UNISIG = 2
    UINT8 = 4
    Sig <- MCSig
    BURST_MAX_PACKET_INDEX = 3
    Distance <- MCDistance
    BIG_UNISIG = 1
    BIG_PKTNUM = 1
    MAX_BURSTS = 3
    HASH_SHIFTS = 3
    WORD = 12
    Threads = {t1, t2}
    Experiments <- MCExperiments
INVARIANTS
    TypeOK
    NoTaskAfterWait
    Represented
    FiledInPlace
    StaticMapsKeep
PROPERTIES
    TrainEnds
