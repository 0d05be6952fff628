SPECIFICATION Spec
CONSTANTS
    Vote <- MCVote
    Type <- MCType
    NEAR = 5
    MIN_OUTPERFORM = 1
    MIN_BLOCK_PKTNUM = 2
    Threads = {t1, t2}
    Series <- MCSeries
SYMMETRY Symmetry
INVARIANTS
    ChoosesAgain
