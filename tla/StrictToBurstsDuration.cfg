SPECIFICATION StrictSpec
CONSTANTS
    BURST_MAX_UNISIG = 2
    UINT8 = 4
    Sig = {1, 2, 3}
    BURST_MAX_INTERVAL = 2
    BURST_MAX_DURATION = 2
    Label = "camera"
    MaxSec = 6
    MaxPackets = 4
    Packets <- MCPackets
INVARIANT DurationWithinMax
