SPECIFICATION Spec
CONSTANTS
    BURST_MAX_UNISIG = 2
    UINT8 = 4
    Sig = {1, 2}
    BURST_MAX_INTERVAL = 3
    BURST_MAX_DURATION = 1
    Label = "camera"
    Flows = {1, 2}
    Seconds = {1, 3, 4, 5, 7}
    MaxPackets = 5
    Packets <- MCPackets
INVARIANTS
    Conserved
    StrictInputs
    Trainable
    FrontStamp
