SPECIFICATION Spec
CONSTANTS
    Devices = {1, 2}
    Seconds = {3, 5, 6, 12}
    MaxPackets = 5
    TIMESLOT = 3
    TRAIN_PERCENT = 40
INVARIANTS
    WholeSlots
    TrainsOnThePast
    EveryDeviceTrains
