SPECIFICATION Spec
CONSTANTS
    DatasetInfo <- MCDatasetInfo
    DefaultFolder = "F:/UNSW"
    ArgArrays <- MCArgArrays
    DatasetNames <- MCDatasetNames
    UINT16 = 8
    MaxRestarts = 2
INVARIANTS
    NeverLoadsPartial
    RightData
    IdsNameDevices
    ConverterAgrees
    EveryExperimentOnce
