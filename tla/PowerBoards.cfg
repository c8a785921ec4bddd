SPECIFICATION BoardsSpec
CONSTANTS
    Volts = {30, 48, 62, 70}
    VinMin = 36
    VinMax = 60
    OvTrip = 65
    OvTicks = 3
    SettleTicks = 2
    PgdTicks = 2
    Div = 2
    Grace = 3
    LossTicks = 1
    Lsds = {"LSD1"}
    EnSettle = 1
    Ready = 2
    Loss = 2
    Timeout <- SlaveTimeout
    AuxLoss = 2
    SlaveDiv = 2
    Samples <- PowerSamples
    Steady = 2
    Handover = 3
    Discharge = 3
    EnClear = 2
    Phase2 = 1
    Phase3 = 1
    Phase4 = 4
    NoLoadAt = 2
    Recover = 2
    RetryMax = 2
    Commands = {"read", "upgrade"}
    Value <- ByteValues
    Reads = {4, 18}
    Remains <- CutRequests
    MaxParse = 2
    MaxRequests = 8
    MaxFaults = 1
    Patience = 5
INVARIANTS
    BoardsTypeOK MasterRails RecordsAgree AuxLossLatchesAlone SupplyIsSafe CommandsKept
PROPERTIES
    WindowsKept FaultTripIsFinal BoardsPowerUp
