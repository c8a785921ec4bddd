SPECIFICATION Spec
CONSTANTS
    NSectors = 2
    NSlots = 3
    Values = {v1, v2}
    NoValue = NoValue
    NoFrame = NoFrame
    Sampled = {1}
    Reprogram = FALSE
    AllowWipe = FALSE
    MaxVersion = 7
    MaxFaults = 0
INVARIANTS
    TypeOK
    WarmEqualsCold
    NothingNewerHidden
    VersionNamesValue
    LogInv
PROPERTIES
    SaveIsDurable
