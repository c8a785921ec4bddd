SPECIFICATION Spec
CONSTANTS
    NSectors = 2
    NSlots = 2
    Values = {v1, v2}
    NoValue = NoValue
    NoFrame = NoFrame
    Sampled = {1}
    Reprogram = FALSE
    AllowWipe = FALSE
    MaxVersion = 3
    MaxFaults = 0
INVARIANTS
    OnlyTornSaveLost
