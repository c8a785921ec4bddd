SPECIFICATION Spec
CONSTANTS
    NSectors = 2
    NSlots = 3
    Values = {v1, v2}
    NoValue = NoValue
    NoFrame = NoFrame
    Sampled = {1, 2}
    Reprogram = FALSE
    AllowWipe = TRUE
    MaxVersion = 4
    MaxFaults = 1
INVARIANTS
    SavedWhileSound
SYMMETRY Symmetry
