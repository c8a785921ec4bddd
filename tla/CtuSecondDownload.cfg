SPECIFICATION Spec
CONSTANTS
    NUnits = 2
    Files <- TwoFiles
    Vectors <- LegalVectors
    Blank = 99
    Torn = 98
    TornSaves = FALSE
    Again = TRUE
    MaxFaults = 0
INVARIANTS NextStartRuns
