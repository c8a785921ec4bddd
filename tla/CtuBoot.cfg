SPECIFICATION Spec
CONSTANTS
    NUnits = 2
    Files <- TwoFiles
    Vectors <- LegalVectors
    Blank = 99
    Torn = 98
    TornSaves = TRUE
    Again = FALSE
    MaxFaults = 2
INVARIANTS TypeOK RunsWhole NextStartRuns HostNotNeeded
PROPERTIES CommittedIsTheHosts Settles
