SPECIFICATION LoaderSpec
CONSTANTS
    NBlocks = 2
    NFrames = 1
    BlockMod = 64
    Blank = 99
    BlockTimeout = 0
    SessionTimeout = 1
    Messages <- HostFrames
    FirstMeta <- FactoryOrNone
    FirstImage <- FactoryFlash
    MaxFaults = 1
    Builds <- BothBuilds
    Files <- AllFiles
    Vectors <- LegalVectors
    Torn = 98
    TornSaves = TRUE
    RollbackDelay = 1
    IdleRollback = 2
INVARIANTS LoaderTypeOK RunsWhatIsRecorded CommittedIntact
PROPERTIES AppReturns
