SPECIFICATION LinkSpec
CONSTANTS
    NBlocks = 3
    NFrames = 3
    BlockMod = 1024
    Blank = 99
    BlockTimeout = 0
    SessionTimeout = 5
    Messages <- NoMessages
    FirstMeta <- FactoryApp
    FirstImage <- OldFlash
    MaxFaults = 1
    Image <- LongFile
    HasApp = TRUE
    HostWait = 3
    PollEvery = 2
    MaxRetries = 1
    MaxSlips = 3
    MaxStalls = 2
INVARIANTS SumsTell
CHECK_DEADLOCK FALSE
