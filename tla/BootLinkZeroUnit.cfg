SPECIFICATION LinkSpec
CONSTANTS
    NBlocks = 1
    NFrames = 3
    BlockMod = 16
    Blank = 99
    BlockTimeout = 0
    SessionTimeout = 5
    Messages <- NoMessages
    FirstMeta <- FactoryApp
    FirstImage <- OldFlash
    MaxFaults = 0
    Image <- ZeroFile
    HasApp = TRUE
    HostWait = 3
    PollEvery = 2
    MaxRetries = 1
    MaxSlips = 1
    MaxStalls = 1
INVARIANTS BlocksAreTheHosts
CHECK_DEADLOCK FALSE
