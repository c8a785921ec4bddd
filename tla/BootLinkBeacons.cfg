SPECIFICATION LinkSpec
CONSTANTS
    NBlocks = 2
    NFrames = 3
    BlockMod = 16
    Blank = 99
    BlockTimeout = 0
    SessionTimeout = 5
    Messages <- NoMessages
    FirstMeta <- NoApp
    FirstImage <- OldFlash
    MaxFaults = 1
    Image <- ShortFile
    HasApp = FALSE
    HostWait = 3
    PollEvery = 2
    MaxRetries = 1
    MaxSlips = 1
    MaxStalls = 1
PROPERTIES UpgradeEnds
CHECK_DEADLOCK FALSE
