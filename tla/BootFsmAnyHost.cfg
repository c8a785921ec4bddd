SPECIFICATION Spec
CONSTANTS
    NBlocks = 2
    NFrames = 2
    BlockMod = 4
    Blank = 9
    BlockTimeout = 1
    SessionTimeout = 2
    Messages <- AnyMessages
    FirstMeta <- FactoryApp
    FirstImage <- OldFlash
    MaxFaults = 1
INVARIANTS TypeOK AheadBlank
PROPERTIES CommitVerified SilenceEndsSession
