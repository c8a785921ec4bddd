SPECIFICATION LoopSpec
CONSTANTS
    Timers <- TimerNames
    Priority <- TimerPriority
    Period <- TimerPeriod
    Repeat <- TimerRepeat
    Ticks = 7
    MaxLag = 1
    MaxFrames = 5
    Depth = 2
    SlowIsr = TRUE
    Size = 4
    Width = 8
    Chunk = 2
    MaxBytes = 9
    MaxErrors = 1
    QueueSize = 8
    RecordSize = 3
    MaxLines = 6
INVARIANTS
    LoopTypeOK TimersKept FramesKept BytesKept StoredKept
PROPERTIES
    LoopGoesOn
CHECK_DEADLOCK FALSE
