SPECIFICATION LogSpec
CONSTANTS
    QueueSize = 4
    RecordSize = 3
    MaxLines = 4
INVARIANTS
    FullQueueDropsNew
CHECK_DEADLOCK FALSE
