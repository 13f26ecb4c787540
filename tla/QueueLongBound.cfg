SPECIFICATION Spec
CONSTANTS
    MaxQueue = 2
    BatchSize = 2
    MaxRetries = 1
    MaxEvents = 4
    MaxSize = 2
    Exits = FALSE
    DiskFull = FALSE
INVARIANT
    QueueBounded
