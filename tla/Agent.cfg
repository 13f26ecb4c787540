SPECIFICATION AgentSpec
CONSTANTS
    MaxQueue = 3
    BatchSize = 2
    MaxRetries = 2
    MaxEvents = 5
    MaxSize = 1
    Exits = TRUE
    DiskFull = TRUE
    Processes = {p1, p2}
    Releases <- Versions
    Platforms = {"systemd", "launchd", "windows"}
    Machines = {m1, m2}
    None = None
INVARIANTS
    TypeOK
    QueueBounded
    QueueInOrder
    OnlyOldestGivenUp
    
PROPERTIES
    DeliversOrGivesUpOldest
    CollectorComesBack
    UpdatesSettle
