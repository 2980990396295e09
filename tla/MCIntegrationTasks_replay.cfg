\* Two posts of one external id, both between the claim of the task and its outcome.
SPECIFICATION TasksSpec
CONSTANTS
    HttpCallers = {h1, h2}
    Bridge = bridge
    ExternalIds = {"e1"}
    NoId = NoId
    Payloads <- MCPayloads
    LegacyTables <- MCLegacyTables
    MaxTasks = 1
    QueueCapacity = 1
    MaxCrashes = 0
    OverlappingReplays = TRUE
INVARIANT TaskActsAtMostOnce
CHECK_DEADLOCK FALSE
