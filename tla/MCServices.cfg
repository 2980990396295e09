\* Each service on its own, with the failures and the overlapping callers its code meets.
\* A part that used up its bounds stops.
SPECIFICATION ServicesSpec
CONSTANTS
    HttpCallers = {h1, h2}
    Bridge = bridge
    ExternalIds = {"e1"}
    NoId = NoId
    Payloads <- MCPayloads
    LegacyTables <- MCLegacyTables
    MaxTasks = 2
    QueueCapacity = 1
    MaxCrashes = 1
    OverlappingReplays = FALSE
    StoreCallers = {c1, c2}
    Statuses = {"archived"}
    MaxEvents = 3
    MaxRecipes = 1
    MaxSteps = 2
    MaxBatches = 1
    CheckLimit = 2
    MaxDamage = 1
    Accounts = {"operator"}
    Passwords <- MCPasswords
    EnvPassword <- MCEnvPassword
    Secrets = {1, 2}
    StrongSecrets = {1}
    ChangeCalls = {p1, p2}
    SessionHours = 1
    MaxHours = 2
    MaxStarts = 1
    MaxSessions = 2
    MaxChanges = 2
    DataKeys = {"k1", "k2"}
    MaxVersions = 2
    MaxCommands = 3
    MaxKilled = 1
    MaxRot = 1
    ControlCalls = {q1, q2}
    Temps = {0, 1}
    Rpms = {0, 1}
    Forbidden <- MCForbidden
    Advice <- MCAdvice
    StopSet <- MCStopSet
    MaxLatchings = 1
    MaxDropped = 1
    MaxCalls = 2
    NoBatch = NoBatch
    GateRequests = {r1, r2}
INVARIANTS
    ServicesTypeOK
    TaskActsAtMostOnce
    EffectIsAccountedFor
    ChainUnbroken
    RowsMatchAudit
    BackupPairMatches
    NoForbiddenPair
PROPERTIES
    NoLatchSlipsPastACommit
    ChainStatusIsTrue
    ImplementsLedger
    AccountsAreGuarded
    CommandsKeepData
    UncommittedWriteIsLatched
CHECK_DEADLOCK FALSE
