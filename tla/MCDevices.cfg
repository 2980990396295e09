\* Each conversation on its own, under the scheduling the runtime gives it.
\* A part that used up its bounds stops.
SPECIFICATION DevicesSpec
CONSTANTS
    HttpCallers = {h1}
    Bridge = bridge
    ExternalIds = {"e1"}
    NoId = NoId
    Payloads <- MCPayloads
    LegacyTables <- MCLegacyTables
    MaxTasks = 2
    QueueCapacity = 1
    MaxCrashes = 1
    OverlappingReplays = FALSE
    MaxFrames = 3
    MaxLines = 2
    MaxClock = 1
    MaxReboots = 1
    RtuTemperatures = {0, 2, 6, 30}
    Speeds = {0, 3, 5}
    RawMax = 5
    TempReg <- MCTempReg
    StirReg <- MCStirReg
    LoopTargets <- MCLoopTargets
    HttpTargets <- MCStopTargets
    StopTargets <- MCStopTargets
    MinSpeed = 1
    MaxSpeed = 2
    CpmDelay = 2
    Setups <- MCSetups
    MaxTemp = 2
    speed_deadband_cpm = 0
    temperature_deadband_c = 0
    MaxHttpWrites = 1
    MaxMishaps = 1
    MaxResets = 1
    Clients = {"m1", "m2"}
    MaxConnections = 1
    RequireTls = TRUE
    Registers = {"temp", "rpm"}
    Raws = {1, 2}
    RawLimit = 3
    Scale <- MCScale
    Offset <- MCOffset
    Limit <- MCLimit
    MaxWrites = 2
    MaxEngaged = 1
    NoBatch = NoBatch
    Batches = {b1, b2}
    Temperatures = {1, 2}
    Recipes = {1}
    DefaultTargets <- MCDefaultTargets
    ManualLockDefault = FALSE
    RequireDeviceStatus = FALSE
    GenerationLimit = 0
    PipelineModes = {TRUE}
    RequireCommandAck = FALSE
    AckStatuses = {"confirmed", "unverified", "error"}
    Samples = {"fresh", "stale"}
    Statuses = {}
    Events = {"auto_off", "estop", "resets", "audit_error", "sense_error", "panic", "disconnect"}
    Starts = {x1, x2}
INVARIANTS
    DevicesTypeOK
    ConfirmedPairIsHeld
PROPERTIES
    DriversImplementAck
    WriteChangesItsRegister
    CallsReturn
    HandshakeEnds
    BridgeSettles
    SilentClientsAreDropped
    StaleFieldDisablesAuto
    StartSettles
CHECK_DEADLOCK FALSE
