\* A device the loop reads itself, or samples pushed over the API, with every fault of the
\* field and of the daemon.
SPECIFICATION Spec
CONSTANTS
    Batches = {b1}
    NoBatch = NoBatch
    Temperatures = {1, 2}
    Recipes = {1}
    DefaultTargets <- MCDefaultTargets
    ManualLockDefault = FALSE
    RequireDeviceStatus = TRUE
    GenerationLimit = 0
    PipelineModes = {TRUE, FALSE}
    RequireCommandAck = TRUE
    AckStatuses = {"confirmed", "unverified", "rejected", "timeout", "error"}
    Samples = {"fresh", "zone"}
    Statuses = {"healthy", "command", "both"}
    Events = {"auto_off", "lock", "estop", "resets", "targets", "production", "db_error", "audit_error", "guard_error", "sense_error", "panic", "disconnect"}
INVARIANTS
    UnauditedWriteIsLatched
PROPERTIES
    WriteStartsFromLiveState
    ImplementsGate
