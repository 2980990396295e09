\* Two requests of every kind in flight, a crash, and every failure of device and database.
SPECIFICATION Spec
CONSTANTS
    Batches = {b1, b2, b3}
    NoBatch = NoBatch
    Temperatures = {1, 2}
    Recipes = {1}
    DefaultTargets <- MCStopTargets
    ManualLockDefault = FALSE
    RequireDeviceStatus = TRUE
    GenerationLimit = 0
    Handlers = {x1, x2}
    Kinds = {"process", "batch", "v1", "stop", "finish"}
    StartTargets <- MCStartTargets
    StopTargets <- MCStopTargets
    FinishDuringStart = FALSE
    MaxGone = 1
    MaxRestarts = 1
SYMMETRY HandlerSymmetry
INVARIANTS
    StartsExclude
    RunHasAnOwner
    RunIsOnRecord
    StrayStartIsLatched
PROPERTIES
    ClearedBatchIsStopped
    FailedStopBlocksProduction
    ImplementsGate
