\* A finish of the batch whose start is in flight.
SPECIFICATION Spec
CONSTANTS
    Batches = {b1}
    NoBatch = NoBatch
    Temperatures = {1, 2}
    Recipes = {1}
    DefaultTargets <- MCStopTargets
    ManualLockDefault = FALSE
    RequireDeviceStatus = TRUE
    GenerationLimit = 0
    Handlers = {x1, x2}
    Kinds = {"process", "finish"}
    StartTargets <- MCStartTargets
    StopTargets <- MCStopTargets
    FinishDuringStart = TRUE
    MaxGone = 0
    MaxRestarts = 0
PROPERTIES
    ClearedBatchIsStopped
