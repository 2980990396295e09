\* A start whose device write fails half-way.
SPECIFICATION Spec
CONSTANTS
    Batches = {b1}
    NoBatch = NoBatch
    Temperatures = {1, 2}
    Recipes = {1}
    DefaultTargets <- MCStopTargets
    ManualLockDefault = FALSE
    RequireDeviceStatus = TRUE
    GenerationLimit = 0
    Handlers = {x1}
    Kinds = {"v1"}
    StartTargets <- MCStartTargets
    StopTargets <- MCStopTargets
    FinishDuringStart = FALSE
    MaxGone = 0
    MaxRestarts = 0
INVARIANTS
    FailedStartNeverCommanded
