\* An unlock in flight against a manual lock engaged after its re-check.
SPECIFICATION Spec
CONSTANTS
    Requests = {r1}
    Kinds = {"unlock"}
    Batches = {}
    Temperatures = {1}
    Recipes = {1}
    GenerationLimit = 2
    Samples = {"fresh"}
    Statuses = {"healthy"}
    MaxRestarts = 0
    NoBatch = NoBatch
    DefaultTargets <- MCDefaultTargets
    ManualLockDefault = FALSE
    RequireDeviceStatus = TRUE
PROPERTIES
    UnlockClearsAcknowledgedLock
