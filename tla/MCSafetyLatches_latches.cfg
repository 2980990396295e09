\* One request of any kind and production batches, with latches, a dying loop and a crash.
SPECIFICATION Spec
CONSTANTS
    Requests = {r1}
    Kinds = {"auto_on", "unlock", "fault_reset", "estop_reset", "targets"}
    Batches = {b1}
    Temperatures = {1}
    Recipes = {1, 2}
    GenerationLimit = 2
    Samples = {"fresh"}
    Statuses = {"healthy", "command"}
    MaxRestarts = 1
    NoBatch = NoBatch
    DefaultTargets <- MCDefaultTargets
    ManualLockDefault = FALSE
    RequireDeviceStatus = TRUE
INVARIANTS
    TypeOK
    InheritedBatchHoldsFault
    AutoOnlyOnSafeField
    GenerationsRecordEngagements
PROPERTIES
    OperatorTargetsKeepRecipe
    ResetClearsAcknowledgedLatch
    ImplementsGate
