\* An emergency stop against a write that has passed the final interlock.
SPECIFICATION Spec
CONSTANTS
    Batches = {}
    NoBatch = NoBatch
    Temperatures = {1}
    Recipes = {1}
    DefaultTargets <- MCDefaultTargets
    ManualLockDefault = FALSE
    RequireDeviceStatus = TRUE
    GenerationLimit = 0
    PipelineModes = {FALSE}
    RequireCommandAck = FALSE
    AckStatuses = {"confirmed"}
    Samples = {"fresh"}
    Statuses = {"healthy"}
    Events = {"estop"}
INVARIANTS
    StoppedDeviceStaysStopped
