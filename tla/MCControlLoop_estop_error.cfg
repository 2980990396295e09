\* An emergency stop whose device write returns an error.
SPECIFICATION Spec
CONSTANTS
    Batches = {}
    NoBatch = NoBatch
    Temperatures = {1}
    Recipes = {1}
    DefaultTargets <- MCDefaultTargets
    ManualLockDefault = FALSE
    RequireDeviceStatus = TRUE
    GenerationLimit = 0
    PipelineModes = {FALSE}
    RequireCommandAck = FALSE
    AckStatuses = {"confirmed"}
    Samples = {"fresh"}
    Statuses = {"healthy"}
    Events = {"estop"}
PROPERTIES
    FailedStopWriteLatches
