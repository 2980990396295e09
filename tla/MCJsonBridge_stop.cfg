\* An emergency stop of a reactor the loop was driving.
SPECIFICATION BridgeSpec
CONSTANTS
    LoopTargets <- MCLoopTargets
    HttpTargets <- MCStopTargets
    StopTargets <- MCStopTargets
    MinSpeed = 1
    MaxSpeed = 2
    CpmDelay = 2
    Setups <- MCSetups
    MaxTemp = 2
    speed_deadband_cpm = 0
    temperature_deadband_c = 0
    MaxHttpWrites = 1
    MaxMishaps = 1
    MaxResets = 1
INVARIANT StopReachesEveryActuator
CHECK_DEADLOCK FALSE
