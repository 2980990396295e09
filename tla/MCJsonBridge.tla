----------------------------- MODULE MCJsonBridge -----------------------------
(* JsonBridge for TLC, on its own: a warm, moving reactor and its stop.    *)
EXTENDS JsonBridge

MCLoopTargets == {[shake |-> 2, temp |-> 2, stir |-> 1]}
MCStopTargets == {[shake |-> 0, temp |-> 0, stir |-> 0]}
MCSetups == [speed : {"cpm"}, relay_temperature_control : {TRUE}]
=============================================================================
