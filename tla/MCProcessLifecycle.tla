-------------------------- MODULE MCProcessLifecycle --------------------------
(* ProcessLifecycle for TLC: temperature 1 is the stop target, 2 the start's.   *)
EXTENDS ProcessLifecycle, TLC

MCStopTargets == [temperature_c |-> 1, hold_time_s |-> 1]
MCStartTargets == [temperature_c |-> 2, hold_time_s |-> 1]

HandlerSymmetry == Permutations(Handlers) \cup Permutations(Batches)
=============================================================================
