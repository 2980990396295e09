---------------------------- MODULE MCControlLoop ----------------------------
(* ControlLoop for TLC.                                                    *)
EXTENDS ControlLoop

MCDefaultTargets == [temperature_c |-> 1, hold_time_s |-> 1]
=============================================================================
