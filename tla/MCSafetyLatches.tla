--------------------------- MODULE MCSafetyLatches ---------------------------
(***************************************************************************)
(* SafetyLatches for TLC: one batch id, one or two recipes, and the field  *)
(* values that make every refusal of the handlers happen.                  *)
(***************************************************************************)
EXTENDS SafetyLatches

MCDefaultTargets == [temperature_c |-> 1, hold_time_s |-> 1]
=============================================================================
