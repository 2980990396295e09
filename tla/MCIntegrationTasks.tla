-------------------------- MODULE MCIntegrationTasks --------------------------
(* IntegrationTasks for TLC, on its own.                                   *)
EXTENDS IntegrationTasks

MCPayloads == {[action |-> "set_targets", process |-> FALSE, content |-> 1]}
MCLegacyTables == {<<>>}
=============================================================================
