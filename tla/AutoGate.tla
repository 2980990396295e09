------------------------------ MODULE AutoGate ------------------------------
(***************************************************************************)
(* What the daemon promises about automatic control, whatever the tasks    *)
(* that share the runtime record do: automatic control is a gate that only *)
(* opens while no safety latch is engaged, that every latch closes, and    *)
(* that releasing a latch never opens again by itself.  A control loop     *)
(* that has died keeps the fault latched until the process restarts.       *)
(***************************************************************************)
EXTENDS Naturals

VARIABLES
    auto,     \* automatic control is enabled
    latched,  \* the safety latches that are engaged
    dead,     \* the control-loop task has terminated
    epoch     \* how often the process has been restarted

gate == <<auto, latched, dead, epoch>>

Latches == {"manual_lock", "emergency_stop", "control_fault"}

Init ==
    /\ auto = FALSE
    /\ latched \in SUBSET Latches
    /\ dead = FALSE
    /\ epoch = 0

\* An operator or a start request enables automatic control.
Enable ==
    /\ latched = {}
    /\ auto' = TRUE
    /\ UNCHANGED <<latched, dead, epoch>>

Disable ==
    /\ auto' = FALSE
    /\ UNCHANGED <<latched, dead, epoch>>

\* A latch engages, or engages again.
Engage(k) ==
    /\ latched' = latched \cup {k}
    /\ auto' = FALSE
    /\ UNCHANGED <<dead, epoch>>

Release(k) ==
    /\ k = "control_fault" => ~dead
    /\ latched' = latched \ {k}
    /\ auto' = FALSE
    /\ UNCHANGED <<dead, epoch>>

Terminate ==
    /\ dead' = TRUE
    /\ latched' = latched \cup {"control_fault"}
    /\ auto' = FALSE
    /\ UNCHANGED epoch

\* A new process: its latches are those of its configuration and recovery.
Restart ==
    /\ epoch' = epoch + 1
    /\ auto' = FALSE
    /\ latched' \in SUBSET Latches
    /\ dead' = FALSE

Next ==
    \/ Enable
    \/ Disable
    \/ \E k \in Latches : Engage(k) \/ Release(k)
    \/ Terminate
    \/ Restart

Spec == Init /\ [][Next]_gate
=============================================================================
