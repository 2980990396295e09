---------------------------- MODULE RuntimeState ----------------------------
(***************************************************************************)
(* The runtime record every task of the daemon shares behind one RwLock    *)
(* (RuntimeState in state.rs), the methods that change it, and the         *)
(* predicates the HTTP handlers and the control loop evaluate on it.       *)
(*                                                                         *)
(* Each operator takes the record and returns the record after the method, *)
(* so that an action that holds the write lock is  rt' = method(rt).       *)
(*                                                                         *)
(* Abstractions of data: an error string is the Boolean "is Some"; a       *)
(* sample is one of SampleView, a status one of StatusView, which keep     *)
(* what the code tests and nothing else.                                   *)
(***************************************************************************)
EXTENDS Integers

CONSTANTS
    Batches,              \* ids of production batches
    NoBatch,              \* active_batch_id = None
    Temperatures,         \* values of the operator-set part of the targets
    Recipes,              \* values of the part of the targets only a process sets
    DefaultTargets,       \* the targets RuntimeState::from_safety starts with
    ManualLockDefault,    \* safety.control.manual_lock_default
    RequireDeviceStatus,  \* safety.control.require_device_status_for_control
    GenerationLimit       \* largest generation value (u64::MAX in the code)

(***************************************************************************)
(* ControlTargets: the field an operator request replaces (temperature_c   *)
(* stands for it, stirrer_rpm and shake_speed_cpm) and the field it merges *)
(* from the current targets (hold_time_s stands for the recipe times).     *)
(***************************************************************************)
ControlTargets == [temperature_c : Temperatures, hold_time_s : Recipes]

ASSUME BatchAssumption == NoBatch \notin Batches
ASSUME TargetAssumption == DefaultTargets \in ControlTargets
ASSUME FlagAssumption == ManualLockDefault \in BOOLEAN /\ RequireDeviceStatus \in BOOLEAN
ASSUME LimitAssumption ==
    GenerationLimit \in Nat /\ (ManualLockDefault => GenerationLimit > 0)

(***************************************************************************)
(* latest_sample: None; inside the freshness window; inside the window but *)
(* at a point from which the ramped command enters a forbidden zone; or    *)
(* outside the window (too old, or stamped in the future).                 *)
(***************************************************************************)
SampleView == {"none", "fresh", "zone", "stale"}

(***************************************************************************)
(* device_status: None; healthy; with a field fault (disconnected, bad     *)
(* frame, last_seen missing, old or in the future); with last_command_ok = *)
(* Some(false); or with both.                                              *)
(***************************************************************************)
StatusView == {"none", "healthy", "field", "command", "both"}

BatchIds == Batches \cup {NoBatch}

RuntimeStates ==
    [latest_sample : SampleView,
     targets : ControlTargets,
     auto_enabled : BOOLEAN,
     manual_lock : BOOLEAN,
     manual_lock_generation : 0..GenerationLimit,
     emergency_stop : BOOLEAN,
     emergency_stop_generation : 0..GenerationLimit,
     active_batch_id : BatchIds,
     last_sensor_error : BOOLEAN,
     last_control_error : BOOLEAN,
     control_loop_terminated : BOOLEAN,
     control_fault_generation : 0..GenerationLimit,
     device_status : StatusView]

-----------------------------------------------------------------------------
(* Methods of RuntimeState.                                                *)

\* Mutant: a plain addition, which leaves the width.
unchecked_inc(n) == n + 1

\* u64::saturating_add(1), at the width the model gives a generation.
saturating_inc(n) == IF n < GenerationLimit THEN n + 1 ELSE n

from_safety ==
    [latest_sample |-> "none",
     targets |-> DefaultTargets,
     auto_enabled |-> FALSE,
     manual_lock |-> ManualLockDefault,
     manual_lock_generation |-> IF ManualLockDefault THEN 1 ELSE 0,
     emergency_stop |-> FALSE,
     emergency_stop_generation |-> 0,
     active_batch_id |-> NoBatch,
     last_sensor_error |-> FALSE,
     last_control_error |-> FALSE,
     control_loop_terminated |-> FALSE,
     control_fault_generation |-> 0,
     device_status |-> "none"]

disable_auto(s) == [s EXCEPT !.auto_enabled = FALSE]

disable_auto_for_field_fault(s) ==
    [s EXCEPT !.last_sensor_error = TRUE, !.auto_enabled = FALSE]

reject_unpersisted_sample_with_status(s, status) ==
    disable_auto_for_field_fault(
        [s EXCEPT !.latest_sample = "none", !.device_status = status])

latch_control_fault(s) ==
    [s EXCEPT !.control_fault_generation = saturating_inc(@),
              !.last_control_error = TRUE,
              !.auto_enabled = FALSE]

enforce_control_fault_fail_closed(s) ==
    IF s.last_control_error THEN disable_auto(s) ELSE s

clear_control_fault(s) ==
    [s EXCEPT !.last_control_error = FALSE, !.auto_enabled = FALSE]

engage_manual_lock(s) ==
    [s EXCEPT !.manual_lock = TRUE,
              !.manual_lock_generation = saturating_inc(@),
              !.auto_enabled = FALSE]

clear_manual_lock(s) ==
    [s EXCEPT !.manual_lock = FALSE, !.auto_enabled = FALSE]

\* Mutant: the generation is left alone.
engage_emergency_stop_without_generation(s) ==
    [s EXCEPT !.emergency_stop = TRUE, !.auto_enabled = FALSE]

engage_emergency_stop(s) ==
    [s EXCEPT !.emergency_stop = TRUE,
              !.emergency_stop_generation = saturating_inc(@),
              !.auto_enabled = FALSE]

clear_emergency_stop(s) ==
    [s EXCEPT !.emergency_stop = FALSE, !.auto_enabled = FALSE]

\* Mutant: the monitor marks the loop dead without latching.
terminate_control_loop_unlatched(s) ==
    [s EXCEPT !.control_loop_terminated = TRUE, !.auto_enabled = FALSE]

\* What the monitor task of main.rs does when the control-loop task has ended.
terminate_control_loop(s) ==
    latch_control_fault([s EXCEPT !.control_loop_terminated = TRUE])

-----------------------------------------------------------------------------
(* Views of the field, and the interlocks.                                 *)

device_status_field_fault(status) == status \in {"field", "both"}

downstream_command_fault(status) == status \in {"command", "both"}

\* Mutant: a failed downstream command is recorded but not acted on.
accept_sample_ignoring_command(s, sample, status) ==
    LET accepted == [s EXCEPT !.latest_sample = sample,
                              !.last_sensor_error = FALSE,
                              !.device_status = status]
    IN  IF device_status_field_fault(status)
        THEN disable_auto_for_field_fault(accepted)
        ELSE accepted

(***************************************************************************)
(* The field part of accept_sample_and_audit_faults: a field fault only    *)
(* disables automatic control, a downstream command fault latches; the     *)
(* first of the two wins.                                                  *)
(***************************************************************************)
accept_sample(s, sample, status) ==
    LET accepted == [s EXCEPT !.latest_sample = sample,
                              !.last_sensor_error = FALSE,
                              !.device_status = status]
    IN  IF device_status_field_fault(status)
        THEN disable_auto_for_field_fault(accepted)
        ELSE IF downstream_command_fault(status)
        THEN latch_control_fault(accepted)
        ELSE accepted

\* A reading that was refused, not persisted or never arrived.
reject_sample(s, status) ==
    LET rejected == reject_unpersisted_sample_with_status(s, status)
    IN  IF downstream_command_fault(status)
        THEN latch_control_fault(rejected)
        ELSE rejected

ensure_fresh_sample(s) ==
    ~s.last_sensor_error /\ s.latest_sample \in {"fresh", "zone"}

ensure_proven_healthy_device_status(s) ==
    \/ s.device_status = "healthy"
    \/ s.device_status = "none" /\ ~RequireDeviceStatus

ensure_target_update_interlock_clear(s) ==
    /\ ~s.emergency_stop
    /\ ~s.manual_lock
    /\ ~s.last_control_error
    /\ ensure_proven_healthy_device_status(s)
    /\ ensure_fresh_sample(s)

(***************************************************************************)
(* UnfinishedBatchStatus: the rows of the database without an end time     *)
(* against the batch the runtime believes active.                          *)
(***************************************************************************)
recovery_required(unfinished, active) ==
    \/ \E b \in unfinished : b # active
    \/ active # NoBatch /\ active \notin unfinished

ensure_manual_unlock_interlock_clear(s, unfinished) ==
    /\ ~s.emergency_stop
    /\ ~s.last_control_error
    /\ ~recovery_required(unfinished, s.active_batch_id)
    /\ ensure_proven_healthy_device_status(s)
    /\ ensure_fresh_sample(s)

\* Mutant: a reset is allowed while a batch is still active.
ensure_reset_allowed_in_batch(s, unfinished) ==
    /\ ~recovery_required(unfinished, s.active_batch_id)
    /\ ensure_fresh_sample(s)
    /\ ensure_proven_healthy_device_status(s)

\* The checks shared by the two resets.
ensure_reset_allowed(s, unfinished) ==
    /\ s.active_batch_id = NoBatch
    /\ ~recovery_required(unfinished, s.active_batch_id)
    /\ ensure_fresh_sample(s)
    /\ ensure_proven_healthy_device_status(s)

-----------------------------------------------------------------------------
Latches == {"manual_lock", "emergency_stop", "control_fault"}

\* The latches that are engaged in the record, by name.
EngagedLatches(s) ==
    {k \in Latches : \/ k = "manual_lock" /\ s.manual_lock
                     \/ k = "emergency_stop" /\ s.emergency_stop
                     \/ k = "control_fault" /\ s.last_control_error}

(***************************************************************************)
(* SafetyLatchGenerations: what a handler remembers of the three latches   *)
(* when it checks the field, to find out later whether one of them was     *)
(* engaged in between, even if it has been cleared again.                  *)
(***************************************************************************)
SafetyLatchGenerations ==
    [manual_lock : 0..GenerationLimit,
     emergency_stop : 0..GenerationLimit,
     control_fault : 0..GenerationLimit]

from_runtime(s) ==
    [manual_lock |-> s.manual_lock_generation,
     emergency_stop |-> s.emergency_stop_generation,
     control_fault |-> s.control_fault_generation]

changed_since(acknowledged, s) == acknowledged # from_runtime(s)

(***************************************************************************)
(* recover_runtime_from_db: the runtime of a fresh process.  "first" is    *)
(* the first row of the unfinished batches (NoBatch when there is none):   *)
(* it becomes the active batch and a control fault is latched.             *)
(***************************************************************************)
recover_runtime_from_db(first) ==
    IF first = NoBatch
    THEN from_safety
    ELSE latch_control_fault([from_safety EXCEPT !.active_batch_id = first])
=============================================================================
