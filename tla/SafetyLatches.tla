---------------------------- MODULE SafetyLatches ----------------------------
(***************************************************************************)
(* The operator side of automatic control: the HTTP handlers of api.rs     *)
(* that enable automatic control, change the targets and release a safety  *)
(* latch, running concurrently with each other, with the events that       *)
(* engage the latches, with the sensing half of the control loop and with  *)
(* production batches being opened and closed.                             *)
(*                                                                         *)
(* A handler is split where it awaits with the runtime lock released: it   *)
(* checks the field on a clone of the runtime, reads the database, writes  *)
(* its audit row and only then takes the lock again to commit.  What it    *)
(* remembers across the awaits is its record in req.                       *)
(***************************************************************************)
EXTENDS RuntimeState

CONSTANTS
    Requests,      \* slots for requests in flight at the same time
    Kinds,         \* the kinds of request a slot may serve
    Samples,       \* readings the field may deliver
    Statuses,      \* downstream statuses the field may report
    MaxRestarts    \* how often the process may crash and restart

ASSUME KindAssumption ==
    Kinds \subseteq {"auto_on", "unlock", "fault_reset", "estop_reset", "targets"}
ASSUME FieldAssumption ==
    Samples \subseteq SampleView \ {"none"} /\ Statuses \subseteq StatusView
ASSUME RestartAssumption == MaxRestarts \in Nat

VARIABLES
    rt,          \* the shared RuntimeState
    unfinished,  \* batch rows of the database without an end time
    req,         \* what each request in flight remembers
    fired,       \* history: latches engaged since a request acknowledged the field
    inherited,   \* history: the batch this process found unfinished, while it is
    restarts     \* how often the process has restarted

vars == <<rt, unfinished, req, fired, inherited, restarts>>

\* Where a request in flight stands.
Phases == {"idle", "merged", "cloned", "verified", "recloned", "reverified",
           "audited", "rechecked", "listed"}

RequestStates ==
    [kind : Kinds \cup {"none"},
     pc : Phases,
     acknowledged : SafetyLatchGenerations,
     batch : BatchIds,
     wanted : Temperatures,
     current : ControlTargets,
     listed : SUBSET Batches]

Idle ==
    [kind |-> "none",
     pc |-> "idle",
     acknowledged |-> [manual_lock |-> 0, emergency_stop |-> 0, control_fault |-> 0],
     batch |-> NoBatch,
     wanted |-> DefaultTargets.temperature_c,
     current |-> DefaultTargets,
     listed |-> {}]

TypeOK ==
    /\ rt \in RuntimeStates
    /\ unfinished \in SUBSET Batches
    /\ req \in [Requests -> RequestStates]
    /\ fired \in [Requests -> SUBSET Latches]
    /\ inherited \in BatchIds
    /\ restarts \in 0..MaxRestarts

Init ==
    /\ unfinished \in SUBSET Batches
    /\ inherited \in IF unfinished = {} THEN {NoBatch} ELSE unfinished
    /\ rt = recover_runtime_from_db(inherited)
    /\ req = [r \in Requests |-> Idle]
    /\ fired = [r \in Requests |-> {}]
    /\ restarts = 0

-----------------------------------------------------------------------------
(* Bookkeeping of requests.                                                *)

At(r, kind, pc) == req[r].kind = kind /\ req[r].pc = pc

Goto(r, pc) == req' = [req EXCEPT ![r].pc = pc]

\* The handler returns, with or without an error.
Return(r) ==
    /\ req' = [req EXCEPT ![r] = Idle]
    /\ fired' = [fired EXCEPT ![r] = {}]

\* The handler remembers the clone c it took of the runtime, and its generations.
Acknowledge(r, kind, pc, c) ==
    /\ req' = [req EXCEPT ![r] = [@ EXCEPT !.kind = kind,
                                           !.pc = pc,
                                           !.acknowledged = from_runtime(c),
                                           !.batch = c.active_batch_id]]
    /\ fired' = [fired EXCEPT ![r] = {}]

\* Every handler that has acknowledged the field has now been overtaken by latch k.
Fire(k) ==
    fired' = [r \in Requests |->
                 IF req[r].pc \in {"idle", "merged"} THEN fired[r] ELSE fired[r] \cup {k}]

\* Bounds the history: 2^64 engagements of a latch are out of reach.
BelowLimit(generation) == generation < GenerationLimit

KeepRest == UNCHANGED <<unfinished, inherited, restarts>>

-----------------------------------------------------------------------------
(* Engaging a latch: one write lock, never refused.                        *)

EmergencyStop ==
    /\ BelowLimit(rt.emergency_stop_generation)
    /\ rt' = engage_emergency_stop(rt)
    /\ Fire("emergency_stop")
    /\ UNCHANGED req /\ KeepRest

LockManually ==
    /\ BelowLimit(rt.manual_lock_generation)
    /\ rt' = engage_manual_lock(rt)
    /\ Fire("manual_lock")
    /\ UNCHANGED req /\ KeepRest

\* A device write or an audit after one failed, in the loop or in a handler.
LatchControlFault ==
    /\ BelowLimit(rt.control_fault_generation)
    /\ rt' = latch_control_fault(rt)
    /\ Fire("control_fault")
    /\ UNCHANGED req /\ KeepRest

ControlLoopTerminates ==
    /\ ~rt.control_loop_terminated
    /\ BelowLimit(rt.control_fault_generation)
    /\ rt' = terminate_control_loop(rt)
    /\ Fire("control_fault")
    /\ UNCHANGED req /\ KeepRest

SetAutoOff ==
    /\ rt' = disable_auto(rt)
    /\ UNCHANGED <<req, fired>> /\ KeepRest

-----------------------------------------------------------------------------
(* POST /api/control/auto, enabled = true.                                 *)

SetAutoCheck(r) ==
    /\ "auto_on" \in Kinds
    /\ req[r].pc = "idle"
    /\ rt' = disable_auto(rt)
    /\ IF ensure_target_update_interlock_clear(rt)
       THEN Acknowledge(r, "auto_on", "cloned", rt)
       ELSE UNCHANGED <<req, fired>>
    /\ KeepRest

\* Mutant: set_auto commits without comparing the generations.
SetAutoCommitUnguarded(r) ==
    /\ At(r, "auto_on", "audited")
    /\ IF /\ ensure_target_update_interlock_clear(rt)
          /\ ~recovery_required(unfinished, rt.active_batch_id)
       THEN rt' = [rt EXCEPT !.auto_enabled = TRUE]
       ELSE rt' = rt
    /\ Return(r) /\ KeepRest

SetAutoCommit(r) ==
    /\ At(r, "auto_on", "audited")
    /\ IF ~ensure_target_update_interlock_clear(rt)
       THEN rt' = rt
       ELSE IF changed_since(req[r].acknowledged, rt)
       THEN rt' = disable_auto(rt)
       ELSE IF recovery_required(unfinished, rt.active_batch_id)
       THEN rt' = rt
       ELSE rt' = [rt EXCEPT !.auto_enabled = TRUE]
    /\ Return(r) /\ KeepRest

-----------------------------------------------------------------------------
(* POST /api/control/manual-lock, locked = false.                          *)

UnlockCheck(r) ==
    /\ "unlock" \in Kinds
    /\ req[r].pc = "idle"
    /\ rt' = disable_auto(rt)
    /\ IF ~rt.emergency_stop /\ ~rt.last_control_error
          /\ ensure_proven_healthy_device_status(rt) /\ ensure_fresh_sample(rt)
       THEN Acknowledge(r, "unlock", "cloned", rt)
       ELSE UNCHANGED <<req, fired>>
    /\ KeepRest

\* The second evaluation of the interlock, on a clone taken under a read lock.
UnlockCheckAgain(r) ==
    /\ At(r, "unlock", "verified")
    /\ IF ~rt.emergency_stop /\ ~rt.last_control_error
          /\ ensure_proven_healthy_device_status(rt) /\ ensure_fresh_sample(rt)
       THEN /\ req' = [req EXCEPT ![r].pc = "recloned",
                                  ![r].batch = rt.active_batch_id]
            /\ UNCHANGED fired
       ELSE Return(r)
    /\ UNCHANGED rt /\ KeepRest

\* The generation check, under a read lock that is released before the clear.  A
\* refusal is audited; only when that succeeds is automatic control disabled.
UnlockRecheck(r) ==
    /\ At(r, "unlock", "audited")
    /\ IF changed_since(req[r].acknowledged, rt)
       THEN rt' \in {rt, disable_auto(rt)} /\ Return(r)
       ELSE Goto(r, "rechecked") /\ UNCHANGED <<rt, fired>>
    /\ KeepRest

UnlockClear(r) ==
    /\ At(r, "unlock", "rechecked")
    /\ rt' = clear_manual_lock(rt)
    /\ Return(r) /\ KeepRest

-----------------------------------------------------------------------------
(* POST /api/control/fault/reset: both locked sections read the database   *)
(* while they hold the runtime lock.                                       *)

ResetControlFaultCheck(r) ==
    /\ "fault_reset" \in Kinds
    /\ req[r].pc = "idle"
    /\ rt.last_control_error
    /\ ~rt.control_loop_terminated
    /\ rt' = disable_auto(rt)
    /\ IF ensure_reset_allowed(rt, unfinished)
       THEN Acknowledge(r, "fault_reset", "verified", rt)
       ELSE UNCHANGED <<req, fired>>
    /\ KeepRest

\* Mutant: the reset commits without comparing the fault generation.
ResetControlFaultCommitUnguarded(r) ==
    /\ At(r, "fault_reset", "audited")
    /\ IF ensure_reset_allowed(rt, unfinished) /\ rt.last_control_error
       THEN rt' = clear_control_fault(rt)
       ELSE rt' = disable_auto(rt)
    /\ Return(r) /\ KeepRest

ResetControlFaultCommit(r) ==
    /\ At(r, "fault_reset", "audited")
    /\ IF /\ ensure_reset_allowed(rt, unfinished)
          /\ rt.control_fault_generation = req[r].acknowledged.control_fault
          /\ rt.last_control_error
       THEN rt' = clear_control_fault(rt)
       ELSE rt' = disable_auto(rt)
    /\ Return(r) /\ KeepRest

-----------------------------------------------------------------------------
(* POST /api/control/emergency-stop/reset.                                 *)

ResetEmergencyStopCheck(r) ==
    /\ "estop_reset" \in Kinds
    /\ req[r].pc = "idle"
    /\ rt.emergency_stop
    /\ rt' = disable_auto(rt)
    /\ IF rt.active_batch_id = NoBatch
          /\ ensure_fresh_sample(rt) /\ ensure_proven_healthy_device_status(rt)
       THEN Acknowledge(r, "estop_reset", "cloned", rt)
       ELSE UNCHANGED <<req, fired>>
    /\ KeepRest

ResetEmergencyStopCommit(r) ==
    /\ At(r, "estop_reset", "audited")
    /\ IF ~rt.emergency_stop
          \/ rt.emergency_stop_generation # req[r].acknowledged.emergency_stop
       THEN rt' = disable_auto(rt)
       ELSE IF ensure_reset_allowed(rt, unfinished)
       THEN rt' = clear_emergency_stop(rt)
       ELSE \* only the refusal for the device status writes auto_enabled
            IF rt.active_batch_id = NoBatch
               /\ ~recovery_required(unfinished, rt.active_batch_id)
               /\ ensure_fresh_sample(rt)
            THEN rt' = disable_auto(rt)
            ELSE rt' = rt
    /\ Return(r) /\ KeepRest

-----------------------------------------------------------------------------
(* POST /api/control/targets: the current targets are read under a lock of *)
(* their own, before the field is checked, and merged into the new ones.   *)

SetTargetsMerge(r) ==
    /\ "targets" \in Kinds
    /\ req[r].pc = "idle"
    /\ \E t \in Temperatures :
          req' = [req EXCEPT ![r] = [Idle EXCEPT !.kind = "targets", !.pc = "merged",
                                                 !.wanted = t, !.current = rt.targets]]
    /\ UNCHANGED <<rt, fired>> /\ KeepRest

SetTargetsCheck(r) ==
    /\ At(r, "targets", "merged")
    /\ rt' = disable_auto(rt)
    /\ IF ensure_target_update_interlock_clear(rt)
       THEN Acknowledge(r, "targets", "verified", rt)
       ELSE Return(r)
    /\ KeepRest

\* commit_targets_after_final_interlock reads the database before it locks.
SetTargetsList(r) ==
    /\ At(r, "targets", "audited")
    /\ req' = [req EXCEPT ![r].pc = "listed", ![r].listed = unfinished]
    /\ UNCHANGED <<rt, fired>> /\ KeepRest

\* Mutant: the request's own fields are stored without the merge.
UnmergedTargets(r) == [temperature_c |-> req[r].wanted]

MergedTargets(r) == [req[r].current EXCEPT !.temperature_c = req[r].wanted]

\* Mutant: the commit ignores expected_current.
SetTargetsCommitBlind(r) ==
    /\ At(r, "targets", "listed")
    /\ IF ensure_target_update_interlock_clear(rt)
          /\ ~changed_since(req[r].acknowledged, rt)
       THEN rt' = [rt EXCEPT !.targets = MergedTargets(r)]
       ELSE rt' = disable_auto(rt)
    /\ Return(r) /\ KeepRest

SetTargetsCommit(r) ==
    /\ At(r, "targets", "listed")
    /\ IF ~ensure_target_update_interlock_clear(rt)
       THEN rt' = rt
       ELSE IF changed_since(req[r].acknowledged, rt)
       THEN rt' = disable_auto(rt)
       ELSE IF recovery_required(req[r].listed, rt.active_batch_id)
       THEN rt' = rt
       ELSE IF rt.targets # req[r].current
       THEN rt' = disable_auto(rt)
       ELSE rt' = [rt EXCEPT !.targets = MergedTargets(r)]
    /\ Return(r) /\ KeepRest

-----------------------------------------------------------------------------
(* Steps the handlers share.                                               *)

\* unfinished_batch_status on the clone the handler took.
VerifyBatches(r) ==
    /\ req[r].pc \in {"cloned", "recloned"}
    /\ IF recovery_required(unfinished, req[r].batch)
       THEN Return(r)
       ELSE /\ Goto(r, IF req[r].pc = "cloned" THEN "verified" ELSE "reverified")
            /\ UNCHANGED fired
    /\ UNCHANGED rt /\ KeepRest

\* insert_control_event_sqlx succeeds, or fails and ends the handler.
Audit(r) ==
    /\ req[r].pc = IF req[r].kind = "unlock" THEN "reverified" ELSE "verified"
    /\ \/ Goto(r, "audited") /\ UNCHANGED fired
       \/ Return(r)
    /\ UNCHANGED rt /\ KeepRest

\* The client goes away: the server drops the handler at the await it has reached.
Disconnect(r) ==
    /\ req[r].pc # "idle"
    /\ Return(r)
    /\ UNCHANGED rt /\ KeepRest

RequestStep(r) ==
    \/ SetAutoCheck(r) \/ SetAutoCommit(r)
    \/ UnlockCheck(r) \/ UnlockCheckAgain(r) \/ UnlockRecheck(r) \/ UnlockClear(r)
    \/ ResetControlFaultCheck(r) \/ ResetControlFaultCommit(r)
    \/ ResetEmergencyStopCheck(r) \/ ResetEmergencyStopCommit(r)
    \/ SetTargetsMerge(r) \/ SetTargetsCheck(r) \/ SetTargetsList(r) \/ SetTargetsCommit(r)
    \/ VerifyBatches(r) \/ Audit(r)
    \/ Disconnect(r)

-----------------------------------------------------------------------------
(* The field, as the control loop reports it into the runtime.             *)

FieldReports ==
    \E sample \in Samples, status \in Statuses :
        /\ rt' = accept_sample(rt, sample, status)
        /\ IF rt'.control_fault_generation # rt.control_fault_generation
           THEN Fire("control_fault")
           ELSE UNCHANGED fired
        /\ downstream_command_fault(status) => BelowLimit(rt.control_fault_generation)
        /\ UNCHANGED req /\ KeepRest

FieldLost ==
    /\ rt' = reject_unpersisted_sample_with_status(rt, "none")
    /\ UNCHANGED <<req, fired>> /\ KeepRest

\* The freshness window of the last sample runs out.
SampleAges ==
    /\ rt.latest_sample \in {"fresh", "zone"}
    /\ rt' = [rt EXCEPT !.latest_sample = "stale"]
    /\ UNCHANGED <<req, fired>> /\ KeepRest

-----------------------------------------------------------------------------
(* Production, as far as the handlers above can tell (ProcessLifecycle has *)
(* its handlers): a start opens a row and later activates it, on a list of *)
(* the rows that may be out of date; a stop closes the row and locks the   *)
(* runtime before and after that.                                          *)

OpenBatch(b) ==
    /\ b \notin unfinished
    /\ unfinished' = unfinished \cup {b}
    /\ UNCHANGED <<rt, req, fired, inherited, restarts>>

ActivateBatch(b) ==
    /\ rt.active_batch_id = NoBatch
    /\ ensure_target_update_interlock_clear(rt)
    /\ \E recipe \in Recipes, auto \in BOOLEAN :
          rt' = [rt EXCEPT !.targets.hold_time_s = recipe,
                           !.active_batch_id = b,
                           !.auto_enabled = auto]
    /\ UNCHANGED <<req, fired>> /\ KeepRest

CloseBatch(b) ==
    /\ b \in unfinished
    /\ unfinished' = unfinished \ {b}
    /\ inherited' = IF b = inherited THEN NoBatch ELSE inherited
    /\ UNCHANGED <<rt, req, fired, restarts>>

\* Either lock of a stop; the second one, with the row closed, clears the batch.
DeactivateBatch ==
    /\ rt.active_batch_id # NoBatch
    /\ \E recipe \in Recipes, active \in {rt.active_batch_id, NoBatch} :
          /\ rt.active_batch_id \in unfinished => active = rt.active_batch_id
          /\ rt' = [rt EXCEPT !.targets.hold_time_s = recipe,
                              !.active_batch_id = active,
                              !.auto_enabled = FALSE]
    /\ UNCHANGED <<req, fired>> /\ KeepRest

-----------------------------------------------------------------------------
\* The process dies and a new one recovers from the database.
Restart ==
    /\ restarts < MaxRestarts
    /\ restarts' = restarts + 1
    /\ \E first \in IF unfinished = {} THEN {NoBatch} ELSE unfinished :
          /\ inherited' = first
          /\ rt' = recover_runtime_from_db(first)
    /\ req' = [r \in Requests |-> Idle]
    /\ fired' = [r \in Requests |-> {}]
    /\ UNCHANGED unfinished

Next ==
    \/ EmergencyStop \/ LockManually \/ LatchControlFault \/ ControlLoopTerminates
    \/ SetAutoOff
    \/ \E r \in Requests : RequestStep(r)
    \/ FieldReports \/ FieldLost \/ SampleAges
    \/ \E b \in Batches : OpenBatch(b) \/ ActivateBatch(b) \/ CloseBatch(b)
    \/ DeactivateBatch
    \/ Restart

Spec == Init /\ [][Next]_vars

-----------------------------------------------------------------------------
(* Properties.                                                             *)

(***************************************************************************)
(* Automatic control is never enabled while an emergency stop, a manual    *)
(* lock or a control fault is engaged, nor on a field whose last reading   *)
(* was refused or whose last command failed: whatever order the handlers,  *)
(* the loop and the latches interleave in (set_auto, the resets, the start *)
(* commit, disable_auto_for_field_fault, latch_control_fault).             *)
(***************************************************************************)
AutoOnlyOnSafeField ==
    rt.auto_enabled =>
        /\ ~rt.emergency_stop /\ ~rt.manual_lock /\ ~rt.last_control_error
        /\ ~rt.last_sensor_error /\ rt.latest_sample # "none"
        /\ ~downstream_command_fault(rt.device_status)

(***************************************************************************)
(* Once the control-loop task has died, the control fault stays latched in *)
(* that process: reset_control_fault refuses at its start, and a reset     *)
(* that was already in flight when the task died is refused at its commit. *)
(***************************************************************************)
DeadLoopStaysLatched == rt.control_loop_terminated => rt.last_control_error

(***************************************************************************)
(* A batch row left unfinished by a previous process keeps the control     *)
(* fault of recover_runtime_from_db latched until the row is closed: no    *)
(* sequence of resets, unlocks and samples clears it before.               *)
(***************************************************************************)
InheritedBatchHoldsFault ==
    inherited # NoBatch => rt.last_control_error /\ rt.active_batch_id = inherited

(***************************************************************************)
(* The generation counters remember every engagement: a latch that was     *)
(* engaged after a handler took its generations, once or more often and    *)
(* cleared or not, has a larger generation than the one the handler holds  *)
(* (saturating_add in latch_control_fault, engage_manual_lock and          *)
(* engage_emergency_stop).                                                 *)
(***************************************************************************)
GenerationsRecordEngagements ==
    \A r \in Requests : \A k \in fired[r] : req[r].acknowledged[k] < from_runtime(rt)[k]

\* Request r returns in this step; it does not die with the process.
Returns(r) == req[r].pc # "idle" /\ req'[r].pc = "idle" /\ restarts' = restarts

(***************************************************************************)
(* A request that enables automatic control or changes the targets commits *)
(* on a field state that stayed safe since the request checked it: no      *)
(* latch was engaged in between, not even one that was cleared again       *)
(* (SafetyLatchGenerations in set_auto and commit_targets).                *)
(***************************************************************************)
NoLatchSlipsPastACommit ==
    [][\A r \in Requests :
          /\ Returns(r)
          /\ \/ ~rt.auto_enabled /\ rt'.auto_enabled
             \/ rt'.targets # rt.targets
          => fired[r] = {}]_vars

(***************************************************************************)
(* A reset clears the emergency stop or the control fault its operator     *)
(* acknowledged, never one engaged after the check (generation comparison  *)
(* of reset_emergency_stop and reset_control_fault).                       *)
(***************************************************************************)
ResetClearsAcknowledgedLatch ==
    [][restarts' = restarts =>
          /\ rt.emergency_stop /\ ~rt'.emergency_stop =>
                \E r \in Requests : Returns(r) /\ "emergency_stop" \notin fired[r]
          /\ rt.last_control_error /\ ~rt'.last_control_error =>
                \E r \in Requests : Returns(r) /\ "control_fault" \notin fired[r]]_vars

(***************************************************************************)
(* The same for the manual lock: an unlock never erases a lock that was    *)
(* engaged after the operator who unlocks checked the field                *)
(* (set_manual_lock).                                                      *)
(***************************************************************************)
UnlockClearsAcknowledgedLock ==
    [][restarts' = restarts /\ rt.manual_lock /\ ~rt'.manual_lock =>
          \E r \in Requests : Returns(r) /\ "manual_lock" \notin fired[r]]_vars

(***************************************************************************)
(* set_targets only changes the fields its request names: the recipe part  *)
(* it merged from its early read of the targets never overwrites what a    *)
(* process start committed meanwhile (expected_current).                   *)
(***************************************************************************)
OperatorTargetsKeepRecipe ==
    [][\A r \in Requests :
          At(r, "targets", "listed") /\ Returns(r) =>
              rt'.targets.hold_time_s = rt.targets.hold_time_s]_vars

Gate == INSTANCE AutoGate WITH
    auto <- rt.auto_enabled,
    latched <- EngagedLatches(rt),
    dead <- rt.control_loop_terminated,
    epoch <- restarts

(***************************************************************************)
(* The handlers, the latches and the restarts implement the abstract gate  *)
(* of automatic control.                                                   *)
(***************************************************************************)
ImplementsGate == Gate!Spec
=============================================================================
