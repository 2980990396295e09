----------------------------- MODULE ControlLoop -----------------------------
(***************************************************************************)
(* The supervision task of the daemon (control_loop in main.rs): one cycle *)
(* senses the field, decides, passes the final interlock, writes to the    *)
(* device, classifies the acknowledgement and audits.  It runs against the *)
(* emergency-stop handler, which writes to the same device, against the    *)
(* data-pipeline ingest, and against operators whose requests commit at    *)
(* any point where the loop does not hold the runtime lock (SafetyLatches  *)
(* has those requests in detail; here only their commits appear).          *)
(***************************************************************************)
EXTENDS RuntimeState

CONSTANTS
    PipelineModes,      \* whether device_mode may be Pipeline: samples arrive over the API
    RequireCommandAck,  \* safety.control.require_command_ack
    AckStatuses,        \* outcomes a device write may have
    Samples,            \* readings the field may deliver
    Statuses,           \* downstream statuses the field may report
    Events              \* what else happens in this instance

ASSUME LoopFlagAssumption == PipelineModes \subseteq BOOLEAN /\ RequireCommandAck \in BOOLEAN
ASSUME AckAssumption ==
    AckStatuses \subseteq {"confirmed", "unverified", "rejected", "timeout", "error"}
ASSUME LoopFieldAssumption ==
    Samples \subseteq SampleView \ {"none"} /\ Statuses \subseteq StatusView
ASSUME EventAssumption ==
    Events \subseteq {"auto_off", "lock", "estop", "resets", "targets", "production",
                      "db_error", "audit_error", "guard_error", "sense_error", "panic",
                      "disconnect"}

VARIABLES
    rt,          \* the shared RuntimeState
    unfinished,  \* batch rows of the database without an end time
    loop,        \* the local variables of the control-loop task
    estop,       \* the emergency-stop handler
    ingest,      \* the data-pipeline handler
    device,      \* who the last command the device took came from
    unaudited,   \* history: an automatic command took effect without an audit row
    delivered    \* history: the last emergency stop delivered its targets and reported it

vars == <<rt, unfinished, loop, estop, ingest, device, unaudited, delivered>>

-----------------------------------------------------------------------------
(* The decision.                                                           *)

BlockReasons == {"EmergencyStop", "ManualLock", "ControlFault", "AutoDisabled",
                 "MissingDeviceStatus", "DeviceStatusFault", "DownstreamCommandFault",
                 "MissingSensorSample", "SensorStale", "ForbiddenControlZone"}

\* A ControlDecision; a Write carries the targets its command is ramped towards.
Decisions == [reason : BlockReasons \cup {"Write"}, command : ControlTargets]

Blocked(reason) == [reason |-> reason, command |-> DefaultTargets]

Write(targets) == [reason |-> "Write", command |-> targets]

decide_control_with_device_status(s) ==
    CASE s.emergency_stop -> Blocked("EmergencyStop")
      [] ~s.emergency_stop /\ s.manual_lock -> Blocked("ManualLock")
      [] ~s.emergency_stop /\ ~s.manual_lock /\ s.last_control_error -> Blocked("ControlFault")
      [] OTHER ->
    CASE ~s.auto_enabled -> Blocked("AutoDisabled")
      [] s.auto_enabled /\ RequireDeviceStatus /\ s.device_status = "none" ->
            Blocked("MissingDeviceStatus")
      [] s.auto_enabled /\ device_status_field_fault(s.device_status) ->
            Blocked("DeviceStatusFault")
      [] s.auto_enabled /\ s.device_status = "command" -> Blocked("DownstreamCommandFault")
      [] OTHER ->
    CASE s.latest_sample = "none" -> Blocked("MissingSensorSample")
      [] s.latest_sample = "stale" -> Blocked("SensorStale")
      [] s.latest_sample = "zone" -> Blocked("ForbiddenControlZone")
      [] s.latest_sample = "fresh" -> Write(s.targets)

\* A clone whose sample has left its freshness window.
Aged(s) == IF s.latest_sample = "none" THEN s ELSE [s EXCEPT !.latest_sample = "stale"]

(***************************************************************************)
(* decide_control_with_optional_guard, run on a clone of the runtime in a  *)
(* blocking task.  The guard process evaluates the same function, and its  *)
(* failure falls back to it in-process; the clone's sample may leave its   *)
(* freshness window during the wait; and the task itself may fail, which   *)
(* the loop treats as a block for this cycle.                              *)
(***************************************************************************)
GuardDecisions(s) ==
    {decide_control_with_device_status(s), decide_control_with_device_status(Aged(s))}
    \cup IF "guard_error" \in Events THEN {Blocked("ControlFault")} ELSE {}

\* automatic_final_interlock_fault_reason: is the reason to skip a fault as well?
FinalInterlockFault(d) ==
    d.reason \notin {"AutoDisabled", "ManualLock", "EmergencyStop", "ControlFault"}

\* classify_ack_outcome, with the write that failed before any answer as "error".
Confirmed(status) ==
    status = "confirmed" \/ (status = "unverified" /\ ~RequireCommandAck)

Retries(status) == status \in {"timeout", "error"}

\* May the device have taken the command?
TookEffect(status) ==
    CASE status \in {"confirmed"} -> {TRUE}
      [] status \in {"rejected"} -> {FALSE}
      [] OTHER -> BOOLEAN

-----------------------------------------------------------------------------
LoopPhases == {"sense", "enforce", "decide", "snapshot", "list", "live", "latch",
               "write", "confirmed", "faulted", "dead", "terminated"}

LoopStates ==
    [pc : LoopPhases,
     pipeline : PipelineModes,             \* the device mode it was started with
     command : ControlTargets,             \* the command decided in this cycle
     batch : BatchIds,                     \* active batch of the interlock's snapshot
     recheck : Decisions,                  \* the guard's decision on that snapshot
     last_written_command : SUBSET ControlTargets,  \* recent enough to be skipped
     retry_after : BOOLEAN]                \* a backoff is running

TypeOK ==
    /\ rt \in RuntimeStates
    /\ unfinished \in SUBSET Batches
    /\ loop \in LoopStates
    /\ estop \in {"idle", "engaged", "wrote_ok", "wrote_error"}
    /\ ingest \in {"idle", "stored"}
    /\ device \in {"initial", "auto", "stop"}
    /\ unaudited \in BOOLEAN
    /\ delivered \in BOOLEAN

Init ==
    /\ rt = from_safety
    /\ unfinished = {}
    /\ loop \in [pc : {"sense"}, pipeline : PipelineModes, command : {DefaultTargets},
                batch : {NoBatch}, recheck : {Blocked("AutoDisabled")},
                last_written_command : {{}}, retry_after : {FALSE}]
    /\ estop = "idle"
    /\ ingest = "idle"
    /\ device = "initial"
    /\ unaudited = FALSE
    /\ delivered = FALSE

\* The loop goes on at pc, or sleeps until the next cycle.
Goto(pc) == loop' = [loop EXCEPT !.pc = pc]

\* A fresh cycle, nothing remembered of this one.
NextCycle(l) == [l EXCEPT !.pc = "sense", !.command = DefaultTargets,
                          !.batch = NoBatch, !.recheck = Blocked("AutoDisabled")]

\* last_written_command = None; retry_after = None
Forget(l) == [l EXCEPT !.last_written_command = {}, !.retry_after = FALSE]

KeepOthers == UNCHANGED <<unfinished, estop, ingest, delivered>>

-----------------------------------------------------------------------------
(* Sensing.                                                                *)

\* Mutant: only a missing pipeline sample is a fault.
PipelineSupervisionMissingOnly ==
    /\ loop.pipeline
    /\ loop.pc = "sense"
    /\ rt' = IF rt.latest_sample = "none" THEN disable_auto_for_field_fault(rt) ELSE rt
    /\ Goto("enforce")
    /\ KeepOthers /\ UNCHANGED <<device, unaudited>>

PipelineSupervision ==
    /\ loop.pipeline
    /\ loop.pc = "sense"
    /\ rt' = IF rt.latest_sample \in {"none", "stale"}
             THEN disable_auto_for_field_fault(rt)
             ELSE rt
    /\ Goto("enforce")
    /\ KeepOthers /\ UNCHANGED <<device, unaudited>>

SenseDevice ==
    /\ ~loop.pipeline
    /\ loop.pc = "sense"
    /\ \/ \E sample \in Samples, status \in Statuses :
             rt' = accept_sample(rt, sample, status)
       \/ \* invalid or not persisted, or the read failed or timed out
          /\ "sense_error" \in Events
          /\ \E status \in Statuses \cup {"none"} : rt' = reject_sample(rt, status)
    /\ Goto("enforce")
    /\ KeepOthers /\ UNCHANGED <<device, unaudited>>

EnforceFault ==
    /\ loop.pc = "enforce"
    /\ rt' = enforce_control_fault_fail_closed(rt)
    /\ Goto("decide")
    /\ KeepOthers /\ UNCHANGED <<device, unaudited>>

-----------------------------------------------------------------------------
(* Deciding, and the final interlock.                                      *)

Decide ==
    /\ loop.pc = "decide"
    /\ \E d \in GuardDecisions(rt) :
          loop' = CASE d.reason # "Write" -> NextCycle(Forget(loop))
                    [] d.reason = "Write"
                       /\ (loop.retry_after \/ d.command \in loop.last_written_command) ->
                          NextCycle(loop)
                    [] OTHER -> [loop EXCEPT !.pc = "snapshot", !.command = d.command]
    /\ KeepOthers /\ UNCHANGED <<rt, device, unaudited>>

\* Phase 1: a clone of the runtime, which the guard decides on again.
InterlockSnapshot ==
    /\ loop.pc = "snapshot"
    /\ \E d \in GuardDecisions(rt) :
          loop' = [loop EXCEPT !.pc = "list", !.batch = rt.active_batch_id, !.recheck = d]
    /\ KeepOthers /\ UNCHANGED <<rt, device, unaudited>>

\* automatic_batch_state_is_consistent, on the clone, against the database.
InterlockBatches ==
    /\ loop.pc = "list"
    /\ \/ loop' = IF recovery_required(unfinished, loop.batch)
                  THEN Forget([loop EXCEPT !.pc = "latch"])
                  ELSE [loop EXCEPT !.pc = "live"]
       \/ "db_error" \in Events /\ loop' = Forget([loop EXCEPT !.pc = "latch"])
    /\ KeepOthers /\ UNCHANGED <<rt, device, unaudited>>

\* Mutant: phase 2 is left out, the guard's word on the clone is enough.
InterlockLiveSkipped ==
    /\ loop.pc = "live"
    /\ loop' = IF loop.recheck = Write(loop.command)
               THEN [loop EXCEPT !.pc = "write"]
               ELSE NextCycle(Forget(loop))
    /\ KeepOthers /\ UNCHANGED <<rt, device, unaudited>>

\* Phase 2: the live state, under a read lock released before the write.
InterlockLive ==
    /\ loop.pc = "live"
    /\ LET live == decide_control_with_device_status(rt)
           recheckOk == loop.recheck = Write(loop.command)
           commandCurrent == live = Write(loop.command)
           batchCurrent == rt.active_batch_id = loop.batch
           failed == IF recheckOk THEN live ELSE loop.recheck
       IN  loop' = CASE recheckOk /\ commandCurrent /\ batchCurrent ->
                           [loop EXCEPT !.pc = "write"]
                     [] recheckOk /\ commandCurrent /\ ~batchCurrent ->
                           NextCycle(Forget(loop))
                     [] OTHER -> IF FinalInterlockFault(failed)
                                 THEN Forget([loop EXCEPT !.pc = "latch"])
                                 ELSE NextCycle(Forget(loop))
    /\ KeepOthers /\ UNCHANGED <<rt, device, unaudited>>

\* The write lock the loop takes to latch after the awaits above.
LatchFault ==
    /\ loop.pc = "latch"
    /\ rt' = latch_control_fault(rt)
    /\ loop' = NextCycle(loop)
    /\ KeepOthers /\ UNCHANGED <<device, unaudited>>

-----------------------------------------------------------------------------
(* Writing.                                                                *)

DeviceWrite ==
    /\ loop.pc = "write"
    /\ \E status \in AckStatuses : \E effect \in TookEffect(status) :
          /\ device' = IF effect THEN "auto" ELSE device
          /\ unaudited' = (unaudited \/ effect)
          /\ loop' = IF Confirmed(status)
                     THEN [loop EXCEPT !.pc = "confirmed"]
                     ELSE [loop EXCEPT !.pc = "faulted", !.last_written_command = {},
                                       !.retry_after = Retries(status)]
    /\ KeepOthers /\ UNCHANGED rt

\* Mutant: a failed device_write audit is only logged.
AuditWriteLogged ==
    /\ loop.pc = "confirmed"
    /\ \/ unaudited' = FALSE
       \/ "audit_error" \in Events /\ UNCHANGED unaudited
    /\ loop' = NextCycle([loop EXCEPT !.last_written_command = {loop.command},
                                      !.retry_after = FALSE])
    /\ KeepOthers /\ UNCHANGED <<rt, device>>

\* The device_write row; if it fails, the device has acted and a fault latches.
AuditWrite ==
    /\ loop.pc = "confirmed"
    /\ \/ /\ loop' = NextCycle([loop EXCEPT !.last_written_command = {loop.command},
                                            !.retry_after = FALSE])
          /\ unaudited' = FALSE
       \/ /\ "audit_error" \in Events
          /\ loop' = Forget([loop EXCEPT !.pc = "latch"])
          /\ UNCHANGED unaudited
    /\ KeepOthers /\ UNCHANGED <<rt, device>>

\* Rejected, timed out, unverified although required, or failed.
WriteFault ==
    /\ loop.pc = "faulted"
    /\ rt' = latch_control_fault(rt)
    /\ loop' = NextCycle(loop)
    /\ KeepOthers /\ UNCHANGED <<device, unaudited>>

-----------------------------------------------------------------------------
(* The end of the task.                                                    *)

LoopPanics ==
    /\ "panic" \in Events
    /\ loop.pc \notin {"dead", "terminated"}
    /\ loop' = Forget([NextCycle(loop) EXCEPT !.pc = "dead"])
    /\ KeepOthers /\ UNCHANGED <<rt, device, unaudited>>

MonitorFailsSafe ==
    /\ loop.pc = "dead"
    /\ rt' = terminate_control_loop(rt)
    /\ Goto("terminated")
    /\ KeepOthers /\ UNCHANGED <<device, unaudited>>

-----------------------------------------------------------------------------
(* The emergency-stop handler: engage, write the fail-safe targets, audit. *)

KeepLoop == UNCHANGED <<unfinished, loop, ingest>>

EmergencyStopEngage ==
    /\ "estop" \in Events
    /\ estop = "idle"
    /\ rt' = engage_emergency_stop(rt)
    /\ estop' = "engaged"
    /\ delivered' = FALSE
    /\ KeepLoop /\ UNCHANGED <<device, unaudited>>

(***************************************************************************)
(* timeout(write).await yields a result inside a result; only the outer    *)
(* one, the timeout, is examined, so that a write that returned an error   *)
(* goes on to the "delivered" branch like one that succeeded.              *)
(***************************************************************************)
EmergencyStopWrite ==
    /\ estop = "engaged"
    /\ \/ device' = "stop" /\ estop' = "wrote_ok" /\ UNCHANGED rt
       \/ estop' = "wrote_error" /\ UNCHANGED <<rt, device>>
       \/ /\ device' \in {device, "stop"}
          /\ rt' = latch_control_fault(rt)
          /\ estop' = "idle"
    /\ KeepLoop /\ UNCHANGED <<unaudited, delivered>>

EmergencyStopAudit ==
    /\ estop \in {"wrote_ok", "wrote_error"}
    /\ \/ UNCHANGED rt /\ delivered' = (estop = "wrote_ok")
       \/ /\ "audit_error" \in Events
          /\ rt' = latch_control_fault(rt)
          /\ UNCHANGED delivered
    /\ estop' = "idle"
    /\ KeepLoop /\ UNCHANGED <<device, unaudited>>

-----------------------------------------------------------------------------
(* The data-pipeline handler: the sample is stored under one lock, the     *)
(* alarms it raises are applied under another.                             *)

PipelineStore ==
    /\ loop.pipeline
    /\ ingest = "idle"
    /\ \/ /\ \E sample \in Samples :
                rt' = [rt EXCEPT !.latest_sample = sample, !.last_sensor_error = FALSE]
          /\ ingest' = "stored"
       \/ /\ "sense_error" \in Events
          /\ rt' = reject_unpersisted_sample_with_status(rt, "none")
          /\ UNCHANGED ingest
    /\ UNCHANGED <<unfinished, loop, estop, device, unaudited, delivered>>

PipelineAlarms ==
    /\ ingest = "stored"
    /\ \E alarm \in BOOLEAN :
          rt' = enforce_control_fault_fail_closed(IF alarm THEN disable_auto(rt) ELSE rt)
    /\ ingest' = "idle"
    /\ UNCHANGED <<unfinished, loop, estop, device, unaudited, delivered>>

\* A client goes away and the server drops its handler; the stop's device write, on a
\* thread of its own, may get through all the same.
Disconnect ==
    /\ "disconnect" \in Events
    /\ \/ /\ estop # "idle" /\ estop' = "idle"
          /\ device' \in IF estop = "engaged" THEN {device, "stop"} ELSE {device}
          /\ UNCHANGED ingest
       \/ /\ ingest # "idle" /\ ingest' = "idle"
          /\ UNCHANGED <<estop, device>>
    /\ UNCHANGED <<rt, unfinished, loop, unaudited, delivered>>

-----------------------------------------------------------------------------
(* Commits of operator requests, and time.                                 *)

KeepTasks == UNCHANGED <<loop, estop, ingest, device, delivered>>

EnableAuto ==
    /\ ensure_target_update_interlock_clear(rt)
    /\ ~recovery_required(unfinished, rt.active_batch_id)
    /\ rt' = [rt EXCEPT !.auto_enabled = TRUE]
    /\ KeepTasks /\ UNCHANGED <<unfinished, unaudited>>

DisableAuto ==
    /\ "auto_off" \in Events
    /\ rt' = disable_auto(rt)
    /\ KeepTasks /\ UNCHANGED <<unfinished, unaudited>>

ManualLock ==
    /\ "lock" \in Events
    /\ rt' \in {engage_manual_lock(rt), clear_manual_lock(rt)}
    /\ KeepTasks /\ UNCHANGED <<unfinished, unaudited>>

ResetEmergencyStop ==
    /\ "resets" \in Events
    /\ rt.emergency_stop
    /\ ensure_reset_allowed(rt, unfinished)
    /\ rt' = clear_emergency_stop(rt)
    /\ KeepTasks /\ UNCHANGED <<unfinished, unaudited>>

\* The operator who resets the fault answers for what it stood for.
ResetControlFault ==
    /\ "resets" \in Events
    /\ rt.last_control_error
    /\ ~rt.control_loop_terminated
    /\ ensure_reset_allowed(rt, unfinished)
    /\ rt' = clear_control_fault(rt)
    /\ unaudited' = FALSE
    /\ KeepTasks /\ UNCHANGED unfinished

CommitTargets ==
    /\ "targets" \in Events
    /\ ensure_target_update_interlock_clear(rt)
    /\ \E t \in ControlTargets : rt' = [rt EXCEPT !.targets = t]
    /\ KeepTasks /\ UNCHANGED <<unfinished, unaudited>>

\* A start opens the row and then activates it; a stop closes the row and then the runtime.
Production ==
    /\ "production" \in Events
    /\ \/ /\ unfinished = {} /\ rt.active_batch_id = NoBatch
          /\ \E b \in Batches : unfinished' = {b}
          /\ UNCHANGED rt
       \/ /\ rt.active_batch_id = NoBatch
          /\ ensure_target_update_interlock_clear(rt)
          /\ \E b \in unfinished, auto \in BOOLEAN :
                rt' = [rt EXCEPT !.active_batch_id = b, !.auto_enabled = auto]
          /\ UNCHANGED unfinished
       \/ /\ \E b \in unfinished : unfinished' = unfinished \ {b}
          /\ UNCHANGED rt
       \/ /\ rt.active_batch_id \notin unfinished \cup {NoBatch}
          /\ rt' = [rt EXCEPT !.active_batch_id = NoBatch, !.auto_enabled = FALSE]
          /\ UNCHANGED unfinished
    /\ KeepTasks /\ UNCHANGED unaudited

\* A freshness window, the deduplication window or the backoff runs out.
SampleAges ==
    /\ rt.latest_sample \in {"fresh", "zone"}
    /\ rt' = [rt EXCEPT !.latest_sample = "stale"]
    /\ KeepTasks /\ UNCHANGED <<unfinished, unaudited>>

StatusAges ==
    /\ rt.device_status \in {"healthy", "command"}
    /\ rt' = [rt EXCEPT !.device_status = IF @ = "healthy" THEN "field" ELSE "both"]
    /\ KeepTasks /\ UNCHANGED <<unfinished, unaudited>>

WindowsRunOut ==
    /\ \/ /\ loop.last_written_command # {}
          /\ loop' = [loop EXCEPT !.last_written_command = {}]
       \/ /\ loop.retry_after
          /\ loop' = [loop EXCEPT !.retry_after = FALSE]
    /\ UNCHANGED <<rt, unfinished, estop, ingest, device, unaudited, delivered>>

-----------------------------------------------------------------------------
LoopStep ==
    \/ PipelineSupervision \/ SenseDevice \/ EnforceFault
    \/ Decide \/ InterlockSnapshot \/ InterlockBatches \/ InterlockLive \/ LatchFault
    \/ DeviceWrite \/ AuditWrite \/ WriteFault
    \/ MonitorFailsSafe

HandlerStep == EmergencyStopWrite \/ EmergencyStopAudit \/ PipelineAlarms

Environment ==
    \/ LoopPanics \/ EmergencyStopEngage \/ PipelineStore \/ Disconnect
    \/ EnableAuto \/ DisableAuto \/ ManualLock \/ ResetEmergencyStop \/ ResetControlFault
    \/ CommitTargets \/ Production
    \/ SampleAges \/ StatusAges \/ WindowsRunOut

Next == LoopStep \/ HandlerStep \/ Environment

Spec == Init /\ [][Next]_vars

(***************************************************************************)
(* Tokio keeps polling a ready task: every await of the loop is bounded    *)
(* (read, acknowledgement and guard have time limits), and so is the       *)
(* device write of the emergency stop.  A handler that lost its client is  *)
(* gone (Disconnect) and owes nothing, like operators and time.            *)
(***************************************************************************)
FairSpec == Spec /\ WF_vars(LoopStep) /\ WF_vars(HandlerStep)

-----------------------------------------------------------------------------
(* Properties.                                                             *)

(***************************************************************************)
(* A command the device took automatically either has its audit row or has *)
(* left a control fault behind that only an operator's reset removes, as   *)
(* soon as the loop is past the write: rejected, unconfirmed, failed and   *)
(* unaudited writes, and a loop that dies between the write and its audit. *)
(***************************************************************************)
UnauditedWriteIsLatched ==
    unaudited => rt.last_control_error
                 \/ loop.pc \in {"confirmed", "faulted", "latch", "dead"}

(***************************************************************************)
(* The loop only sets out to write what the live state still calls for:    *)
(* between the decision and the write, a latch, a lost field, new targets  *)
(* or another active batch stops the command (the two interlock phases).   *)
(***************************************************************************)
WriteStartsFromLiveState ==
    [][loop.pc # "write" /\ loop'.pc = "write" =>
          /\ ~rt.emergency_stop /\ ~rt.manual_lock /\ ~rt.last_control_error
          /\ rt.auto_enabled /\ rt.latest_sample = "fresh"
          /\ rt.targets = loop.command /\ rt.active_batch_id = loop.batch]_vars

(***************************************************************************)
(* A field that stops delivering does not keep automatic control enabled:  *)
(* a sample that stays stale leads the loop, or the monitor of a loop that *)
(* died, to disable it.                                                    *)
(***************************************************************************)
StaleFieldDisablesAuto ==
    rt.auto_enabled /\ rt.latest_sample = "stale"
        ~> ~rt.auto_enabled \/ rt.latest_sample # "stale"

Gate == INSTANCE AutoGate WITH
    auto <- rt.auto_enabled,
    latched <- EngagedLatches(rt),
    dead <- rt.control_loop_terminated,
    epoch <- 0

(***************************************************************************)
(* The loop, the emergency stop and the ingest implement the same abstract *)
(* gate of automatic control as the operator's requests.                   *)
(***************************************************************************)
ImplementsGate == Gate!Spec

(***************************************************************************)
(* An emergency stop blocks what is sent to the device: after the handler  *)
(* has reported its fail-safe targets delivered, and until the stop is     *)
(* reset, the device holds them.                                           *)
(***************************************************************************)
StoppedDeviceStaysStopped == delivered /\ rt.emergency_stop => device = "stop"

(***************************************************************************)
(* A failed device write latches a control fault, also when it is the      *)
(* write of the emergency stop.                                            *)
(***************************************************************************)
FailedStopWriteLatches ==
    [][estop = "wrote_error" /\ estop' = "idle" => rt'.last_control_error]_vars
=============================================================================
