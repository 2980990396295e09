------------------------- MODULE ControlLoopProofs -------------------------
(***************************************************************************)
(* The control loop, for every value of the constants: its type            *)
(* correctness, the fault behind every command without an audit row, the   *)
(* final interlock, and that loop, emergency stop and ingest implement the *)
(* abstract gate of automatic control.                                     *)
(***************************************************************************)
EXTENDS ControlLoop, RuntimeStateProofs

\* What the loop may decide is a decision: a block, or a write of typed targets.
LEMMA DecideTyping ==
  ASSUME NEW s \in RuntimeStates
  PROVE  decide_control_with_device_status(s) \in Decisions
  BY TargetAssumption
  DEF decide_control_with_device_status, Decisions, BlockReasons, Blocked, Write,
      RuntimeStates, SampleView

\* A decision of the guard is one, also on a clone whose sample has aged.
LEMMA GuardTyping ==
  ASSUME NEW s \in RuntimeStates
  PROVE  GuardDecisions(s) \subseteq Decisions
<1>1. Aged(s) \in RuntimeStates
  BY DEF Aged, RuntimeStates, SampleView
<1>2. Blocked("ControlFault") \in Decisions
  BY TargetAssumption DEF Blocked, Decisions, BlockReasons
<1>3. /\ decide_control_with_device_status(s) \in Decisions
      /\ decide_control_with_device_status(Aged(s)) \in Decisions
  BY <1>1, DecideTyping
<1> QED
  BY <1>2, <1>3 DEF GuardDecisions

\* Forgetting what was written, and starting the next cycle, keep the loop's record typed.
LEMMA LoopTyping ==
  ASSUME NEW l \in LoopStates
  PROVE  /\ Forget(l) \in LoopStates
         /\ NextCycle(l) \in LoopStates
         /\ \A pc \in LoopPhases : [l EXCEPT !.pc = pc] \in LoopStates
<1>1. NoBatch \in BatchIds /\ Blocked("AutoDisabled") \in Decisions
  BY TargetAssumption DEF BatchIds, Blocked, Decisions, BlockReasons
<1>2. NextCycle(l) \in LoopStates
  BY <1>1, TargetAssumption DEF NextCycle, LoopStates, LoopPhases
<1> QED
  BY <1>2 DEF Forget, LoopStates

\* The phases by name.
LEMMA PhaseNames ==
  /\ "sense" \in LoopPhases /\ "enforce" \in LoopPhases /\ "decide" \in LoopPhases
  /\ "snapshot" \in LoopPhases /\ "list" \in LoopPhases /\ "live" \in LoopPhases
  /\ "latch" \in LoopPhases /\ "write" \in LoopPhases /\ "confirmed" \in LoopPhases
  /\ "faulted" \in LoopPhases /\ "dead" \in LoopPhases /\ "terminated" \in LoopPhases
  BY DEF LoopPhases

\* The daemon starts in a typed state.
LEMMA InitTyping == Init => TypeOK
<1> SUFFICES ASSUME Init PROVE TypeOK
  OBVIOUS
<1>1. rt \in RuntimeStates
  BY FromSafetyTyping DEF Init
<1>2. NoBatch \in BatchIds /\ Blocked("AutoDisabled") \in Decisions
  BY TargetAssumption DEF BatchIds, Blocked, Decisions, BlockReasons
<1>3. loop \in LoopStates
  BY <1>2, TargetAssumption DEF Init, LoopStates, LoopPhases
<1> QED
  BY <1>1, <1>3 DEF Init, TypeOK

\* The steps of the loop keep the state typed.
LEMMA LoopStepTyping ==
  ASSUME TypeOK, LoopStep
  PROVE  TypeOK'
<1>t. rt \in RuntimeStates /\ loop \in LoopStates
  BY DEF TypeOK
<1>1. CASE PipelineSupervision
  <2>1. disable_auto_for_field_fault(rt) \in RuntimeStates
    BY <1>t DEF disable_auto_for_field_fault, RuntimeStates
  <2> QED
    BY <1>1, <1>t, LoopTyping, PhaseNames, <2>1 DEF PipelineSupervision, TypeOK, Goto, KeepOthers
<1>2. CASE SenseDevice
  <2>1. \A sample \in Samples, status \in Statuses :
            accept_sample(rt, sample, status) \in RuntimeStates
    BY <1>t, AcceptTyping, LoopFieldAssumption
  <2>2. \A status \in Statuses \cup {"none"} : reject_sample(rt, status) \in RuntimeStates
    BY <1>t, RejectTyping, LoopFieldAssumption DEF StatusView
  <2> QED
    BY <1>2, <1>t, LoopTyping, PhaseNames, <2>1, <2>2 DEF SenseDevice, TypeOK, Goto, KeepOthers
<1>3. CASE EnforceFault
  BY <1>3, <1>t, LoopTyping, PhaseNames, ClearTyping DEF EnforceFault, TypeOK, Goto, KeepOthers
<1>4. CASE Decide
  <2>1. PICK d \in GuardDecisions(rt) :
          loop' = CASE d.reason # "Write" -> NextCycle(Forget(loop))
                    [] d.reason = "Write"
                       /\ (loop.retry_after \/ d.command \in loop.last_written_command) ->
                          NextCycle(loop)
                    [] OTHER -> [loop EXCEPT !.pc = "snapshot", !.command = d.command]
    BY <1>4 DEF Decide
  <2>2. d.command \in ControlTargets
    BY <1>t, GuardTyping DEF Decisions
  <2>3. [loop EXCEPT !.pc = "snapshot", !.command = d.command] \in LoopStates
    BY <1>t, PhaseNames, <2>2 DEF LoopStates
  <2>4. loop' \in LoopStates
    BY <1>t, LoopTyping, <2>1, <2>3
  <2> QED
    BY <1>4, <2>4 DEF Decide, TypeOK, KeepOthers
<1>5. CASE InterlockSnapshot
  <2>1. PICK d \in Decisions :
          loop' = [loop EXCEPT !.pc = "list", !.batch = rt.active_batch_id, !.recheck = d]
    BY <1>5, <1>t, GuardTyping DEF InterlockSnapshot
  <2>2. loop' \in LoopStates
    BY <1>t, PhaseNames, <2>1 DEF LoopStates, RuntimeStates
  <2> QED
    BY <1>5, <2>2 DEF InterlockSnapshot, TypeOK, KeepOthers
<1>6. CASE InterlockBatches
  BY <1>6, <1>t, LoopTyping, PhaseNames DEF InterlockBatches, TypeOK, KeepOthers
<1>7. CASE InterlockLive
  <2>1. loop' \in {[loop EXCEPT !.pc = "write"], NextCycle(Forget(loop)),
                   Forget([loop EXCEPT !.pc = "latch"])}
    BY <1>7 DEF InterlockLive
  <2>2. loop' \in LoopStates
    BY <2>1, <1>t, LoopTyping, PhaseNames
  <2> QED
    BY <1>7, <2>2 DEF InterlockLive, TypeOK, KeepOthers
<1>8. CASE LatchFault \/ WriteFault
  BY <1>8, <1>t, LoopTyping, LatchTyping DEF LatchFault, WriteFault, TypeOK, KeepOthers
<1>9. CASE DeviceWrite
  <2>1. PICK status \in AckStatuses : \E effect \in TookEffect(status) :
          /\ device' = IF effect THEN "auto" ELSE device
          /\ unaudited' = (unaudited \/ effect)
          /\ loop' = IF Confirmed(status)
                     THEN [loop EXCEPT !.pc = "confirmed"]
                     ELSE [loop EXCEPT !.pc = "faulted", !.last_written_command = {},
                                       !.retry_after = Retries(status)]
    BY <1>9 DEF DeviceWrite
  <2>2. Retries(status) \in BOOLEAN
    BY DEF Retries
  <2>3. loop' \in LoopStates
    BY <1>t, PhaseNames, <2>1, <2>2 DEF LoopStates
  <2>e. TookEffect(status) \subseteq BOOLEAN
    BY DEF TookEffect
  <2>4. device' \in {"initial", "auto", "stop"}
    BY <2>1 DEF TypeOK
  <2>5. unaudited' \in BOOLEAN
    BY <2>1, <2>e DEF TypeOK
  <2> QED
    BY <1>9, <2>3, <2>4, <2>5 DEF DeviceWrite, TypeOK, KeepOthers
<1>10. CASE AuditWrite
  <2>1. [loop EXCEPT !.last_written_command = {loop.command},
                     !.retry_after = FALSE] \in LoopStates
    BY <1>t DEF LoopStates
  <2> QED
    BY <1>10, <1>t, LoopTyping, PhaseNames, <2>1 DEF AuditWrite, TypeOK, KeepOthers
<1>11. CASE MonitorFailsSafe
  BY <1>11, <1>t, LoopTyping, PhaseNames, TerminateTyping DEF MonitorFailsSafe, TypeOK, Goto, KeepOthers
<1> QED
  BY <1>1, <1>2, <1>3, <1>4, <1>5, <1>6, <1>7, <1>8, <1>9, <1>10, <1>11 DEF LoopStep

\* The emergency stop, the ingest, operators and time keep the state typed.
LEMMA OtherStepTyping ==
  ASSUME TypeOK, HandlerStep \/ Environment
  PROVE  TypeOK'
<1>t. rt \in RuntimeStates /\ loop \in LoopStates
  BY DEF TypeOK
<1>1. CASE EmergencyStopWrite
  BY <1>1, <1>t, LatchTyping DEF EmergencyStopWrite, TypeOK, KeepLoop
<1>2. CASE EmergencyStopAudit
  BY <1>2, <1>t, LatchTyping DEF EmergencyStopAudit, TypeOK, KeepLoop
<1>3. CASE EmergencyStopEngage
  BY <1>3, <1>t, StopTyping DEF EmergencyStopEngage, TypeOK, KeepLoop
<1>4. CASE PipelineAlarms
  BY <1>4, <1>t, ClearTyping DEF PipelineAlarms, TypeOK
<1>5. CASE PipelineStore
  <2>1. \A sample \in Samples :
          [rt EXCEPT !.latest_sample = sample, !.last_sensor_error = FALSE] \in RuntimeStates
    BY <1>t, LoopFieldAssumption DEF RuntimeStates
  <2>2. reject_unpersisted_sample_with_status(rt, "none") \in RuntimeStates
    BY <1>t, RejectTyping DEF StatusView
  <2> QED
    BY <1>5, <2>1, <2>2 DEF PipelineStore, TypeOK
<1>6. CASE LoopPanics
  BY <1>6, <1>t, LoopTyping, PhaseNames DEF LoopPanics, TypeOK, KeepOthers
<1>7. CASE EnableAuto \/ CommitTargets \/ SampleAges \/ StatusAges
  <2>1. rt' \in RuntimeStates
    BY <1>7, <1>t DEF EnableAuto, CommitTargets, SampleAges, StatusAges, RuntimeStates,
       SampleView, StatusView
  <2> QED
    BY <1>7, <2>1 DEF EnableAuto, CommitTargets, SampleAges, StatusAges, TypeOK, KeepTasks
<1>8. CASE DisableAuto \/ ResetEmergencyStop \/ ResetControlFault
  BY <1>8, <1>t, ClearTyping DEF DisableAuto, ResetEmergencyStop, ResetControlFault,
     TypeOK, KeepTasks
<1>9. CASE ManualLock
  BY <1>9, <1>t, ClearTyping, LockTyping DEF ManualLock, TypeOK, KeepTasks
<1>10. CASE Production
  <2>1. rt' \in RuntimeStates
    BY <1>10, <1>t DEF Production, RuntimeStates, BatchIds, TypeOK
  <2>2. unfinished' \in SUBSET Batches
    BY <1>10 DEF Production, TypeOK
  <2> QED
    BY <1>10, <2>1, <2>2 DEF Production, TypeOK, KeepTasks
<1>12. CASE Disconnect
  BY <1>12 DEF Disconnect, TypeOK
<1>11. CASE WindowsRunOut
  <2>1. loop' \in LoopStates
    BY <1>11, <1>t DEF WindowsRunOut, LoopStates
  <2> QED
    BY <1>11, <2>1 DEF WindowsRunOut, TypeOK
<1> QED
  BY <1>1, <1>2, <1>3, <1>4, <1>5, <1>6, <1>7, <1>8, <1>9, <1>10, <1>11, <1>12
  DEF HandlerStep, Environment

\* Every step of the daemon keeps the state typed.
LEMMA StepTyping == TypeOK /\ [Next]_vars => TypeOK'
<1>1. ASSUME TypeOK, UNCHANGED vars PROVE TypeOK'
  BY <1>1 DEF TypeOK, vars
<1> QED
  BY <1>1, LoopStepTyping, OtherStepTyping DEF Next

(***************************************************************************)
(* Type correctness: the runtime record, the loop's local variables and    *)
(* the handlers stay within their types, whatever the field, the guard,    *)
(* the database and operators do.                                          *)
(***************************************************************************)
THEOREM TypeCorrect == Spec => []TypeOK
  BY InitTyping, StepTyping, PTL DEF Spec

-----------------------------------------------------------------------------
(* A command without an audit row has a fault behind it.                   *)

\* No method but clear_control_fault takes a latched fault back.
LEMMA FaultIsKept ==
  ASSUME NEW s \in RuntimeStates, s.last_control_error
  PROVE  /\ disable_auto(s).last_control_error
         /\ disable_auto_for_field_fault(s).last_control_error
         /\ enforce_control_fault_fail_closed(s).last_control_error
         /\ engage_manual_lock(s).last_control_error
         /\ clear_manual_lock(s).last_control_error
         /\ engage_emergency_stop(s).last_control_error
         /\ clear_emergency_stop(s).last_control_error
         /\ \A status : reject_unpersisted_sample_with_status(s, status).last_control_error
  BY DEF RuntimeStates, disable_auto, disable_auto_for_field_fault,
         enforce_control_fault_fail_closed, engage_manual_lock, clear_manual_lock,
         engage_emergency_stop, clear_emergency_stop, reject_unpersisted_sample_with_status

\* latch_control_fault and the monitor's fail-safe latch.
LEMMA LatchLatches ==
  ASSUME NEW s \in RuntimeStates
  PROVE  latch_control_fault(s).last_control_error /\ terminate_control_loop(s).last_control_error
  BY DEF RuntimeStates, latch_control_fault, terminate_control_loop

\* A reading, accepted or rejected, never takes a latched fault back.
LEMMA ReadingKeepsFault ==
  ASSUME NEW s \in RuntimeStates, s.last_control_error
  PROVE  /\ \A sample \in SampleView, status \in StatusView :
               accept_sample(s, sample, status).last_control_error
         /\ \A status \in StatusView : reject_sample(s, status).last_control_error
<1>1. ASSUME NEW sample \in SampleView, NEW status \in StatusView
      PROVE  accept_sample(s, sample, status).last_control_error
  BY <1>1 DEF accept_sample, disable_auto_for_field_fault, latch_control_fault, RuntimeStates
<1>2. ASSUME NEW status \in StatusView
      PROVE  reject_sample(s, status).last_control_error
  BY <1>2 DEF reject_sample, reject_unpersisted_sample_with_status,
     disable_auto_for_field_fault, latch_control_fault, RuntimeStates
<1> QED
  BY <1>1, <1>2

\* The phases in which the loop still owes the fault of the command it wrote.
Owing == {"confirmed", "faulted", "latch", "dead"}

\* A latched fault is only taken back by ResetControlFault.
LEMMA OnlyResetClearsFault ==
  ASSUME TypeOK, Next, ~ResetControlFault, rt.last_control_error
  PROVE  rt'.last_control_error
<1>t. rt \in RuntimeStates
  BY DEF TypeOK
<1>1. CASE LoopStep
  BY <1>1, <1>t, FaultIsKept, LatchLatches, ReadingKeepsFault, LoopFieldAssumption
  DEF LoopStep, PipelineSupervision, SenseDevice, EnforceFault, Decide, InterlockSnapshot,
      InterlockBatches, InterlockLive, LatchFault, DeviceWrite, AuditWrite, WriteFault,
      MonitorFailsSafe, StatusView
<1>2. CASE HandlerStep
  BY <1>2, <1>t, FaultIsKept, LatchLatches, ClearTyping
  DEF HandlerStep, EmergencyStopWrite, EmergencyStopAudit, PipelineAlarms
<1>3. CASE LoopPanics \/ EmergencyStopEngage \/ DisableAuto \/ ManualLock
           \/ ResetEmergencyStop \/ WindowsRunOut \/ Disconnect
  BY <1>3, <1>t, FaultIsKept
  DEF LoopPanics, EmergencyStopEngage, DisableAuto, ManualLock, ResetEmergencyStop,
      WindowsRunOut, Disconnect
<1>4. CASE PipelineStore
  BY <1>4, <1>t, FaultIsKept DEF PipelineStore, RuntimeStates
<1>5. CASE EnableAuto \/ CommitTargets \/ Production \/ SampleAges \/ StatusAges
  BY <1>5, <1>t DEF EnableAuto, CommitTargets, Production, SampleAges, StatusAges,
     RuntimeStates
<1> QED
  BY <1>1, <1>2, <1>3, <1>4, <1>5 DEF Next, Environment

\* The loop leaves a phase in which it owes a fault with the fault or with the audit row.
LEMMA DebtIsPaid ==
  ASSUME TypeOK, Next, loop.pc \in Owing, loop'.pc \notin Owing
  PROVE  rt'.last_control_error \/ ~unaudited'
<1>t. rt \in RuntimeStates /\ loop \in LoopStates
  BY DEF TypeOK
<1>1. CASE LatchFault \/ WriteFault \/ MonitorFailsSafe
  BY <1>1, <1>t, LatchLatches DEF LatchFault, WriteFault, MonitorFailsSafe
<1>2. CASE AuditWrite
  BY <1>2, <1>t DEF AuditWrite, Forget, LoopStates, Owing
<1>3. ~(LoopStep /\ ~LatchFault /\ ~WriteFault /\ ~MonitorFailsSafe /\ ~AuditWrite)
  BY DEF LoopStep, PipelineSupervision, SenseDevice, EnforceFault, Decide,
     InterlockSnapshot, InterlockBatches, InterlockLive, DeviceWrite, Owing
<1>4. ~HandlerStep
  BY DEF HandlerStep, EmergencyStopWrite, EmergencyStopAudit, PipelineAlarms, KeepLoop
<1>5. ~(Environment /\ ~LoopPanics /\ ~WindowsRunOut)
  BY DEF Environment, EmergencyStopEngage, PipelineStore, Disconnect, EnableAuto, DisableAuto,
     ManualLock, ResetEmergencyStop, ResetControlFault, CommitTargets, Production,
     SampleAges, StatusAges, KeepLoop, KeepTasks
<1>6. ~LoopPanics
  BY <1>t DEF LoopPanics, Forget, NextCycle, LoopStates, Owing
<1>7. ~WindowsRunOut
  BY <1>t DEF WindowsRunOut, LoopStates
<1> QED
  BY <1>1, <1>2, <1>3, <1>4, <1>5, <1>6, <1>7 DEF Next

\* A device write leaves the loop owing; every other step creates no unaudited command.
LEMMA OnlyDeviceWriteOwes ==
  ASSUME TypeOK, Next, ~unaudited, unaudited'
  PROVE  loop'.pc \in Owing
<1>t. loop \in LoopStates
  BY DEF TypeOK
<1>1. CASE DeviceWrite
  BY <1>1, <1>t DEF DeviceWrite, LoopStates, Owing
<1>2. CASE LoopStep
  BY <1>1, <1>2 DEF LoopStep, PipelineSupervision, SenseDevice, EnforceFault, Decide,
     InterlockSnapshot, InterlockBatches, InterlockLive, LatchFault, AuditWrite, WriteFault,
     MonitorFailsSafe
<1>3. ~HandlerStep
  BY DEF HandlerStep, EmergencyStopWrite, EmergencyStopAudit, PipelineAlarms
<1>4. ~Environment
  BY DEF Environment, LoopPanics, EmergencyStopEngage, PipelineStore, Disconnect, EnableAuto,
     DisableAuto, ManualLock, ResetEmergencyStop, ResetControlFault, CommitTargets,
     Production, SampleAges, StatusAges, WindowsRunOut
<1> QED
  BY <1>2, <1>3, <1>4 DEF Next

\* Every step keeps the invariant.
LEMMA StepLatched == TypeOK /\ UnauditedWriteIsLatched /\ [Next]_vars => UnauditedWriteIsLatched'
<1> SUFFICES ASSUME TypeOK, UnauditedWriteIsLatched, [Next]_vars, unaudited'
             PROVE  rt'.last_control_error \/ loop'.pc \in Owing
  BY DEF UnauditedWriteIsLatched, Owing
<1>1. CASE UNCHANGED vars
  BY <1>1 DEF vars, UnauditedWriteIsLatched, Owing
<1>2. CASE Next /\ ~unaudited
  BY <1>2, OnlyDeviceWriteOwes
<1>3. CASE Next /\ unaudited /\ loop.pc \in Owing
  BY <1>3, DebtIsPaid
<1>4. CASE Next /\ unaudited /\ rt.last_control_error
  <2>1. ~ResetControlFault
    BY DEF ResetControlFault
  <2> QED
    BY <1>4, <2>1, OnlyResetClearsFault
<1> QED
  BY <1>1, <1>2, <1>3, <1>4 DEF UnauditedWriteIsLatched, Owing

(***************************************************************************)
(* A command the device took automatically has its audit row, or a control *)
(* fault that only an operator's reset removes, as soon as the loop is     *)
(* past the write; also when the loop dies in between.                     *)
(***************************************************************************)
THEOREM UnauditedIsLatched == Spec => []UnauditedWriteIsLatched
<1>1. Init => UnauditedWriteIsLatched
  BY DEF Init, UnauditedWriteIsLatched
<1> QED
  BY <1>1, StepLatched, TypeCorrect, PTL DEF Spec

-----------------------------------------------------------------------------
(* The final interlock.                                                    *)

\* A decision to write is only made on a clear state, and of its targets.
LEMMA WriteDecision ==
  ASSUME NEW s \in RuntimeStates, NEW c, decide_control_with_device_status(s) = Write(c)
  PROVE  /\ ~s.emergency_stop /\ ~s.manual_lock /\ ~s.last_control_error
         /\ s.auto_enabled /\ s.latest_sample = "fresh"
         /\ s.targets = c
  BY DEF decide_control_with_device_status, Blocked, Write, RuntimeStates, SampleView

\* Only phase 2 of the interlock sends the loop to its device write.
LEMMA OnlyInterlockWrites ==
  ASSUME TypeOK, Next, loop.pc # "write", loop'.pc = "write"
  PROVE  InterlockLive
<1>t. loop \in LoopStates
  BY DEF TypeOK
<1>1. CASE LoopStep
  <2>1. ~(PipelineSupervision \/ SenseDevice \/ EnforceFault \/ MonitorFailsSafe)
    BY <1>t DEF PipelineSupervision, SenseDevice, EnforceFault, MonitorFailsSafe, Goto,
       LoopStates
  <2>2. ~Decide
    BY <1>t DEF Decide, NextCycle, Forget, LoopStates
  <2>3. ~(InterlockSnapshot \/ InterlockBatches)
    BY <1>t DEF InterlockSnapshot, InterlockBatches, Forget, LoopStates
  <2>4. ~(LatchFault \/ WriteFault \/ DeviceWrite)
    BY <1>t DEF LatchFault, WriteFault, DeviceWrite, NextCycle, LoopStates
  <2>5. ~AuditWrite
    BY <1>t DEF AuditWrite, NextCycle, Forget, LoopStates
  <2> QED
    BY <1>1, <2>1, <2>2, <2>3, <2>4, <2>5 DEF LoopStep
<1>2. ~HandlerStep
  BY DEF HandlerStep, EmergencyStopWrite, EmergencyStopAudit, PipelineAlarms, KeepLoop
<1>3. ~(Environment /\ ~LoopPanics /\ ~WindowsRunOut)
  BY DEF Environment, EmergencyStopEngage, PipelineStore, Disconnect, EnableAuto, DisableAuto,
     ManualLock, ResetEmergencyStop, ResetControlFault, CommitTargets, Production,
     SampleAges, StatusAges, KeepLoop, KeepTasks
<1>4. ~LoopPanics
  BY <1>t DEF LoopPanics, Forget, NextCycle, LoopStates
<1>5. ~WindowsRunOut
  BY <1>t DEF WindowsRunOut, LoopStates
<1> QED
  BY <1>1, <1>2, <1>3, <1>4, <1>5 DEF Next

\* Phase 2 passes a command only if the live state still calls for it.
LEMMA InterlockHolds ==
  ASSUME TypeOK, InterlockLive, loop'.pc = "write"
  PROVE  /\ decide_control_with_device_status(rt) = Write(loop.command)
         /\ rt.active_batch_id = loop.batch
<1>t. loop \in LoopStates
  BY DEF TypeOK
<1> DEFINE passed == /\ loop.recheck = Write(loop.command)
                     /\ decide_control_with_device_status(rt) = Write(loop.command)
                     /\ rt.active_batch_id = loop.batch
<1>1. ~passed => \/ loop' = NextCycle(Forget(loop))
                 \/ loop' = Forget([loop EXCEPT !.pc = "latch"])
  BY DEF InterlockLive
<1>2. NextCycle(Forget(loop)).pc # "write" /\ Forget([loop EXCEPT !.pc = "latch"]).pc # "write"
  BY <1>t DEF NextCycle, Forget, LoopStates
<1> QED
  BY <1>1, <1>2

(***************************************************************************)
(* The loop only sets out to write what the live state still calls for: no *)
(* latch, automatic control on, a fresh sample, the targets and the batch  *)
(* it decided on, whatever happened between its decision and its write.    *)
(***************************************************************************)
THEOREM WritesStartLive == Spec => WriteStartsFromLiveState
<1> DEFINE A == loop.pc # "write" /\ loop'.pc = "write" =>
                  /\ ~rt.emergency_stop /\ ~rt.manual_lock /\ ~rt.last_control_error
                  /\ rt.auto_enabled /\ rt.latest_sample = "fresh"
                  /\ rt.targets = loop.command /\ rt.active_batch_id = loop.batch
<1>1. TypeOK /\ [Next]_vars => [A]_vars
  <2> SUFFICES ASSUME TypeOK, Next, loop.pc # "write", loop'.pc = "write" PROVE A
    BY DEF vars
  <2>1. rt \in RuntimeStates
    BY DEF TypeOK
  <2> QED
    BY <2>1, OnlyInterlockWrites, InterlockHolds, WriteDecision
<1> QED
  BY <1>1, TypeCorrect, PTL DEF Spec, WriteStartsFromLiveState

-----------------------------------------------------------------------------
(* The abstract gate of automatic control.                                 *)

\* A record compared with an earlier one: no latch moved, and the gate did not open.
Quiet(s, t) ==
    /\ EngagedLatches(t) = EngagedLatches(s)
    /\ t.auto_enabled \in {FALSE, s.auto_enabled}
    /\ t.control_loop_terminated = s.control_loop_terminated

\* The control fault engaged.
Faulted(s, t) ==
    /\ EngagedLatches(t) = EngagedLatches(s) \cup {"control_fault"}
    /\ t.auto_enabled = FALSE
    /\ t.control_loop_terminated = s.control_loop_terminated

\* A reading, accepted or rejected, moves no latch or engages the control fault.
LEMMA ReadingGate ==
  ASSUME NEW s \in RuntimeStates, NEW sample \in SampleView, NEW status \in StatusView
  PROVE  /\ \/ Quiet(s, accept_sample(s, sample, status))
            \/ Faulted(s, accept_sample(s, sample, status))
         /\ \/ Quiet(s, reject_sample(s, status))
            \/ Faulted(s, reject_sample(s, status))
         /\ Quiet(s, reject_unpersisted_sample_with_status(s, status))
         /\ Quiet(s, disable_auto_for_field_fault(s))
<1> DEFINE accepted == [s EXCEPT !.latest_sample = sample,
                                 !.last_sensor_error = FALSE,
                                 !.device_status = status]
           rejected == reject_unpersisted_sample_with_status(s, status)
<1>1. accepted \in RuntimeStates /\ Quiet(s, accepted)
  BY DEF RuntimeStates, Quiet, EngagedLatches
<1>2. rejected \in RuntimeStates /\ Quiet(s, rejected)
  <2>1. rejected \in RuntimeStates
    BY RejectTyping
  <2> QED
    BY <2>1 DEF RuntimeStates, Quiet, EngagedLatches, reject_unpersisted_sample_with_status,
       disable_auto_for_field_fault
<1>3. /\ Quiet(s, disable_auto_for_field_fault(accepted))
      /\ Quiet(s, disable_auto_for_field_fault(s))
  BY <1>1 DEF RuntimeStates, Quiet, EngagedLatches, disable_auto_for_field_fault
<1>4. ASSUME NEW t \in RuntimeStates, Quiet(s, t)
      PROVE  Faulted(s, latch_control_fault(t))
  BY <1>4, EngagingMethodsGate, EngagingMethods DEF Quiet, Faulted
<1>5. /\ Faulted(s, latch_control_fault(accepted))
      /\ Faulted(s, latch_control_fault(rejected))
  BY <1>1, <1>2, <1>4
<1>6. accept_sample(s, sample, status) \in
        {accepted, latch_control_fault(accepted), disable_auto_for_field_fault(accepted)}
  BY DEF accept_sample
<1>7. reject_sample(s, status) \in {rejected, latch_control_fault(rejected)}
  BY DEF reject_sample
<1> HIDE DEF accepted, rejected
<1> QED
  BY <1>1, <1>2, <1>3, <1>5, <1>6, <1>7 DEF rejected

\* A step that moves no latch and does not open the gate is Disable, or a stutter.
LEMMA QuietStep ==
  ASSUME Quiet(rt, rt')
  PROVE  [Gate!Next]_(Gate!gate)
<1>1. CASE rt'.auto_enabled = FALSE
  BY <1>1 DEF Quiet, Gate!Next, Gate!Disable
<1>2. CASE rt'.auto_enabled = rt.auto_enabled
  BY <1>2 DEF Quiet, Gate!gate
<1> QED
  BY <1>1, <1>2 DEF Quiet

\* A step that opens the gate with the interlock clear is Enable.
LEMMA OpenStep ==
  ASSUME ensure_target_update_interlock_clear(rt), rt'.auto_enabled = TRUE,
         EngagedLatches(rt') = EngagedLatches(rt),
         rt'.control_loop_terminated = rt.control_loop_terminated
  PROVE  Gate!Next
  BY ClearInterlockMeansNoLatch DEF Gate!Next, Gate!Enable

\* A step that engages latch k is Engage(k).
LEMMA EngageStep ==
  ASSUME NEW k \in Latches,
         EngagedLatches(rt') = EngagedLatches(rt) \cup {k}, rt'.auto_enabled = FALSE,
         rt'.control_loop_terminated = rt.control_loop_terminated
  PROVE  Gate!Next
<1>1. Gate!Engage(k)
  BY DEF Gate!Engage
<1> QED
  BY <1>1 DEF Gate!Next, Latches, Gate!Latches

\* A step that releases latch k is Release(k).
LEMMA ReleaseStep ==
  ASSUME NEW k \in Latches,
         EngagedLatches(rt') = EngagedLatches(rt) \ {k}, rt'.auto_enabled = FALSE,
         k = "control_fault" => ~rt.control_loop_terminated,
         rt'.control_loop_terminated = rt.control_loop_terminated
  PROVE  Gate!Next
<1>1. Gate!Release(k)
  BY DEF Gate!Release
<1> QED
  BY <1>1 DEF Gate!Next, Latches, Gate!Latches

\* A latched control fault is Engage("control_fault").
LEMMA FaultStep ==
  ASSUME rt \in RuntimeStates, Faulted(rt, rt') \/ rt' = latch_control_fault(rt)
  PROVE  Gate!Next
<1>1. "control_fault" \in Latches
  BY DEF Latches
<1>2. Faulted(rt, rt')
  BY EngagingMethodsGate, EngagingMethods DEF Faulted
<1> QED
  BY <1>1, <1>2, EngageStep DEF Faulted

\* disable_auto, enforce_control_fault_fail_closed and a step that leaves the record alone.
LEMMA DisablingIsQuiet ==
  ASSUME NEW s \in RuntimeStates
  PROVE  /\ Quiet(s, s)
         /\ Quiet(s, disable_auto(s))
         /\ Quiet(s, enforce_control_fault_fail_closed(s))
         /\ Quiet(s, enforce_control_fault_fail_closed(disable_auto(s)))
  BY DEF Quiet, disable_auto, enforce_control_fault_fail_closed, EngagedLatches, RuntimeStates

\* Every step of loop, handlers and environment is a step of the gate or leaves it alone.
LEMMA StepImplementsGate == TypeOK /\ [Next]_vars => [Gate!Next]_(Gate!gate)
<1> SUFFICES ASSUME TypeOK, [Next]_vars PROVE [Gate!Next]_(Gate!gate)
  OBVIOUS
<1>t. rt \in RuntimeStates
  BY DEF TypeOK
<1>k. /\ "manual_lock" \in Latches /\ "emergency_stop" \in Latches
      /\ "control_fault" \in Latches
  BY DEF Latches
<1>u. ASSUME UNCHANGED rt PROVE [Gate!Next]_(Gate!gate)
  BY <1>u, <1>t, DisablingIsQuiet, QuietStep
<1>1. CASE PipelineSupervision
  <2>1. "fresh" \in SampleView /\ "none" \in StatusView
    BY DEF SampleView, StatusView
  <2> QED
    BY <1>1, <1>t, <2>1, ReadingGate, DisablingIsQuiet, QuietStep DEF PipelineSupervision
<1>2. CASE SenseDevice
  <2>1. Quiet(rt, rt') \/ Faulted(rt, rt')
    BY <1>2, <1>t, ReadingGate, LoopFieldAssumption DEF SenseDevice, StatusView, SampleView
  <2> QED
    BY <2>1, <1>t, QuietStep, FaultStep
<1>3. CASE EnforceFault \/ PipelineAlarms \/ DisableAuto
  BY <1>3, <1>t, DisablingIsQuiet, QuietStep DEF EnforceFault, PipelineAlarms, DisableAuto
<1>4. CASE Decide \/ InterlockSnapshot \/ InterlockBatches \/ InterlockLive \/ DeviceWrite
           \/ AuditWrite \/ LoopPanics \/ WindowsRunOut \/ Disconnect
  BY <1>4, <1>u DEF Decide, InterlockSnapshot, InterlockBatches, InterlockLive, DeviceWrite,
     AuditWrite, LoopPanics, WindowsRunOut, Disconnect
<1>5. CASE LatchFault \/ WriteFault
  BY <1>5, <1>t, FaultStep DEF LatchFault, WriteFault
<1>6. CASE MonitorFailsSafe
  <2>1. Gate!Terminate
    BY <1>6, <1>t, EngagingMethodsGate DEF MonitorFailsSafe, Gate!Terminate
  <2> QED
    BY <2>1 DEF Gate!Next
<1>7. CASE EmergencyStopWrite \/ EmergencyStopAudit
  BY <1>7, <1>t, <1>u, FaultStep DEF EmergencyStopWrite, EmergencyStopAudit
<1>8. CASE EmergencyStopEngage
  BY <1>8, <1>t, <1>k, EngagingMethodsGate, EngagingMethods, EngageStep
  DEF EmergencyStopEngage
<1>9. CASE PipelineStore
  <2>1. \A sample \in Samples :
          Quiet(rt, [rt EXCEPT !.latest_sample = sample, !.last_sensor_error = FALSE])
    BY <1>t DEF Quiet, EngagedLatches, RuntimeStates
  <2>2. Quiet(rt, reject_unpersisted_sample_with_status(rt, "none"))
    BY <1>t, ReadingGate DEF SampleView, StatusView
  <2> QED
    BY <1>9, <2>1, <2>2, QuietStep DEF PipelineStore
<1>10. CASE EnableAuto
  <2>1. /\ rt'.auto_enabled = TRUE /\ EngagedLatches(rt') = EngagedLatches(rt)
        /\ rt'.control_loop_terminated = rt.control_loop_terminated
    BY <1>10, <1>t DEF EnableAuto, EngagedLatches, RuntimeStates
  <2> QED
    BY <1>10, <2>1, OpenStep DEF EnableAuto
<1>11. CASE ManualLock
  <2>1. CASE rt' = engage_manual_lock(rt)
    BY <2>1, <1>t, <1>k, EngagingMethodsGate, EngagingMethods, EngageStep
  <2>2. CASE rt' = clear_manual_lock(rt)
    BY <2>2, <1>t, <1>k, ReleasingMethodsGate, QuietMethods, ReleaseStep
  <2> QED
    BY <1>11, <2>1, <2>2 DEF ManualLock
<1>12. CASE ResetEmergencyStop \/ ResetControlFault
  BY <1>12, <1>t, <1>k, ReleasingMethodsGate, QuietMethods, ReleaseStep
  DEF ResetEmergencyStop, ResetControlFault
<1>13. CASE CommitTargets \/ SampleAges \/ StatusAges
  <2>1. \A t : Quiet(rt, [rt EXCEPT !.targets = t])
    BY <1>t DEF Quiet, EngagedLatches, RuntimeStates
  <2>2. \A sample : Quiet(rt, [rt EXCEPT !.latest_sample = sample])
    BY <1>t DEF Quiet, EngagedLatches, RuntimeStates
  <2>3. \A status : Quiet(rt, [rt EXCEPT !.device_status = status])
    BY <1>t DEF Quiet, EngagedLatches, RuntimeStates
  <2>4. Quiet(rt, rt')
    BY <1>13, <2>1, <2>2, <2>3 DEF CommitTargets, SampleAges, StatusAges
  <2> QED
    BY <2>4, QuietStep
<1>14. CASE Production
  <2>1. \/ UNCHANGED rt
        \/ Quiet(rt, rt')
        \/ /\ ensure_target_update_interlock_clear(rt)
           /\ rt'.auto_enabled = TRUE /\ EngagedLatches(rt') = EngagedLatches(rt)
           /\ rt'.control_loop_terminated = rt.control_loop_terminated
    BY <1>14, <1>t DEF Production, Quiet, EngagedLatches, RuntimeStates
  <2> QED
    BY <2>1, <1>u, QuietStep, OpenStep
<1>15. CASE UNCHANGED vars
  BY <1>15, <1>u DEF vars
<1> QED
  BY <1>1, <1>2, <1>3, <1>4, <1>5, <1>6, <1>7, <1>8, <1>9, <1>10, <1>11, <1>12, <1>13,
     <1>14, <1>15
  DEF Next, LoopStep, HandlerStep, Environment

\* A process starts with the gate closed.
LEMMA InitImplementsGate == Init => Gate!Init
  BY DEF Init, from_safety, Gate!Init, EngagedLatches, Latches, Gate!Latches

(***************************************************************************)
(* The loop, the emergency stop and the ingest implement the same abstract *)
(* gate as the operator's requests do: automatic control only opens with   *)
(* no latch engaged, and a dead loop keeps its fault.                      *)
(***************************************************************************)
THEOREM LoopImplementsGate == Spec => ImplementsGate
<1>1. Spec => [][Gate!Next]_(Gate!gate)
  BY StepImplementsGate, TypeCorrect, PTL DEF Spec
<1> QED
  BY <1>1, InitImplementsGate, PTL DEF Spec, ImplementsGate, Gate!Spec
=============================================================================
