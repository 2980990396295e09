----------------------- MODULE SafetyLatchesRefinement -----------------------
(***************************************************************************)
(* The operator requests, the latches and the restarts of SafetyLatches    *)
(* implement the abstract gate of automatic control (AutoGate), for every  *)
(* value of the constants.  Each method of the runtime record maps to one  *)
(* action of the gate; most of the steps between them are stutters.        *)
(***************************************************************************)
EXTENDS SafetyLatchesProofs

\* A process starts with the gate closed.
LEMMA InitImplementsGate == Init => Gate!Init
<1> SUFFICES ASSUME Init PROVE Gate!Init
  OBVIOUS
<1>1. rt.auto_enabled = FALSE /\ rt.control_loop_terminated = FALSE
  BY DEF Init, recover_runtime_from_db, from_safety, latch_control_fault
<1> QED
  BY <1>1 DEF Init, Gate!Init, EngagedLatches, Latches, Gate!Latches

\* A step that engages latch k is Engage(k).
LEMMA EngageStep ==
  ASSUME NEW k \in Latches,
         EngagedLatches(rt') = EngagedLatches(rt) \cup {k}, rt'.auto_enabled = FALSE,
         rt'.control_loop_terminated = rt.control_loop_terminated, restarts' = restarts
  PROVE  Gate!Next
<1>1. Gate!Engage(k)
  BY DEF Gate!Engage
<1> QED
  BY <1>1 DEF Gate!Next, Latches, Gate!Latches

\* A step that releases latch k is Release(k).
LEMMA ReleaseStep ==
  ASSUME NEW k \in Latches,
         EngagedLatches(rt') = EngagedLatches(rt) \ {k}, rt'.auto_enabled = FALSE,
         k = "control_fault" => ~rt.control_loop_terminated,
         rt'.control_loop_terminated = rt.control_loop_terminated, restarts' = restarts
  PROVE  Gate!Next
<1>1. Gate!Release(k)
  BY DEF Gate!Release
<1> QED
  BY <1>1 DEF Gate!Next, Latches, Gate!Latches

\* A step that touches no latch closes the gate, opens it with no latch engaged, or stutters.
LEMMA MoveStep ==
  ASSUME EngagedLatches(rt') = EngagedLatches(rt),
         \/ rt'.auto_enabled = FALSE
         \/ rt'.auto_enabled = TRUE /\ EngagedLatches(rt) = {}
         \/ rt'.auto_enabled = rt.auto_enabled,
         rt'.control_loop_terminated = rt.control_loop_terminated, restarts' = restarts
  PROVE  [Gate!Next]_(Gate!gate)
<1>1. CASE rt'.auto_enabled = FALSE
  BY <1>1 DEF Gate!Next, Gate!Disable
<1>2. CASE rt'.auto_enabled = TRUE /\ EngagedLatches(rt) = {}
  BY <1>2 DEF Gate!Next, Gate!Enable
<1>3. CASE rt'.auto_enabled = rt.auto_enabled
  BY <1>3 DEF Gate!gate
<1> QED
  BY <1>1, <1>2, <1>3

\* Every step of SafetyLatches is a step of the gate or leaves it alone.
LEMMA StepImplementsGate == Inv /\ Inv' /\ [Next]_vars => [Gate!Next]_(Gate!gate)
<1> SUFFICES ASSUME Inv, Inv', [Next]_vars PROVE [Gate!Next]_(Gate!gate)
  OBVIOUS
<1>t. rt \in RuntimeStates
  BY DEF Inv, TypeOK
<1>k. /\ "manual_lock" \in Latches
      /\ "emergency_stop" \in Latches
      /\ "control_fault" \in Latches
  BY DEF Latches
<1>1. CASE EmergencyStop \/ LockManually \/ LatchControlFault
  <2>1. CASE EmergencyStop
    BY <2>1, <1>t, <1>k, EngagingMethodsGate, EngagingMethods, EngageStep
    DEF EmergencyStop, KeepRest
  <2>2. CASE LockManually
    BY <2>2, <1>t, <1>k, EngagingMethodsGate, EngagingMethods, EngageStep
    DEF LockManually, KeepRest
  <2>3. CASE LatchControlFault
    BY <2>3, <1>t, <1>k, EngagingMethodsGate, EngagingMethods, EngageStep
    DEF LatchControlFault, KeepRest
  <2> QED
    BY <1>1, <2>1, <2>2, <2>3
<1>2. CASE ControlLoopTerminates
  <2>1. Gate!Terminate
    BY <1>2, <1>t, EngagingMethodsGate DEF ControlLoopTerminates, KeepRest, Gate!Terminate
  <2> QED
    BY <2>1 DEF Gate!Next
<1>3. CASE SetAutoOff
  BY <1>3, <1>t, ReleasingMethodsGate, QuietMethods, MoveStep DEF SetAutoOff, KeepRest
<1>4. ASSUME NEW r \in Requests, RequestStep(r)
      PROVE  [Gate!Next]_(Gate!gate)
  <2>r. restarts' = restarts
    BY <1>4, RequestStepKeepsRest
  <2>1. CASE rt' = rt
    BY <2>1, <2>r, MoveStep
  <2>2. CASE rt' = disable_auto(rt)
    BY <2>2, <2>r, <1>t, ReleasingMethodsGate, QuietMethods, MoveStep
  <2>3. CASE rt' = clear_manual_lock(rt) \/ rt' = clear_emergency_stop(rt)
    BY <2>3, <2>r, <1>t, <1>k, ReleasingMethodsGate, QuietMethods, ReleaseStep
  <2>4. CASE rt' = clear_control_fault(rt)
    <3>1. rt'.last_control_error = FALSE
      BY <2>4, <1>t DEF clear_control_fault, RuntimeStates
    <3>2. ~rt'.control_loop_terminated
      BY <3>1 DEF Inv, DeadLoopStaysLatched
    <3>3. ~rt.control_loop_terminated
      BY <3>2, <2>4, <1>t, QuietMethods
    <3> QED
      BY <2>4, <2>r, <3>3, <1>t, <1>k, ReleasingMethodsGate, QuietMethods, ReleaseStep
  <2>5. CASE /\ ensure_target_update_interlock_clear(rt)
             /\ rt' = [rt EXCEPT !.auto_enabled = TRUE]
    <3>1. /\ EngagedLatches(rt') = EngagedLatches(rt)
          /\ rt'.control_loop_terminated = rt.control_loop_terminated
          /\ rt'.auto_enabled = TRUE
      BY <2>5, <1>t DEF EngagedLatches, RuntimeStates
    <3> QED
      BY <3>1, <2>5, <2>r, ClearInterlockMeansNoLatch, MoveStep
  <2>6. CASE rt' = [rt EXCEPT !.targets = MergedTargets(r)]
    <3>1. /\ EngagedLatches(rt') = EngagedLatches(rt)
          /\ rt'.control_loop_terminated = rt.control_loop_terminated
          /\ rt'.auto_enabled = rt.auto_enabled
      BY <2>6, <1>t DEF EngagedLatches, RuntimeStates
    <3> QED
      BY <3>1, <2>r, MoveStep
  <2> QED
    BY <1>4, <2>1, <2>2, <2>3, <2>4, <2>5, <2>6
    DEF RequestStep, SetAutoCheck, SetAutoCommit, UnlockCheck, UnlockCheckAgain,
        UnlockRecheck, UnlockClear, ResetControlFaultCheck, ResetControlFaultCommit,
        ResetEmergencyStopCheck, ResetEmergencyStopCommit, SetTargetsMerge,
        SetTargetsCheck, SetTargetsList, SetTargetsCommit, VerifyBatches, Audit, Disconnect
<1>5. CASE FieldReports
  <2>1. PICK sample \in Samples, status \in Statuses :
            rt' = accept_sample(rt, sample, status)
    BY <1>5 DEF FieldReports
  <2>r. restarts' = restarts
    BY <1>5 DEF FieldReports, KeepRest
  <2> DEFINE accepted == [rt EXCEPT !.latest_sample = sample,
                                    !.last_sensor_error = FALSE,
                                    !.device_status = status]
  <2>2. /\ accepted \in RuntimeStates
        /\ EngagedLatches(accepted) = EngagedLatches(rt)
        /\ accepted.control_loop_terminated = rt.control_loop_terminated
        /\ accepted.auto_enabled = rt.auto_enabled
    BY <1>t, FieldAssumption DEF RuntimeStates, EngagedLatches
  <2>3. CASE rt' = accepted
    BY <2>2, <2>3, <2>r, MoveStep
  <2>4. CASE rt' = latch_control_fault(accepted)
    <3> HIDE DEF accepted
    <3>1. /\ EngagedLatches(rt') = EngagedLatches(accepted) \cup {"control_fault"}
          /\ rt'.auto_enabled = FALSE
      BY <2>2, <2>4, EngagingMethodsGate
    <3>2. rt'.control_loop_terminated = accepted.control_loop_terminated
      BY <2>2, <2>4, EngagingMethods
    <3>3. Gate!Next
      BY <2>2, <2>r, <1>k, <3>1, <3>2, EngageStep
    <3> QED
      BY <3>3
  <2>5. CASE rt' = disable_auto_for_field_fault(accepted)
    <3>1. /\ EngagedLatches(rt') = EngagedLatches(accepted)
          /\ rt'.control_loop_terminated = accepted.control_loop_terminated
          /\ rt'.auto_enabled = FALSE
      BY <2>2, <2>5 DEF disable_auto_for_field_fault, RuntimeStates, EngagedLatches
    <3> QED
      BY <3>1, <2>2, <2>r, MoveStep
  <2> QED
    BY <2>1, <2>3, <2>4, <2>5 DEF accept_sample
<1>6. CASE FieldLost
  <2>1. /\ EngagedLatches(rt') = EngagedLatches(rt)
        /\ rt'.control_loop_terminated = rt.control_loop_terminated
        /\ rt'.auto_enabled = FALSE
    BY <1>6, <1>t DEF FieldLost, reject_unpersisted_sample_with_status,
                      disable_auto_for_field_fault, RuntimeStates, EngagedLatches
  <2> QED
    BY <1>6, <2>1, MoveStep DEF FieldLost, KeepRest
<1>7. CASE SampleAges
  <2>1. /\ EngagedLatches(rt') = EngagedLatches(rt)
        /\ rt'.control_loop_terminated = rt.control_loop_terminated
        /\ rt'.auto_enabled = rt.auto_enabled
    BY <1>7, <1>t DEF SampleAges, RuntimeStates, EngagedLatches
  <2> QED
    BY <1>7, <2>1, MoveStep DEF SampleAges, KeepRest
<1>8. CASE \E b \in Batches : OpenBatch(b) \/ CloseBatch(b)
  BY <1>8, MoveStep DEF OpenBatch, CloseBatch
<1>9. CASE \E b \in Batches : ActivateBatch(b)
  <2>1. /\ EngagedLatches(rt') = EngagedLatches(rt)
        /\ rt'.control_loop_terminated = rt.control_loop_terminated
        /\ rt'.auto_enabled \in BOOLEAN
        /\ ensure_target_update_interlock_clear(rt)
    BY <1>9, <1>t DEF ActivateBatch, RuntimeStates, EngagedLatches
  <2> QED
    BY <1>9, <2>1, ClearInterlockMeansNoLatch, MoveStep DEF ActivateBatch, KeepRest
<1>10. CASE DeactivateBatch
  <2>1. /\ EngagedLatches(rt') = EngagedLatches(rt)
        /\ rt'.control_loop_terminated = rt.control_loop_terminated
        /\ rt'.auto_enabled = FALSE
    BY <1>10, <1>t DEF DeactivateBatch, RuntimeStates, EngagedLatches
  <2> QED
    BY <1>10, <2>1, MoveStep DEF DeactivateBatch, KeepRest
<1>11. CASE Restart
  <2>1. PICK first : rt' = recover_runtime_from_db(first)
    BY <1>11 DEF Restart
  <2>2. rt'.auto_enabled = FALSE /\ rt'.control_loop_terminated = FALSE
    BY <2>1 DEF recover_runtime_from_db, from_safety, latch_control_fault
  <2>3. Gate!Restart
    BY <1>11, <2>2 DEF Restart, Gate!Restart, EngagedLatches, Latches, Gate!Latches
  <2> QED
    BY <2>3 DEF Gate!Next
<1>12. CASE UNCHANGED vars
  BY <1>12, MoveStep DEF vars
<1> QED
  BY <1>1, <1>2, <1>3, <1>4, <1>5, <1>6, <1>7, <1>8, <1>9, <1>10, <1>11, <1>12 DEF Next

(***************************************************************************)
(* SafetyLatches implements AutoGate: whatever order the handlers, the     *)
(* latches, the field, production and crashes interleave in, automatic     *)
(* control only opens with no latch engaged, closes with every latch, and  *)
(* stays closed until it is enabled again.                                 *)
(***************************************************************************)
THEOREM LatchesImplementGate == Spec => ImplementsGate
<1>1. Spec => [][Gate!Next]_(Gate!gate)
  BY StepImplementsGate, InvCorrect, PTL DEF Spec
<1> QED
  BY <1>1, InitImplementsGate, PTL DEF Spec, ImplementsGate, Gate!Spec
=============================================================================
