------------------------- MODULE RuntimeStateProofs -------------------------
(***************************************************************************)
(* What each method of the runtime record returns: the record stays a      *)
(* RuntimeState, and a latch's generation moves only when it engages.      *)
(* These lemmas keep the arithmetic of saturating_inc out of the proofs    *)
(* about the handlers and the control loop.                                *)
(***************************************************************************)
EXTENDS RuntimeState, TLAPS

\* A generation stays within the width of its counter (u64::saturating_add).
LEMMA IncTyping ==
  ASSUME NEW n \in 0..GenerationLimit
  PROVE  saturating_inc(n) \in 0..GenerationLimit
  BY LimitAssumption DEF saturating_inc

\* Below the limit a generation strictly grows, and it never shrinks.
LEMMA IncGrows ==
  ASSUME NEW n \in 0..GenerationLimit
  PROVE  /\ n <= saturating_inc(n)
         /\ n < GenerationLimit => n < saturating_inc(n)
  BY LimitAssumption DEF saturating_inc

\* RuntimeState::from_safety builds a RuntimeState.
LEMMA FromSafetyTyping == from_safety \in RuntimeStates
<1>1. (IF ManualLockDefault THEN 1 ELSE 0) \in 0..GenerationLimit
  BY LimitAssumption, FlagAssumption
<1>2. 0 \in 0..GenerationLimit
  BY LimitAssumption
<1>3. ManualLockDefault \in BOOLEAN /\ NoBatch \in BatchIds
  BY FlagAssumption DEF BatchIds
<1> QED
  BY <1>1, <1>2, <1>3, TargetAssumption
  DEF from_safety, RuntimeStates, SampleView, StatusView

\* latch_control_fault keeps the record a RuntimeState.
LEMMA LatchTyping ==
  ASSUME NEW s \in RuntimeStates
  PROVE  latch_control_fault(s) \in RuntimeStates
  BY IncTyping DEF latch_control_fault, RuntimeStates

\* engage_manual_lock keeps the record a RuntimeState.
LEMMA LockTyping ==
  ASSUME NEW s \in RuntimeStates
  PROVE  engage_manual_lock(s) \in RuntimeStates
  BY IncTyping DEF engage_manual_lock, RuntimeStates

\* engage_emergency_stop keeps the record a RuntimeState.
LEMMA StopTyping ==
  ASSUME NEW s \in RuntimeStates
  PROVE  engage_emergency_stop(s) \in RuntimeStates
  BY IncTyping DEF engage_emergency_stop, RuntimeStates

\* The monitor's fail-safe keeps the record a RuntimeState.
LEMMA TerminateTyping ==
  ASSUME NEW s \in RuntimeStates
  PROVE  terminate_control_loop(s) \in RuntimeStates
<1>1. [s EXCEPT !.control_loop_terminated = TRUE] \in RuntimeStates
  BY DEF RuntimeStates
<1> QED
  BY <1>1, LatchTyping DEF terminate_control_loop

\* The methods that only clear fields keep the record a RuntimeState.
LEMMA ClearTyping ==
  ASSUME NEW s \in RuntimeStates
  PROVE  /\ disable_auto(s) \in RuntimeStates
         /\ clear_control_fault(s) \in RuntimeStates
         /\ clear_manual_lock(s) \in RuntimeStates
         /\ clear_emergency_stop(s) \in RuntimeStates
         /\ enforce_control_fault_fail_closed(s) \in RuntimeStates
  BY DEF disable_auto, clear_control_fault, clear_manual_lock, clear_emergency_stop,
         enforce_control_fault_fail_closed, RuntimeStates

\* Accepting a sample keeps the record a RuntimeState.
LEMMA AcceptTyping ==
  ASSUME NEW s \in RuntimeStates, NEW sample \in SampleView, NEW status \in StatusView
  PROVE  accept_sample(s, sample, status) \in RuntimeStates
<1> DEFINE accepted == [s EXCEPT !.latest_sample = sample,
                                 !.last_sensor_error = FALSE,
                                 !.device_status = status]
<1>1. accepted \in RuntimeStates
  BY DEF RuntimeStates
<1>2. latch_control_fault(accepted) \in RuntimeStates
  BY <1>1, LatchTyping
<1>3. disable_auto_for_field_fault(accepted) \in RuntimeStates
  BY <1>1 DEF disable_auto_for_field_fault, RuntimeStates
<1> QED
  BY <1>1, <1>2, <1>3 DEF accept_sample

\* Rejecting a sample keeps the record a RuntimeState.
LEMMA RejectTyping ==
  ASSUME NEW s \in RuntimeStates, NEW status \in StatusView
  PROVE  /\ reject_unpersisted_sample_with_status(s, status) \in RuntimeStates
         /\ reject_sample(s, status) \in RuntimeStates
<1>1. reject_unpersisted_sample_with_status(s, status) \in RuntimeStates
  BY DEF reject_unpersisted_sample_with_status, disable_auto_for_field_fault,
         RuntimeStates, SampleView
<1> QED
  BY <1>1, LatchTyping DEF reject_sample

\* The runtime a fresh process recovers is a RuntimeState.
LEMMA RecoverTyping ==
  ASSUME NEW first \in BatchIds
  PROVE  recover_runtime_from_db(first) \in RuntimeStates
<1>1. [from_safety EXCEPT !.active_batch_id = first] \in RuntimeStates
  BY FromSafetyTyping DEF RuntimeStates
<1> QED
  BY <1>1, FromSafetyTyping, LatchTyping DEF recover_runtime_from_db

\* The generations a handler reads are generations.
LEMMA FromRuntimeTyping ==
  ASSUME NEW s \in RuntimeStates
  PROVE  from_runtime(s) \in SafetyLatchGenerations
  BY DEF from_runtime, RuntimeStates, SafetyLatchGenerations

\* The methods that engage no latch leave the generations alone.
LEMMA QuietMethods ==
  ASSUME NEW s \in RuntimeStates
  PROVE  /\ from_runtime(disable_auto(s)) = from_runtime(s)
         /\ from_runtime(clear_control_fault(s)) = from_runtime(s)
         /\ from_runtime(clear_manual_lock(s)) = from_runtime(s)
         /\ from_runtime(clear_emergency_stop(s)) = from_runtime(s)
         /\ disable_auto(s).control_loop_terminated = s.control_loop_terminated
         /\ clear_control_fault(s).control_loop_terminated = s.control_loop_terminated
         /\ clear_manual_lock(s).control_loop_terminated = s.control_loop_terminated
         /\ clear_emergency_stop(s).control_loop_terminated = s.control_loop_terminated
  BY DEF from_runtime, RuntimeStates, disable_auto, clear_control_fault,
         clear_manual_lock, clear_emergency_stop

\* Engaging a latch advances its generation, and only its own.
LEMMA EngagingMethods ==
  ASSUME NEW s \in RuntimeStates
  PROVE  /\ from_runtime(engage_emergency_stop(s)) =
              [from_runtime(s) EXCEPT !.emergency_stop = saturating_inc(@)]
         /\ from_runtime(engage_manual_lock(s)) =
              [from_runtime(s) EXCEPT !.manual_lock = saturating_inc(@)]
         /\ from_runtime(latch_control_fault(s)) =
              [from_runtime(s) EXCEPT !.control_fault = saturating_inc(@)]
         /\ from_runtime(terminate_control_loop(s)) =
              [from_runtime(s) EXCEPT !.control_fault = saturating_inc(@)]
         /\ engage_emergency_stop(s).control_loop_terminated = s.control_loop_terminated
         /\ engage_manual_lock(s).control_loop_terminated = s.control_loop_terminated
         /\ latch_control_fault(s).control_loop_terminated = s.control_loop_terminated
  BY DEF from_runtime, RuntimeStates, engage_emergency_stop, engage_manual_lock,
         latch_control_fault, terminate_control_loop

-----------------------------------------------------------------------------
(* How the methods move the abstract gate of automatic control (AutoGate).  *)

\* Engaging a latch adds it to the engaged latches and closes the gate.
LEMMA EngagingMethodsGate ==
  ASSUME NEW s \in RuntimeStates
  PROVE  /\ EngagedLatches(engage_emergency_stop(s)) =
              EngagedLatches(s) \cup {"emergency_stop"}
         /\ EngagedLatches(engage_manual_lock(s)) = EngagedLatches(s) \cup {"manual_lock"}
         /\ EngagedLatches(latch_control_fault(s)) = EngagedLatches(s) \cup {"control_fault"}
         /\ EngagedLatches(terminate_control_loop(s)) =
              EngagedLatches(s) \cup {"control_fault"}
         /\ engage_emergency_stop(s).auto_enabled = FALSE
         /\ engage_manual_lock(s).auto_enabled = FALSE
         /\ latch_control_fault(s).auto_enabled = FALSE
         /\ terminate_control_loop(s).auto_enabled = FALSE
         /\ terminate_control_loop(s).control_loop_terminated = TRUE
  BY DEF EngagedLatches, Latches, RuntimeStates, engage_emergency_stop,
         engage_manual_lock, latch_control_fault, terminate_control_loop

\* Releasing a latch removes it and leaves the gate closed; disabling only closes it.
LEMMA ReleasingMethodsGate ==
  ASSUME NEW s \in RuntimeStates
  PROVE  /\ EngagedLatches(clear_emergency_stop(s)) = EngagedLatches(s) \ {"emergency_stop"}
         /\ EngagedLatches(clear_manual_lock(s)) = EngagedLatches(s) \ {"manual_lock"}
         /\ EngagedLatches(clear_control_fault(s)) = EngagedLatches(s) \ {"control_fault"}
         /\ EngagedLatches(disable_auto(s)) = EngagedLatches(s)
         /\ clear_emergency_stop(s).auto_enabled = FALSE
         /\ clear_manual_lock(s).auto_enabled = FALSE
         /\ clear_control_fault(s).auto_enabled = FALSE
         /\ disable_auto(s).auto_enabled = FALSE
  BY DEF EngagedLatches, Latches, RuntimeStates, clear_emergency_stop,
         clear_manual_lock, clear_control_fault, disable_auto

\* The interlock of set_auto and of the start commit is only clear with no latch engaged.
LEMMA ClearInterlockMeansNoLatch ==
  ASSUME NEW s, ensure_target_update_interlock_clear(s)
  PROVE  EngagedLatches(s) = {}
  BY DEF ensure_target_update_interlock_clear, EngagedLatches, Latches
=============================================================================
