------------------------- MODULE SafetyLatchesProofs -------------------------
(***************************************************************************)
(* Theorems about SafetyLatches, for every number of requests, batches,    *)
(* targets, generations and restarts.                                      *)
(***************************************************************************)
EXTENDS SafetyLatches, RuntimeStateProofs

-----------------------------------------------------------------------------
(* Types.                                                                  *)

\* An idle request is a request state.
LEMMA IdleTyping ==
  Idle \in [kind : {"none"}, pc : {"idle"}, acknowledged : SafetyLatchGenerations,
            batch : BatchIds, wanted : Temperatures, current : ControlTargets,
            listed : SUBSET Batches]
<1>1. 0 \in 0..GenerationLimit
  BY LimitAssumption
<1>2. DefaultTargets.temperature_c \in Temperatures
  BY TargetAssumption DEF ControlTargets
<1> QED
  BY <1>1, <1>2, TargetAssumption DEF Idle, SafetyLatchGenerations, BatchIds

\* A handler that returns leaves well-typed bookkeeping.
LEMMA ReturnTyping ==
  ASSUME TypeOK, NEW r \in Requests, Return(r)
  PROVE  /\ req' \in [Requests -> RequestStates]
         /\ fired' \in [Requests -> SUBSET Latches]
<1>1. Idle \in RequestStates
  BY IdleTyping DEF RequestStates, Phases
<1> QED
  BY <1>1 DEF Return, TypeOK

\* A handler that acknowledges the field leaves well-typed bookkeeping.
LEMMA AcknowledgeTyping ==
  ASSUME TypeOK, NEW r \in Requests, NEW kind \in Kinds, NEW pc \in Phases,
         Acknowledge(r, kind, pc, rt)
  PROVE  /\ req' \in [Requests -> RequestStates]
         /\ fired' \in [Requests -> SUBSET Latches]
<1>1. from_runtime(rt) \in SafetyLatchGenerations
  BY FromRuntimeTyping DEF TypeOK
<1>2. rt.active_batch_id \in BatchIds
  BY DEF TypeOK, RuntimeStates
<1>3. [req[r] EXCEPT !.kind = kind, !.pc = pc, !.acknowledged = from_runtime(rt),
                     !.batch = rt.active_batch_id] \in RequestStates
  BY <1>1, <1>2 DEF TypeOK, RequestStates
<1> QED
  BY <1>3 DEF Acknowledge, TypeOK

\* A handler that moves to another phase leaves well-typed bookkeeping.
LEMMA GotoTyping ==
  ASSUME TypeOK, NEW r \in Requests, NEW pc \in Phases, Goto(r, pc)
  PROVE  req' \in [Requests -> RequestStates]
  BY DEF Goto, TypeOK, RequestStates

\* An engagement is recorded in the histories.
LEMMA FireTyping ==
  ASSUME TypeOK, NEW k \in Latches, Fire(k)
  PROVE  fired' \in [Requests -> SUBSET Latches]
  BY DEF Fire, TypeOK

\* Every step of a request keeps the types.
LEMMA RequestStepTyping ==
  ASSUME TypeOK, NEW r \in Requests, RequestStep(r)
  PROVE  TypeOK'
<1> USE DEF KeepRest
<1>t. rt \in RuntimeStates
  BY DEF TypeOK
<1>d. /\ disable_auto(rt) \in RuntimeStates
      /\ clear_control_fault(rt) \in RuntimeStates
      /\ clear_manual_lock(rt) \in RuntimeStates
      /\ clear_emergency_stop(rt) \in RuntimeStates
  BY <1>t, ClearTyping
<1>a. [rt EXCEPT !.auto_enabled = TRUE] \in RuntimeStates
  BY <1>t DEF RuntimeStates
<1>p. \A q \in {"idle", "merged", "cloned", "verified", "recloned", "reverified",
                "audited", "rechecked", "listed"} : q \in Phases
  BY DEF Phases
<1>1. CASE SetAutoCheck(r)
  BY <1>1, <1>d, <1>p, AcknowledgeTyping DEF SetAutoCheck, TypeOK
<1>2. CASE SetAutoCommit(r)
  BY <1>2, <1>t, <1>d, <1>a, ReturnTyping DEF SetAutoCommit, TypeOK
<1>3. CASE UnlockCheck(r)
  BY <1>3, <1>d, <1>p, AcknowledgeTyping DEF UnlockCheck, TypeOK
<1>4. CASE UnlockCheckAgain(r)
  <2>1. rt.active_batch_id \in BatchIds
    BY <1>t DEF RuntimeStates
  <2>2. [req[r] EXCEPT !.pc = "recloned", !.batch = rt.active_batch_id] \in RequestStates
    BY <2>1, <1>p DEF TypeOK, RequestStates
  <2> QED
    BY <1>4, <2>2, ReturnTyping DEF UnlockCheckAgain, TypeOK
<1>5. CASE UnlockRecheck(r)
  BY <1>5, <1>d, <1>p, ReturnTyping, GotoTyping DEF UnlockRecheck, TypeOK
<1>6. CASE UnlockClear(r)
  BY <1>6, <1>d, ReturnTyping DEF UnlockClear, TypeOK
<1>7. CASE ResetControlFaultCheck(r)
  BY <1>7, <1>d, <1>p, AcknowledgeTyping DEF ResetControlFaultCheck, TypeOK
<1>8. CASE ResetControlFaultCommit(r)
  BY <1>8, <1>d, ReturnTyping DEF ResetControlFaultCommit, TypeOK
<1>9. CASE ResetEmergencyStopCheck(r)
  BY <1>9, <1>d, <1>p, AcknowledgeTyping DEF ResetEmergencyStopCheck, TypeOK
<1>10. CASE ResetEmergencyStopCommit(r)
  BY <1>10, <1>t, <1>d, ReturnTyping DEF ResetEmergencyStopCommit, TypeOK
<1>11. CASE SetTargetsMerge(r)
  <2>1. rt.targets \in ControlTargets
    BY <1>t DEF RuntimeStates
  <2>2. ASSUME NEW t \in Temperatures
        PROVE  [Idle EXCEPT !.kind = "targets", !.pc = "merged",
                            !.wanted = t, !.current = rt.targets] \in RequestStates
    BY <1>11, <2>1, <1>p, IdleTyping DEF SetTargetsMerge, RequestStates
  <2> QED
    BY <1>11, <2>2 DEF SetTargetsMerge, TypeOK
<1>12. CASE SetTargetsCheck(r)
  <2>1. "targets" \in Kinds
    BY <1>12 DEF SetTargetsCheck, At, TypeOK, RequestStates
  <2> QED
    BY <1>12, <2>1, <1>d, <1>p, AcknowledgeTyping, ReturnTyping DEF SetTargetsCheck, TypeOK
<1>13. CASE SetTargetsList(r)
  <2>1. [req[r] EXCEPT !.pc = "listed", !.listed = unfinished] \in RequestStates
    BY <1>p DEF TypeOK, RequestStates
  <2> QED
    BY <1>13, <2>1 DEF SetTargetsList, TypeOK
<1>14. CASE SetTargetsCommit(r)
  <2>1. MergedTargets(r) \in ControlTargets
    BY DEF MergedTargets, TypeOK, RequestStates, ControlTargets
  <2>2. [rt EXCEPT !.targets = MergedTargets(r)] \in RuntimeStates
    BY <1>t, <2>1 DEF RuntimeStates
  <2> QED
    BY <1>14, <1>t, <1>d, <2>2, ReturnTyping DEF SetTargetsCommit, TypeOK
<1>15. CASE VerifyBatches(r)
  BY <1>15, <1>p, ReturnTyping, GotoTyping DEF VerifyBatches, TypeOK
<1>16. CASE Audit(r)
  BY <1>16, <1>p, ReturnTyping, GotoTyping DEF Audit, TypeOK
<1>17. CASE Disconnect(r)
  BY <1>17, ReturnTyping DEF Disconnect, TypeOK
<1> QED
  BY RequestStep(r), <1>1, <1>2, <1>3, <1>4, <1>5, <1>6, <1>7, <1>8, <1>9, <1>10,
     <1>11, <1>12, <1>13, <1>14, <1>15, <1>16, <1>17 DEF RequestStep

\* The process starts in a well-typed state.
LEMMA InitTyping == Init => TypeOK
<1> SUFFICES ASSUME Init PROVE TypeOK
  OBVIOUS
<1>1. inherited \in BatchIds
  BY DEF Init, BatchIds
<1>2. rt \in RuntimeStates
  BY <1>1, RecoverTyping DEF Init
<1>3. Idle \in RequestStates
  BY IdleTyping DEF RequestStates, Phases
<1> QED
  BY <1>1, <1>2, <1>3, RestartAssumption DEF Init, TypeOK

\* Every step keeps the types.
LEMMA StepTyping == TypeOK /\ [Next]_vars => TypeOK'
<1> SUFFICES ASSUME TypeOK, [Next]_vars PROVE TypeOK'
  OBVIOUS
<1> USE DEF KeepRest
<1>t. rt \in RuntimeStates
  BY DEF TypeOK
<1>k. /\ "manual_lock" \in Latches
      /\ "emergency_stop" \in Latches
      /\ "control_fault" \in Latches
  BY DEF Latches
<1>1. CASE EmergencyStop
  BY <1>1, <1>t, <1>k, StopTyping, FireTyping DEF EmergencyStop, TypeOK
<1>2. CASE LockManually
  BY <1>2, <1>t, <1>k, LockTyping, FireTyping DEF LockManually, TypeOK
<1>3. CASE LatchControlFault
  BY <1>3, <1>t, <1>k, LatchTyping, FireTyping DEF LatchControlFault, TypeOK
<1>4. CASE ControlLoopTerminates
  BY <1>4, <1>t, <1>k, TerminateTyping, FireTyping DEF ControlLoopTerminates, TypeOK
<1>5. CASE SetAutoOff
  BY <1>5, <1>t, ClearTyping DEF SetAutoOff, TypeOK
<1>6. CASE \E r \in Requests : RequestStep(r)
  BY <1>6, RequestStepTyping
<1>7. CASE FieldReports
  <2>1. PICK sample \in Samples, status \in Statuses :
            rt' = accept_sample(rt, sample, status)
    BY <1>7 DEF FieldReports
  <2>2. rt' \in RuntimeStates
    BY <2>1, <1>t, AcceptTyping, FieldAssumption
  <2> QED
    BY <1>7, <2>2, <1>k, FireTyping DEF FieldReports, TypeOK
<1>8. CASE FieldLost
  BY <1>8, <1>t, RejectTyping DEF FieldLost, TypeOK, StatusView
<1>9. CASE SampleAges
  BY <1>9, <1>t DEF SampleAges, TypeOK, RuntimeStates, SampleView
<1>10. CASE \E b \in Batches : OpenBatch(b)
  BY <1>10 DEF OpenBatch, TypeOK
<1>11. CASE \E b \in Batches : ActivateBatch(b)
  <2>1. PICK b \in Batches, recipe \in Recipes, auto \in BOOLEAN :
            rt' = [rt EXCEPT !.targets.hold_time_s = recipe,
                             !.active_batch_id = b,
                             !.auto_enabled = auto]
    BY <1>11 DEF ActivateBatch
  <2>2. [rt.targets EXCEPT !.hold_time_s = recipe] \in ControlTargets
    BY <1>t DEF RuntimeStates, ControlTargets
  <2>3. rt' \in RuntimeStates
    BY <1>t, <2>1, <2>2 DEF RuntimeStates, BatchIds
  <2> QED
    BY <1>11, <2>3 DEF ActivateBatch, TypeOK
<1>12. CASE \E b \in Batches : CloseBatch(b)
  BY <1>12 DEF CloseBatch, TypeOK, BatchIds
<1>13. CASE DeactivateBatch
  <2>1. PICK recipe \in Recipes, active \in {rt.active_batch_id, NoBatch} :
            rt' = [rt EXCEPT !.targets.hold_time_s = recipe,
                             !.active_batch_id = active,
                             !.auto_enabled = FALSE]
    BY <1>13 DEF DeactivateBatch
  <2>2. [rt.targets EXCEPT !.hold_time_s = recipe] \in ControlTargets
    BY <1>t DEF RuntimeStates, ControlTargets
  <2>3. active \in BatchIds
    BY <1>t DEF RuntimeStates, BatchIds
  <2>4. rt' \in RuntimeStates
    BY <1>t, <2>1, <2>2, <2>3 DEF RuntimeStates
  <2> QED
    BY <1>13, <2>4 DEF DeactivateBatch, TypeOK
<1>14. CASE Restart
  <2>1. inherited' \in BatchIds /\ rt' = recover_runtime_from_db(inherited')
    BY <1>14 DEF Restart, TypeOK, BatchIds
  <2>2. rt' \in RuntimeStates
    BY <2>1, RecoverTyping
  <2>3. Idle \in RequestStates
    BY IdleTyping DEF RequestStates, Phases
  <2> QED
    BY <1>14, <2>1, <2>2, <2>3, RestartAssumption DEF Restart, TypeOK
<1>15. CASE UNCHANGED vars
  BY <1>15 DEF vars, TypeOK
<1> QED
  BY <1>1, <1>2, <1>3, <1>4, <1>5, <1>6, <1>7, <1>8, <1>9, <1>10, <1>11, <1>12,
     <1>13, <1>14, <1>15 DEF Next

(***************************************************************************)
(* The runtime record, the database view and the requests in flight keep   *)
(* their types in every reachable state: in particular no generation ever  *)
(* leaves the width of its counter, and merged targets are whole targets.  *)
(***************************************************************************)
THEOREM TypeCorrect == Spec => []TypeOK
  BY InitTyping, StepTyping, PTL DEF Spec

-----------------------------------------------------------------------------
(* What the requests in flight remember.                                   *)

\* No request holds a generation from the future.
AcknowledgedInThePast ==
    \A r \in Requests : \A k \in Latches : req[r].acknowledged[k] <= from_runtime(rt)[k]

\* A fault reset that is in flight when the control loop is dead took its
\* generation before the loop died.
ResetPredatesTermination ==
    rt.control_loop_terminated =>
        \A r \in Requests :
            req[r].kind = "fault_reset" =>
                req[r].acknowledged.control_fault < rt.control_fault_generation

History ==
    /\ AcknowledgedInThePast
    /\ GenerationsRecordEngagements
    /\ ResetPredatesTermination

\* The three ways in which what request q remembers changes.
Carries(q) ==
    /\ req'[q].acknowledged = req[q].acknowledged
    /\ req'[q].kind = req[q].kind
    /\ fired'[q] = fired[q]
Forgets(q) ==
    /\ req'[q].acknowledged = [manual_lock |-> 0, emergency_stop |-> 0, control_fault |-> 0]
    /\ req'[q].kind # "fault_reset"
    /\ fired'[q] \subseteq fired[q]
Takes(q) ==
    /\ req'[q].acknowledged = from_runtime(rt)
    /\ req'[q].kind = "fault_reset" => ~rt.control_loop_terminated
    /\ fired'[q] = {}

\* A step that engages no latch keeps the history, whatever its request does.
LEMMA QuietStepKeepsHistory ==
  ASSUME TypeOK, TypeOK', History,
         from_runtime(rt') = from_runtime(rt),
         rt'.control_loop_terminated = rt.control_loop_terminated,
         \A q \in Requests : Carries(q) \/ Forgets(q) \/ Takes(q)
  PROVE  History'
<1>g. /\ from_runtime(rt) \in SafetyLatchGenerations
      /\ rt.control_fault_generation = from_runtime(rt).control_fault
      /\ rt'.control_fault_generation = from_runtime(rt).control_fault
  BY FromRuntimeTyping DEF TypeOK, from_runtime
<1>n. \A k \in Latches : from_runtime(rt)[k] \in Nat
  BY <1>g, LimitAssumption DEF SafetyLatchGenerations, Latches
<1>1. AcknowledgedInThePast'
  BY <1>n DEF History, AcknowledgedInThePast, Carries, Forgets, Takes, Latches
<1>a. \A q \in Requests : \A k \in Latches : req[q].acknowledged[k] \in Nat
  BY LimitAssumption DEF TypeOK, RequestStates, SafetyLatchGenerations, Latches
<1>f. \A q \in Requests : fired[q] \subseteq Latches
  BY DEF TypeOK
<1>2. GenerationsRecordEngagements'
  BY <1>n, <1>a, <1>f
  DEF History, GenerationsRecordEngagements, Carries, Forgets, Takes, Latches
<1>3. ResetPredatesTermination'
  BY <1>g DEF History, ResetPredatesTermination, Carries, Forgets, Takes
<1> QED
  BY <1>1, <1>2, <1>3 DEF History

\* A request that returns forgets, and leaves the others alone.
LEMMA ReturnForgets ==
  ASSUME TypeOK, NEW r \in Requests, Return(r)
  PROVE  \A q \in Requests : Carries(q) \/ Forgets(q)
  BY DEF Return, Idle, Carries, Forgets, TypeOK

\* A request that acknowledges the field takes its generations.
LEMMA AcknowledgeTakes ==
  ASSUME TypeOK, NEW r \in Requests, NEW kind, NEW pc, Acknowledge(r, kind, pc, rt),
         kind = "fault_reset" => ~rt.control_loop_terminated
  PROVE  \A q \in Requests : Carries(q) \/ Takes(q)
  BY DEF Acknowledge, Carries, Takes, TypeOK, RequestStates

\* A request that only moves on carries what it remembers.
LEMMA GotoCarries ==
  ASSUME TypeOK, NEW r \in Requests, NEW pc, Goto(r, pc), UNCHANGED fired
  PROVE  \A q \in Requests : Carries(q)
  BY DEF Goto, Carries, TypeOK, RequestStates

\* The steps of a request leave the database view and the process alone.
LEMMA RequestStepKeepsRest ==
  ASSUME NEW r \in Requests, RequestStep(r)
  PROVE  UNCHANGED <<unfinished, inherited, restarts>>
  BY DEF RequestStep, SetAutoCheck, SetAutoCommit, UnlockCheck, UnlockCheckAgain,
         UnlockRecheck, UnlockClear, ResetControlFaultCheck, ResetControlFaultCommit,
         ResetEmergencyStopCheck, ResetEmergencyStopCommit, SetTargetsMerge,
         SetTargetsCheck, SetTargetsList, SetTargetsCommit, VerifyBatches, Audit, Disconnect, KeepRest

\* The steps of a request engage no latch.
LEMMA RequestStepIsQuiet ==
  ASSUME TypeOK, NEW r \in Requests, RequestStep(r)
  PROVE  /\ from_runtime(rt') = from_runtime(rt)
         /\ rt'.control_loop_terminated = rt.control_loop_terminated
         /\ \A q \in Requests : Carries(q) \/ Forgets(q) \/ Takes(q)
<1>t. rt \in RuntimeStates
  BY DEF TypeOK
<1>a. /\ from_runtime([rt EXCEPT !.auto_enabled = TRUE]) = from_runtime(rt)
      /\ from_runtime([rt EXCEPT !.targets = MergedTargets(r)]) = from_runtime(rt)
      /\ [rt EXCEPT !.auto_enabled = TRUE].control_loop_terminated
            = rt.control_loop_terminated
      /\ [rt EXCEPT !.targets = MergedTargets(r)].control_loop_terminated
            = rt.control_loop_terminated
  BY <1>t DEF from_runtime, RuntimeStates
<1>c. (UNCHANGED <<req, fired>>) => \A q \in Requests : Carries(q)
  BY DEF Carries
<1>1. CASE SetAutoCheck(r)
  BY <1>1, <1>t, <1>c, QuietMethods, AcknowledgeTakes DEF SetAutoCheck
<1>2. CASE SetAutoCommit(r)
  BY <1>2, <1>t, <1>a, QuietMethods, ReturnForgets DEF SetAutoCommit
<1>3. CASE UnlockCheck(r)
  BY <1>3, <1>t, <1>c, QuietMethods, AcknowledgeTakes DEF UnlockCheck
<1>4. CASE UnlockCheckAgain(r)
  <2>1. ASSUME req' = [req EXCEPT ![r].pc = "recloned", ![r].batch = rt.active_batch_id],
               UNCHANGED fired
        PROVE  \A q \in Requests : Carries(q)
    BY <2>1 DEF Carries, TypeOK, RequestStates
  <2> QED
    BY <1>4, <2>1, ReturnForgets DEF UnlockCheckAgain
<1>5. CASE UnlockRecheck(r)
  BY <1>5, <1>t, QuietMethods, ReturnForgets, GotoCarries DEF UnlockRecheck
<1>6. CASE UnlockClear(r)
  BY <1>6, <1>t, QuietMethods, ReturnForgets DEF UnlockClear
<1>7. CASE ResetControlFaultCheck(r)
  BY <1>7, <1>t, <1>c, QuietMethods, AcknowledgeTakes DEF ResetControlFaultCheck
<1>8. CASE ResetControlFaultCommit(r)
  BY <1>8, <1>t, QuietMethods, ReturnForgets DEF ResetControlFaultCommit
<1>9. CASE ResetEmergencyStopCheck(r)
  BY <1>9, <1>t, <1>c, QuietMethods, AcknowledgeTakes DEF ResetEmergencyStopCheck
<1>10. CASE ResetEmergencyStopCommit(r)
  BY <1>10, <1>t, QuietMethods, ReturnForgets DEF ResetEmergencyStopCommit
<1>11. CASE SetTargetsMerge(r)
  <2>1. \A q \in Requests : Carries(q) \/ Forgets(q)
    BY <1>11 DEF SetTargetsMerge, Carries, Forgets, Idle, TypeOK
  <2> QED
    BY <1>11, <2>1 DEF SetTargetsMerge
<1>12. CASE SetTargetsCheck(r)
  BY <1>12, <1>t, QuietMethods, AcknowledgeTakes, ReturnForgets DEF SetTargetsCheck
<1>13. CASE SetTargetsList(r)
  <2>1. \A q \in Requests : Carries(q)
    BY <1>13 DEF SetTargetsList, Carries, TypeOK, RequestStates
  <2> QED
    BY <1>13, <2>1 DEF SetTargetsList
<1>14. CASE SetTargetsCommit(r)
  BY <1>14, <1>t, <1>a, QuietMethods, ReturnForgets DEF SetTargetsCommit
<1>15. CASE VerifyBatches(r)
  BY <1>15, ReturnForgets, GotoCarries DEF VerifyBatches
<1>16. CASE Audit(r)
  BY <1>16, ReturnForgets, GotoCarries DEF Audit
<1>17. CASE Disconnect(r)
  BY <1>17, ReturnForgets DEF Disconnect
<1> QED
  BY RequestStep(r), <1>1, <1>2, <1>3, <1>4, <1>5, <1>6, <1>7, <1>8, <1>9, <1>10,
     <1>11, <1>12, <1>13, <1>14, <1>15, <1>16, <1>17 DEF RequestStep

\* A step that engages latch k below the limit keeps the history.  Only the
\* step that engages the control fault may also end the control loop.
LEMMA EngagingStepKeepsHistory ==
  ASSUME TypeOK, TypeOK', History, NEW k \in Latches,
         from_runtime(rt') = [from_runtime(rt) EXCEPT ![k] = saturating_inc(@)],
         from_runtime(rt)[k] < GenerationLimit,
         k # "control_fault" => rt'.control_loop_terminated = rt.control_loop_terminated,
         Fire(k), UNCHANGED req
  PROVE  History'
<1>g. /\ from_runtime(rt) \in SafetyLatchGenerations
      /\ rt.control_fault_generation = from_runtime(rt).control_fault
      /\ rt'.control_fault_generation = from_runtime(rt').control_fault
  BY FromRuntimeTyping DEF TypeOK, from_runtime
<1>n. \A j \in Latches : from_runtime(rt)[j] \in 0..GenerationLimit
  BY <1>g DEF SafetyLatchGenerations, Latches
<1>s. /\ from_runtime(rt')[k] = saturating_inc(from_runtime(rt)[k])
      /\ \A j \in Latches \ {k} : from_runtime(rt')[j] = from_runtime(rt)[j]
  BY <1>g DEF SafetyLatchGenerations, Latches
<1>i. from_runtime(rt)[k] < from_runtime(rt')[k]
  BY <1>s, <1>n, IncGrows
<1>t. \A j \in Latches : from_runtime(rt')[j] \in 0..GenerationLimit
  BY <1>s, <1>n, IncTyping
<1>a. \A q \in Requests : \A j \in Latches : req[q].acknowledged[j] \in 0..GenerationLimit
  BY DEF TypeOK, RequestStates, SafetyLatchGenerations, Latches
<1>l. \A q \in Requests : \A j \in Latches : req[q].acknowledged[j] <= from_runtime(rt)[j]
  BY DEF History, AcknowledgedInThePast
<1>k. \A q \in Requests : req[q].acknowledged[k] < from_runtime(rt')[k]
  BY <1>a, <1>l, <1>i, <1>n, <1>t, LimitAssumption
<1>1. AcknowledgedInThePast'
  BY <1>a, <1>l, <1>k, <1>s, <1>n, <1>t, LimitAssumption DEF AcknowledgedInThePast
<1>2. GenerationsRecordEngagements'
  <2>1. \A q \in Requests : fired'[q] \subseteq fired[q] \cup {k} /\ fired[q] \subseteq Latches
    BY DEF Fire, TypeOK
  <2>2. \A q \in Requests : \A j \in fired[q] : req[q].acknowledged[j] < from_runtime(rt)[j]
    BY DEF History, GenerationsRecordEngagements
  <2> QED
    BY <2>1, <2>2, <1>k, <1>s DEF GenerationsRecordEngagements
<1>3. ResetPredatesTermination'
  <2>1. CASE k = "control_fault"
    BY <2>1, <1>k, <1>g DEF ResetPredatesTermination
  <2>2. CASE k # "control_fault"
    <3>1. from_runtime(rt')["control_fault"] = from_runtime(rt)["control_fault"]
      BY <2>2, <1>s DEF Latches
    <3> QED
      BY <2>2, <3>1, <1>g DEF History, ResetPredatesTermination
  <2> QED
    BY <2>1, <2>2
<1> QED
  BY <1>1, <1>2, <1>3 DEF History

\* A fresh process has no request in flight.
LEMMA FreshHistory ==
  ASSUME TypeOK, req = [r \in Requests |-> Idle], fired = [r \in Requests |-> {}]
  PROVE  History
<1>1. \A k \in Latches : from_runtime(rt)[k] \in Nat
  BY FromRuntimeTyping, LimitAssumption DEF TypeOK, SafetyLatchGenerations, Latches
<1>2. AcknowledgedInThePast
  BY <1>1 DEF AcknowledgedInThePast, Idle, Latches
<1> QED
  BY <1>2 DEF History, GenerationsRecordEngagements, ResetPredatesTermination, Idle

\* Every step keeps the history.
LEMMA StepKeepsHistory == TypeOK /\ TypeOK' /\ History /\ [Next]_vars => History'
<1> SUFFICES ASSUME TypeOK, TypeOK', History, [Next]_vars PROVE History'
  OBVIOUS
<1>t. rt \in RuntimeStates
  BY DEF TypeOK
<1>k. /\ "manual_lock" \in Latches
      /\ "emergency_stop" \in Latches
      /\ "control_fault" \in Latches
  BY DEF Latches
<1>g. /\ rt.manual_lock_generation = from_runtime(rt)["manual_lock"]
      /\ rt.emergency_stop_generation = from_runtime(rt)["emergency_stop"]
      /\ rt.control_fault_generation = from_runtime(rt)["control_fault"]
  BY DEF from_runtime
<1>c. (UNCHANGED <<req, fired>>) => \A q \in Requests : Carries(q)
  BY DEF Carries
<1>1. CASE EmergencyStop
  BY <1>1, <1>t, <1>k, <1>g, EngagingMethods, EngagingStepKeepsHistory
  DEF EmergencyStop, BelowLimit
<1>2. CASE LockManually
  BY <1>2, <1>t, <1>k, <1>g, EngagingMethods, EngagingStepKeepsHistory
  DEF LockManually, BelowLimit
<1>3. CASE LatchControlFault
  BY <1>3, <1>t, <1>k, <1>g, EngagingMethods, EngagingStepKeepsHistory
  DEF LatchControlFault, BelowLimit
<1>4. CASE ControlLoopTerminates
  BY <1>4, <1>t, <1>k, <1>g, EngagingMethods, EngagingStepKeepsHistory
  DEF ControlLoopTerminates, BelowLimit
<1>5. CASE SetAutoOff
  BY <1>5, <1>t, <1>c, QuietMethods, QuietStepKeepsHistory DEF SetAutoOff
<1>6. CASE \E r \in Requests : RequestStep(r)
  BY <1>6, RequestStepIsQuiet, QuietStepKeepsHistory
<1>7. CASE FieldReports
  <2>1. PICK sample \in Samples, status \in Statuses :
            /\ rt' = accept_sample(rt, sample, status)
            /\ IF rt'.control_fault_generation # rt.control_fault_generation
               THEN Fire("control_fault")
               ELSE UNCHANGED fired
            /\ downstream_command_fault(status) => BelowLimit(rt.control_fault_generation)
            /\ UNCHANGED req
    BY <1>7 DEF FieldReports
  <2> DEFINE accepted == [rt EXCEPT !.latest_sample = sample,
                                    !.last_sensor_error = FALSE,
                                    !.device_status = status]
  <2>2. accepted \in RuntimeStates
    BY <1>t, FieldAssumption DEF RuntimeStates
  <2>3. /\ from_runtime(accepted) = from_runtime(rt)
        /\ accepted.control_loop_terminated = rt.control_loop_terminated
    BY <1>t DEF from_runtime, RuntimeStates
  <2>4. CASE rt' = accepted \/ rt' = disable_auto_for_field_fault(accepted)
    <3>1. /\ from_runtime(rt') = from_runtime(rt)
          /\ rt'.control_loop_terminated = rt.control_loop_terminated
      BY <2>2, <2>3, <2>4 DEF disable_auto_for_field_fault, from_runtime, RuntimeStates
    <3>2. UNCHANGED fired
      BY <3>1, <2>1 DEF from_runtime
    <3> QED
      BY <3>1, <3>2, <2>1, <1>c, QuietStepKeepsHistory
  <2>5. CASE downstream_command_fault(status) /\ rt' = latch_control_fault(accepted)
    <3>1. from_runtime(rt') = [from_runtime(rt) EXCEPT !["control_fault"] = saturating_inc(@)]
      BY <2>2, <2>3, <2>5, EngagingMethods
    <3>2. from_runtime(rt)["control_fault"] < GenerationLimit
      BY <2>1, <2>5, <1>g DEF BelowLimit
    <3>3. rt.control_fault_generation < saturating_inc(rt.control_fault_generation)
      BY <3>2, <1>g, <1>t, IncGrows DEF RuntimeStates
    <3>4. rt'.control_fault_generation = saturating_inc(rt.control_fault_generation)
      BY <3>1 DEF from_runtime
    <3>5. Fire("control_fault")
      BY <3>3, <3>4, <2>1, <1>t, IncTyping, LimitAssumption DEF RuntimeStates
    <3> QED
      BY <3>1, <3>2, <3>5, <2>1, <1>k, EngagingStepKeepsHistory
  <2> QED
    BY <2>1, <2>4, <2>5 DEF accept_sample
<1>8. CASE FieldLost
  <2>1. /\ from_runtime(rt') = from_runtime(rt)
        /\ rt'.control_loop_terminated = rt.control_loop_terminated
    BY <1>8, <1>t DEF FieldLost, reject_unpersisted_sample_with_status,
                      disable_auto_for_field_fault, from_runtime, RuntimeStates
  <2> QED
    BY <1>8, <2>1, <1>c, QuietStepKeepsHistory DEF FieldLost
<1>9. CASE SampleAges
  <2>1. /\ from_runtime(rt') = from_runtime(rt)
        /\ rt'.control_loop_terminated = rt.control_loop_terminated
    BY <1>9, <1>t DEF SampleAges, from_runtime, RuntimeStates
  <2> QED
    BY <1>9, <2>1, <1>c, QuietStepKeepsHistory DEF SampleAges
<1>10. CASE \E b \in Batches : OpenBatch(b) \/ CloseBatch(b)
  BY <1>10, <1>c, QuietStepKeepsHistory DEF OpenBatch, CloseBatch
<1>11. CASE \E b \in Batches : ActivateBatch(b)
  <2>1. /\ from_runtime(rt') = from_runtime(rt)
        /\ rt'.control_loop_terminated = rt.control_loop_terminated
        /\ UNCHANGED <<req, fired>>
    BY <1>11, <1>t DEF ActivateBatch, from_runtime, RuntimeStates
  <2> QED
    BY <2>1, <1>c, QuietStepKeepsHistory
<1>12. CASE DeactivateBatch
  <2>1. /\ from_runtime(rt') = from_runtime(rt)
        /\ rt'.control_loop_terminated = rt.control_loop_terminated
    BY <1>12, <1>t DEF DeactivateBatch, from_runtime, RuntimeStates
  <2> QED
    BY <1>12, <2>1, <1>c, QuietStepKeepsHistory DEF DeactivateBatch
<1>13. CASE Restart
  <2>1. (req = [r \in Requests |-> Idle] /\ fired = [r \in Requests |-> {}])'
    BY <1>13 DEF Restart, Idle
  <2> QED
    BY <2>1, FreshHistory, PTL
<1>14. CASE UNCHANGED vars
  BY <1>14, <1>c, QuietStepKeepsHistory DEF vars
<1> QED
  BY <1>1, <1>2, <1>3, <1>4, <1>5, <1>6, <1>7, <1>8, <1>9, <1>10, <1>11, <1>12,
     <1>13, <1>14 DEF Next

-----------------------------------------------------------------------------
(* The safety invariants.                                                  *)

\* Every step keeps automatic control off an unsafe field.
LEMMA StepKeepsAutoSafe ==
  TypeOK /\ AutoOnlyOnSafeField /\ [Next]_vars => AutoOnlyOnSafeField'
<1> SUFFICES ASSUME TypeOK, AutoOnlyOnSafeField, [Next]_vars PROVE AutoOnlyOnSafeField'
  OBVIOUS
<1> USE DEF AutoOnlyOnSafeField
<1>t. rt \in RuntimeStates
  BY DEF TypeOK
<1>d. /\ disable_auto(rt).auto_enabled = FALSE
      /\ clear_control_fault(rt).auto_enabled = FALSE
      /\ clear_manual_lock(rt).auto_enabled = FALSE
      /\ clear_emergency_stop(rt).auto_enabled = FALSE
      /\ engage_emergency_stop(rt).auto_enabled = FALSE
      /\ engage_manual_lock(rt).auto_enabled = FALSE
      /\ latch_control_fault(rt).auto_enabled = FALSE
      /\ terminate_control_loop(rt).auto_enabled = FALSE
      /\ reject_unpersisted_sample_with_status(rt, "none").auto_enabled = FALSE
  BY <1>t DEF RuntimeStates, disable_auto, clear_control_fault, clear_manual_lock,
              clear_emergency_stop, engage_emergency_stop, engage_manual_lock,
              latch_control_fault, terminate_control_loop,
              reject_unpersisted_sample_with_status, disable_auto_for_field_fault
<1>c. ASSUME ensure_target_update_interlock_clear(rt)
      PROVE  /\ rt.emergency_stop = FALSE
             /\ rt.manual_lock = FALSE
             /\ rt.last_control_error = FALSE
             /\ rt.last_sensor_error = FALSE
             /\ rt.latest_sample # "none"
             /\ ~downstream_command_fault(rt.device_status)
  BY <1>c, <1>t DEF ensure_target_update_interlock_clear, ensure_fresh_sample,
                    ensure_proven_healthy_device_status, downstream_command_fault,
                    RuntimeStates
<1>1. CASE EmergencyStop \/ LockManually \/ LatchControlFault
           \/ ControlLoopTerminates \/ SetAutoOff \/ FieldLost
  BY <1>1, <1>d DEF EmergencyStop, LockManually, LatchControlFault,
                    ControlLoopTerminates, SetAutoOff, FieldLost
<1>2. ASSUME NEW r \in Requests, RequestStep(r)
      PROVE  AutoOnlyOnSafeField'
  <2>1. CASE SetAutoCommit(r)
    <3>1. CASE rt' = rt \/ rt' = disable_auto(rt)
      BY <3>1, <1>d
    <3>2. CASE /\ ensure_target_update_interlock_clear(rt)
               /\ rt' = [rt EXCEPT !.auto_enabled = TRUE]
      BY <3>2, <1>c, <1>t DEF RuntimeStates
    <3> QED
      BY <2>1, <3>1, <3>2 DEF SetAutoCommit
  <2>2. CASE SetTargetsCommit(r)
    <3>1. CASE rt' = rt \/ rt' = disable_auto(rt)
      BY <3>1, <1>d
    <3>2. CASE rt' = [rt EXCEPT !.targets = MergedTargets(r)]
      BY <3>2, <1>t DEF RuntimeStates
    <3> QED
      BY <2>2, <3>1, <3>2 DEF SetTargetsCommit
  <2>3. CASE ~SetAutoCommit(r) /\ ~SetTargetsCommit(r)
    <3>1. rt' \in {rt, disable_auto(rt), clear_control_fault(rt),
                   clear_manual_lock(rt), clear_emergency_stop(rt)}
      BY <1>2, <2>3 DEF RequestStep, SetAutoCheck, UnlockCheck, UnlockCheckAgain,
           UnlockRecheck, UnlockClear, ResetControlFaultCheck, ResetControlFaultCommit,
           ResetEmergencyStopCheck, ResetEmergencyStopCommit, SetTargetsMerge,
           SetTargetsCheck, SetTargetsList, VerifyBatches, Audit, Disconnect
    <3> QED
      BY <3>1, <1>d
  <2> QED
    BY <2>1, <2>2, <2>3
<1>3. CASE FieldReports
  <2>1. PICK sample \in Samples, status \in Statuses :
            rt' = accept_sample(rt, sample, status)
    BY <1>3 DEF FieldReports
  <2> DEFINE accepted == [rt EXCEPT !.latest_sample = sample,
                                    !.last_sensor_error = FALSE,
                                    !.device_status = status]
  <2>2. accepted \in RuntimeStates /\ sample # "none"
    BY <1>t, FieldAssumption DEF RuntimeStates
  <2>3. CASE device_status_field_fault(status) \/ downstream_command_fault(status)
    <3>1. rt'.auto_enabled = FALSE
      BY <2>1, <2>2, <2>3 DEF accept_sample, disable_auto_for_field_fault,
                              latch_control_fault, RuntimeStates
    <3> QED
      BY <3>1
  <2>4. CASE ~device_status_field_fault(status) /\ ~downstream_command_fault(status)
    BY <2>1, <2>2, <2>4, <1>t DEF accept_sample, RuntimeStates
  <2> QED
    BY <2>3, <2>4
<1>4. CASE SampleAges
  BY <1>4, <1>t DEF SampleAges, RuntimeStates
<1>5. CASE \E b \in Batches : OpenBatch(b) \/ CloseBatch(b)
  BY <1>5 DEF OpenBatch, CloseBatch
<1>6. CASE \E b \in Batches : ActivateBatch(b)
  <2>1. ensure_target_update_interlock_clear(rt)
    BY <1>6 DEF ActivateBatch
  <2>2. PICK b \in Batches, recipe \in Recipes, auto \in BOOLEAN :
            rt' = [rt EXCEPT !.targets.hold_time_s = recipe,
                             !.active_batch_id = b,
                             !.auto_enabled = auto]
    BY <1>6 DEF ActivateBatch
  <2>3. /\ rt'.emergency_stop = rt.emergency_stop /\ rt'.manual_lock = rt.manual_lock
        /\ rt'.last_control_error = rt.last_control_error
        /\ rt'.last_sensor_error = rt.last_sensor_error
        /\ rt'.latest_sample = rt.latest_sample /\ rt'.device_status = rt.device_status
    BY <2>2, <1>t DEF RuntimeStates
  <2> QED
    BY <2>1, <2>3, <1>c
<1>7. CASE DeactivateBatch
  BY <1>7, <1>t DEF DeactivateBatch, RuntimeStates
<1>8. CASE Restart
  <2>1. PICK first : rt' = recover_runtime_from_db(first)
    BY <1>8 DEF Restart
  <2>2. rt'.auto_enabled = FALSE
    BY <2>1 DEF recover_runtime_from_db, from_safety, latch_control_fault
  <2> QED
    BY <2>2
<1>9. CASE UNCHANGED vars
  BY <1>9 DEF vars
<1> QED
  BY <1>1, <1>2, <1>3, <1>4, <1>5, <1>6, <1>7, <1>8, <1>9 DEF Next

\* Only a reset that commits, or a new process, clears the control fault.
LEMMA FaultClearedByReset ==
  ASSUME TypeOK, [Next]_vars, rt.last_control_error, ~rt'.last_control_error,
         restarts' = restarts
  PROVE  \E r \in Requests : /\ At(r, "fault_reset", "audited")
                             /\ ensure_reset_allowed(rt, unfinished)
                             /\ rt.control_fault_generation = req[r].acknowledged.control_fault
                             /\ Return(r)
                             /\ UNCHANGED <<unfinished, inherited>>
<1>t. rt \in RuntimeStates
  BY DEF TypeOK
<1>1. CASE EmergencyStop \/ LockManually \/ LatchControlFault
           \/ ControlLoopTerminates \/ SetAutoOff \/ FieldLost
  <2>1. rt'.last_control_error
    BY <1>1, <1>t DEF EmergencyStop, LockManually, LatchControlFault, FieldLost,
         ControlLoopTerminates, SetAutoOff, engage_emergency_stop, engage_manual_lock,
         latch_control_fault, terminate_control_loop, disable_auto,
         reject_unpersisted_sample_with_status, disable_auto_for_field_fault, RuntimeStates
  <2> QED
    BY <2>1
<1>2. ASSUME NEW r \in Requests, RequestStep(r), ~ResetControlFaultCommit(r)
      PROVE  rt'.last_control_error
  <2>1. rt' \in {rt, disable_auto(rt), clear_manual_lock(rt), clear_emergency_stop(rt),
                 [rt EXCEPT !.auto_enabled = TRUE],
                 [rt EXCEPT !.targets = MergedTargets(r)]}
    BY <1>2 DEF RequestStep, SetAutoCheck, SetAutoCommit, UnlockCheck, UnlockCheckAgain,
         UnlockRecheck, UnlockClear, ResetControlFaultCheck, SetTargetsCommit,
         ResetEmergencyStopCheck, ResetEmergencyStopCommit, SetTargetsMerge,
         SetTargetsCheck, SetTargetsList, VerifyBatches, Audit, Disconnect
  <2> QED
    BY <2>1, <1>t DEF disable_auto, clear_manual_lock, clear_emergency_stop, RuntimeStates
<1>3. ASSUME NEW r \in Requests, ResetControlFaultCommit(r)
      PROVE  /\ At(r, "fault_reset", "audited")
             /\ ensure_reset_allowed(rt, unfinished)
             /\ rt.control_fault_generation = req[r].acknowledged.control_fault
             /\ Return(r)
             /\ UNCHANGED <<unfinished, inherited>>
  <2>1. disable_auto(rt).last_control_error
    BY <1>t DEF disable_auto, RuntimeStates
  <2> QED
    BY <1>3, <2>1 DEF ResetControlFaultCommit, KeepRest
<1>4. CASE FieldReports
  <2>1. PICK sample \in Samples, status \in Statuses :
            rt' = accept_sample(rt, sample, status)
    BY <1>4 DEF FieldReports
  <2>2. rt'.last_control_error
    BY <2>1, <1>t DEF accept_sample, disable_auto_for_field_fault,
                      latch_control_fault, RuntimeStates
  <2> QED
    BY <2>2
<1>5. CASE SampleAges \/ DeactivateBatch \/ UNCHANGED vars
           \/ \E b \in Batches : OpenBatch(b) \/ CloseBatch(b) \/ ActivateBatch(b)
  <2>1. rt'.last_control_error
    BY <1>5, <1>t DEF SampleAges, DeactivateBatch, vars, OpenBatch, CloseBatch,
                      ActivateBatch, RuntimeStates
  <2> QED
    BY <2>1
<1>6. CASE Restart
  BY <1>6 DEF Restart, TypeOK
<1> QED
  BY <1>1, <1>2, <1>3, <1>4, <1>5, <1>6 DEF Next

\* A control loop dies with its fault latched, and no step revives it but a new process.
LEMMA TerminationLatches ==
  ASSUME TypeOK, [Next]_vars, rt'.control_loop_terminated
  PROVE  /\ restarts' = restarts
         /\ rt.control_loop_terminated \/ rt'.last_control_error
<1>t. rt \in RuntimeStates
  BY DEF TypeOK
<1>1. CASE EmergencyStop \/ LockManually \/ LatchControlFault
           \/ ControlLoopTerminates \/ SetAutoOff \/ FieldLost
  BY <1>1, <1>t DEF EmergencyStop, LockManually, LatchControlFault, FieldLost,
       ControlLoopTerminates, SetAutoOff, engage_emergency_stop, engage_manual_lock,
       latch_control_fault, terminate_control_loop, disable_auto, KeepRest,
       reject_unpersisted_sample_with_status, disable_auto_for_field_fault, RuntimeStates
<1>2. ASSUME NEW r \in Requests, RequestStep(r)
      PROVE  rt.control_loop_terminated /\ restarts' = restarts
  <2>1. restarts' = restarts
    BY <1>2, RequestStepKeepsRest
  <2> QED
    BY <1>2, <2>1, RequestStepIsQuiet
<1>3. CASE FieldReports
  <2>1. PICK sample \in Samples, status \in Statuses :
            rt' = accept_sample(rt, sample, status)
    BY <1>3 DEF FieldReports
  <2>2. rt'.control_loop_terminated = rt.control_loop_terminated
    BY <2>1, <1>t DEF accept_sample, disable_auto_for_field_fault,
                      latch_control_fault, RuntimeStates
  <2> QED
    BY <1>3, <2>2 DEF FieldReports, KeepRest
<1>4. CASE SampleAges \/ DeactivateBatch \/ UNCHANGED vars
           \/ \E b \in Batches : OpenBatch(b) \/ CloseBatch(b) \/ ActivateBatch(b)
  BY <1>4, <1>t DEF SampleAges, DeactivateBatch, vars, OpenBatch, CloseBatch,
                    ActivateBatch, KeepRest, RuntimeStates
<1>5. CASE Restart
  <2>1. PICK first : rt' = recover_runtime_from_db(first)
    BY <1>5 DEF Restart
  <2>2. rt'.control_loop_terminated = FALSE
    BY <2>1 DEF recover_runtime_from_db, from_safety, latch_control_fault
  <2> QED
    BY <2>2
<1> QED
  BY <1>1, <1>2, <1>3, <1>4, <1>5 DEF Next

\* Every step keeps the fault of a dead control loop latched.
LEMMA StepKeepsDeadLoopLatched ==
  ASSUME TypeOK, History, DeadLoopStaysLatched, [Next]_vars
  PROVE  DeadLoopStaysLatched'
<1> SUFFICES ASSUME rt'.control_loop_terminated, ~rt'.last_control_error
             PROVE  FALSE
  BY DEF DeadLoopStaysLatched
<1>1. rt.control_loop_terminated /\ rt.last_control_error /\ restarts' = restarts
  BY TerminationLatches DEF DeadLoopStaysLatched
<1>2. PICK r \in Requests :
          /\ At(r, "fault_reset", "audited")
          /\ rt.control_fault_generation = req[r].acknowledged.control_fault
  BY <1>1, FaultClearedByReset
<1>3. req[r].acknowledged.control_fault < rt.control_fault_generation
  BY <1>1, <1>2 DEF History, ResetPredatesTermination, At
<1>4. rt.control_fault_generation \in Nat
  BY LimitAssumption DEF TypeOK, RuntimeStates
<1> QED
  BY <1>2, <1>3, <1>4

\* A batch this process inherited is still open in the database.
InheritedBatchIsOpen == inherited # NoBatch => inherited \in unfinished

\* Only opening, activating, closing and deactivating a batch, and a new process,
\* touch the database view, the inherited batch or the active batch.
LEMMA BatchesChangedByProduction ==
  ASSUME TypeOK, [Next]_vars,
         ~DeactivateBatch, ~Restart,
         ~ \E b \in Batches : OpenBatch(b) \/ CloseBatch(b) \/ ActivateBatch(b)
  PROVE  UNCHANGED <<unfinished, inherited, rt.active_batch_id>>
<1>t. rt \in RuntimeStates
  BY DEF TypeOK
<1>1. CASE EmergencyStop \/ LockManually \/ LatchControlFault
           \/ ControlLoopTerminates \/ SetAutoOff \/ FieldLost \/ SampleAges
  BY <1>1, <1>t DEF EmergencyStop, LockManually, LatchControlFault, FieldLost, SampleAges,
       ControlLoopTerminates, SetAutoOff, engage_emergency_stop, engage_manual_lock,
       latch_control_fault, terminate_control_loop, disable_auto, KeepRest,
       reject_unpersisted_sample_with_status, disable_auto_for_field_fault, RuntimeStates
<1>2. ASSUME NEW r \in Requests, RequestStep(r)
      PROVE  UNCHANGED <<unfinished, inherited, rt.active_batch_id>>
  <2>1. /\ rt' \in {rt, disable_auto(rt), clear_manual_lock(rt), clear_emergency_stop(rt),
                    clear_control_fault(rt), [rt EXCEPT !.auto_enabled = TRUE],
                    [rt EXCEPT !.targets = MergedTargets(r)]}
        /\ UNCHANGED <<unfinished, inherited>>
    BY <1>2 DEF RequestStep, SetAutoCheck, SetAutoCommit, UnlockCheck, UnlockCheckAgain,
         UnlockRecheck, UnlockClear, ResetControlFaultCheck, ResetControlFaultCommit,
         SetTargetsCommit, ResetEmergencyStopCheck, ResetEmergencyStopCommit,
         SetTargetsMerge, SetTargetsCheck, SetTargetsList, VerifyBatches, Audit, Disconnect, KeepRest
  <2> QED
    BY <2>1, <1>t DEF disable_auto, clear_manual_lock, clear_emergency_stop,
                      clear_control_fault, RuntimeStates
<1>3. CASE FieldReports
  <2>1. PICK sample \in Samples, status \in Statuses :
            rt' = accept_sample(rt, sample, status)
    BY <1>3 DEF FieldReports
  <2>2. rt'.active_batch_id = rt.active_batch_id
    BY <2>1, <1>t DEF accept_sample, disable_auto_for_field_fault,
                      latch_control_fault, RuntimeStates
  <2> QED
    BY <1>3, <2>2 DEF FieldReports, KeepRest
<1>4. CASE UNCHANGED vars
  BY <1>4 DEF vars
<1> QED
  BY <1>1, <1>2, <1>3, <1>4 DEF Next

\* Every step keeps the fault of an inherited batch latched.
LEMMA StepKeepsInheritedFault ==
  ASSUME TypeOK, InheritedBatchHoldsFault, InheritedBatchIsOpen, [Next]_vars
  PROVE  (InheritedBatchHoldsFault /\ InheritedBatchIsOpen)'
<1> USE DEF InheritedBatchHoldsFault, InheritedBatchIsOpen
<1>1. CASE Restart
  <2>1. PICK first \in IF unfinished = {} THEN {NoBatch} ELSE unfinished :
            inherited' = first /\ rt' = recover_runtime_from_db(first)
    BY <1>1 DEF Restart
  <2>2. CASE first = NoBatch
    BY <2>1, <2>2
  <2>3. CASE first # NoBatch
    <3>1. rt'.last_control_error /\ rt'.active_batch_id = first
      BY <2>1, <2>3 DEF recover_runtime_from_db, from_safety, latch_control_fault
    <3>2. first \in unfinished'
      BY <1>1, <2>1, <2>3 DEF Restart
    <3> QED
      BY <2>1, <3>1, <3>2
  <2> QED
    BY <2>2, <2>3
<1>2. ASSUME ~Restart PROVE restarts' = restarts
  BY <1>2, RequestStepKeepsRest DEF Next, vars, EmergencyStop, LockManually, LatchControlFault,
         ControlLoopTerminates, SetAutoOff, FieldReports, FieldLost, SampleAges,
         OpenBatch, ActivateBatch, CloseBatch, DeactivateBatch, KeepRest
<1>3. CASE ~Restart /\ inherited' # NoBatch
  <2>1. inherited' = inherited /\ inherited \in unfinished /\ inherited \in unfinished'
        /\ rt'.active_batch_id = inherited
    <3>t. rt \in RuntimeStates
      BY DEF TypeOK
    <3>1. CASE \E b \in Batches : OpenBatch(b)
      BY <3>1, <1>3 DEF OpenBatch
    <3>2. CASE \E b \in Batches : CloseBatch(b)
      BY <3>2, <1>3 DEF CloseBatch
    <3>3. CASE \E b \in Batches : ActivateBatch(b)
      BY <3>3, <1>3 DEF ActivateBatch, KeepRest
    <3>4. CASE DeactivateBatch
      BY <3>4, <1>3 DEF DeactivateBatch, KeepRest
    <3> QED
      BY <1>3, <3>1, <3>2, <3>3, <3>4, BatchesChangedByProduction
  <2>2. rt'.last_control_error
    <3>1. SUFFICES ASSUME ~rt'.last_control_error PROVE FALSE
      OBVIOUS
    <3>2. ensure_reset_allowed(rt, unfinished)
      BY <3>1, <2>1, <1>2, <1>3, FaultClearedByReset
    <3> QED
      BY <3>2, <2>1, <1>3 DEF ensure_reset_allowed
  <2> QED
    BY <2>1, <2>2
<1>4. CASE ~Restart /\ inherited' = NoBatch
  BY <1>4
<1> QED
  BY <1>1, <1>3, <1>4

-----------------------------------------------------------------------------
(* The theorems.                                                           *)

\* The inductive invariant: the safety invariants and what they rest on.
Inv ==
    /\ TypeOK
    /\ History
    /\ AutoOnlyOnSafeField
    /\ DeadLoopStaysLatched
    /\ InheritedBatchHoldsFault
    /\ InheritedBatchIsOpen

\* The process starts in the invariant.
LEMMA InitInv == Init => Inv
<1> SUFFICES ASSUME Init PROVE Inv
  OBVIOUS
<1>1. TypeOK
  BY InitTyping
<1>2. History
  BY <1>1, FreshHistory DEF Init
<1>3. AutoOnlyOnSafeField /\ DeadLoopStaysLatched
  <2>1. rt.auto_enabled = FALSE /\ rt.control_loop_terminated = FALSE
    BY DEF Init, recover_runtime_from_db, from_safety, latch_control_fault
  <2> QED
    BY <2>1 DEF AutoOnlyOnSafeField, DeadLoopStaysLatched
<1>4. InheritedBatchHoldsFault /\ InheritedBatchIsOpen
  <2>1. CASE inherited # NoBatch
    BY <2>1 DEF Init, recover_runtime_from_db, from_safety, latch_control_fault,
                InheritedBatchHoldsFault, InheritedBatchIsOpen
  <2> QED
    BY <2>1 DEF InheritedBatchHoldsFault, InheritedBatchIsOpen
<1> QED
  BY <1>1, <1>2, <1>3, <1>4 DEF Inv

\* Every step keeps the invariant.
LEMMA StepInv == Inv /\ [Next]_vars => Inv'
<1> SUFFICES ASSUME Inv, [Next]_vars PROVE Inv'
  OBVIOUS
<1> USE DEF Inv
<1>1. TypeOK'
  BY StepTyping
<1>2. History'
  BY <1>1, StepKeepsHistory
<1>3. AutoOnlyOnSafeField'
  BY StepKeepsAutoSafe
<1>4. DeadLoopStaysLatched'
  BY StepKeepsDeadLoopLatched
<1>5. (InheritedBatchHoldsFault /\ InheritedBatchIsOpen)'
  BY StepKeepsInheritedFault
<1> QED
  BY <1>1, <1>2, <1>3, <1>4, <1>5

\* The inductive invariant holds in every reachable state.
LEMMA InvCorrect == Spec => []Inv
  BY InitInv, StepInv, PTL DEF Spec

(***************************************************************************)
(* Automatic control is never enabled on a latched or untrusted field      *)
(* (set_auto, the resets, the start commit and the field supervision).     *)
(***************************************************************************)
THEOREM AutoIsSafe == Spec => []AutoOnlyOnSafeField
<1>1. Inv => AutoOnlyOnSafeField
  BY DEF Inv
<1> QED
  BY <1>1, InvCorrect, PTL

(***************************************************************************)
(* The fault of a control loop that died stays latched in its process,     *)
(* also against resets that were in flight when it died                    *)
(* (reset_control_fault, the monitor in main).                             *)
(***************************************************************************)
THEOREM DeadLoopIsLatched == Spec => []DeadLoopStaysLatched
<1>1. Inv => DeadLoopStaysLatched
  BY DEF Inv
<1> QED
  BY <1>1, InvCorrect, PTL

(***************************************************************************)
(* A batch inherited from a previous process keeps the recovery fault      *)
(* latched until its row is closed (recover_runtime_from_db).              *)
(***************************************************************************)
THEOREM InheritedFaultIsHeld == Spec => []InheritedBatchHoldsFault
<1>1. Inv => InheritedBatchHoldsFault
  BY DEF Inv
<1> QED
  BY <1>1, InvCorrect, PTL

(***************************************************************************)
(* A handler can tell from the generations it holds that a latch was       *)
(* engaged behind its back (SafetyLatchGenerations::changed_since).        *)
(***************************************************************************)
THEOREM EngagementsAreRecorded == Spec => []GenerationsRecordEngagements
<1>1. Inv => GenerationsRecordEngagements
  BY DEF Inv, History
<1> QED
  BY <1>1, InvCorrect, PTL

-----------------------------------------------------------------------------
(* The action properties.                                                  *)

\* A request that returns takes a step of its own.
LEMMA ReturnsByOwnStep ==
  ASSUME TypeOK, [Next]_vars, NEW r \in Requests, Returns(r)
  PROVE  RequestStep(r)
<1>1. req'[r] # req[r]
  BY DEF Returns
<1>2. ~Restart
  BY RestartAssumption DEF Restart, Returns, TypeOK
<1>3. CASE EmergencyStop \/ LockManually \/ LatchControlFault \/ ControlLoopTerminates
           \/ SetAutoOff \/ FieldReports \/ FieldLost \/ SampleAges \/ DeactivateBatch
           \/ (\E b \in Batches : OpenBatch(b) \/ ActivateBatch(b) \/ CloseBatch(b))
           \/ UNCHANGED vars
  <2>1. req' = req
    BY <1>3 DEF vars, EmergencyStop, LockManually, LatchControlFault,
         ControlLoopTerminates, SetAutoOff, FieldReports, FieldLost, SampleAges,
         OpenBatch, ActivateBatch, CloseBatch, DeactivateBatch
  <2> QED
    BY <1>1, <2>1
<1>4. ASSUME NEW q \in Requests, RequestStep(q)
      PROVE  RequestStep(r)
  <2>1. \A p \in Requests \ {q} : req'[p] = req[p]
    BY <1>4 DEF TypeOK, RequestStep, SetAutoCheck, SetAutoCommit, UnlockCheck,
         UnlockCheckAgain, UnlockRecheck, UnlockClear, ResetControlFaultCheck,
         ResetControlFaultCommit, ResetEmergencyStopCheck, ResetEmergencyStopCommit,
         SetTargetsMerge, SetTargetsCheck, SetTargetsList, SetTargetsCommit, VerifyBatches,
         Audit, Disconnect, Return, Acknowledge, Goto
  <2> QED
    BY <1>1, <1>4, <2>1
<1> QED
  BY <1>2, <1>3, <1>4 DEF Next

\* Generations that have not changed mean that no latch was engaged.
LEMMA UnchangedMeansNotFired ==
  ASSUME TypeOK, GenerationsRecordEngagements, NEW r \in Requests, NEW k \in fired[r]
  PROVE  req[r].acknowledged[k] # from_runtime(rt)[k]
<1>1. k \in Latches
  BY DEF TypeOK
<1>2. from_runtime(rt)[k] \in Nat
  BY <1>1, FromRuntimeTyping, LimitAssumption DEF TypeOK, SafetyLatchGenerations, Latches
<1> QED
  BY <1>2 DEF GenerationsRecordEngagements

\* The step behind NoLatchSlipsPastACommit.
LEMMA CommitStep ==
  ASSUME Inv, [Next]_vars, NEW r \in Requests, Returns(r),
         (~rt.auto_enabled /\ rt'.auto_enabled) \/ rt'.targets # rt.targets
  PROVE  fired[r] = {}
<1>t. rt \in RuntimeStates
  BY DEF Inv, TypeOK
<1>1. RequestStep(r)
  BY ReturnsByOwnStep DEF Inv
<1>2. rt' \notin {rt, disable_auto(rt), clear_manual_lock(rt), clear_emergency_stop(rt),
                  clear_control_fault(rt)}
  BY <1>t DEF disable_auto, clear_manual_lock, clear_emergency_stop,
              clear_control_fault, RuntimeStates
<1>3. SetAutoCommit(r) \/ SetTargetsCommit(r)
  BY <1>1, <1>2 DEF RequestStep, SetAutoCheck, UnlockCheck, UnlockCheckAgain,
       UnlockRecheck, UnlockClear, ResetControlFaultCheck, ResetControlFaultCommit,
       ResetEmergencyStopCheck, ResetEmergencyStopCommit, SetTargetsMerge,
       SetTargetsCheck, SetTargetsList, VerifyBatches, Audit, Disconnect
<1>4. req[r].acknowledged = from_runtime(rt)
  BY <1>2, <1>3 DEF SetAutoCommit, SetTargetsCommit, changed_since
<1>5. GenerationsRecordEngagements /\ TypeOK
  BY DEF Inv, History
<1>6. ASSUME NEW k \in fired[r] PROVE FALSE
  BY <1>4, <1>5, UnchangedMeansNotFired
<1> QED
  BY <1>6

(***************************************************************************)
(* A request that enables automatic control or changes the targets commits *)
(* only if no latch was engaged since it checked the field, not even one   *)
(* that was cleared again (set_auto, commit_targets_after_final_interlock).*)
(***************************************************************************)
THEOREM NoLatchSlips == Spec => NoLatchSlipsPastACommit
<1> DEFINE A == \A r \in Requests :
                  /\ Returns(r)
                  /\ \/ ~rt.auto_enabled /\ rt'.auto_enabled
                     \/ rt'.targets # rt.targets
                  => fired[r] = {}
<1>1. Inv /\ [Next]_vars => [A]_vars
  BY CommitStep
<1>2. Spec => [][A]_vars
  BY <1>1, InvCorrect, PTL DEF Spec
<1> QED
  BY <1>2 DEF NoLatchSlipsPastACommit

\* Only a reset that commits clears the emergency stop within a process.
LEMMA StopClearedByReset ==
  ASSUME TypeOK, [Next]_vars, rt.emergency_stop, ~rt'.emergency_stop,
         restarts' = restarts
  PROVE  \E r \in Requests :
            /\ At(r, "estop_reset", "audited")
            /\ rt.emergency_stop_generation = req[r].acknowledged.emergency_stop
            /\ Return(r)
<1>t. rt \in RuntimeStates
  BY DEF TypeOK
<1>1. CASE EmergencyStop \/ LockManually \/ LatchControlFault
           \/ ControlLoopTerminates \/ SetAutoOff \/ FieldLost
  <2>1. rt'.emergency_stop
    BY <1>1, <1>t DEF EmergencyStop, LockManually, LatchControlFault, FieldLost,
         ControlLoopTerminates, SetAutoOff, engage_emergency_stop, engage_manual_lock,
         latch_control_fault, terminate_control_loop, disable_auto,
         reject_unpersisted_sample_with_status, disable_auto_for_field_fault, RuntimeStates
  <2> QED
    BY <2>1
<1>2. ASSUME NEW r \in Requests, RequestStep(r), ~ResetEmergencyStopCommit(r)
      PROVE  rt'.emergency_stop
  <2>1. rt' \in {rt, disable_auto(rt), clear_manual_lock(rt), clear_control_fault(rt),
                 [rt EXCEPT !.auto_enabled = TRUE],
                 [rt EXCEPT !.targets = MergedTargets(r)]}
    BY <1>2 DEF RequestStep, SetAutoCheck, SetAutoCommit, UnlockCheck, UnlockCheckAgain,
         UnlockRecheck, UnlockClear, ResetControlFaultCheck, ResetControlFaultCommit,
         SetTargetsCommit, ResetEmergencyStopCheck, SetTargetsMerge, SetTargetsCheck,
         SetTargetsList, VerifyBatches, Audit, Disconnect
  <2> QED
    BY <2>1, <1>t DEF disable_auto, clear_manual_lock, clear_control_fault, RuntimeStates
<1>3. ASSUME NEW r \in Requests, ResetEmergencyStopCommit(r)
      PROVE  /\ At(r, "estop_reset", "audited")
             /\ rt.emergency_stop_generation = req[r].acknowledged.emergency_stop
             /\ Return(r)
  <2>1. disable_auto(rt).emergency_stop
    BY <1>t DEF disable_auto, RuntimeStates
  <2> QED
    BY <1>3, <2>1 DEF ResetEmergencyStopCommit
<1>4. CASE FieldReports
  <2>1. PICK sample \in Samples, status \in Statuses :
            rt' = accept_sample(rt, sample, status)
    BY <1>4 DEF FieldReports
  <2>2. rt'.emergency_stop
    BY <2>1, <1>t DEF accept_sample, disable_auto_for_field_fault,
                      latch_control_fault, RuntimeStates
  <2> QED
    BY <2>2
<1>5. CASE SampleAges \/ DeactivateBatch \/ UNCHANGED vars
           \/ \E b \in Batches : OpenBatch(b) \/ CloseBatch(b) \/ ActivateBatch(b)
  <2>1. rt'.emergency_stop
    BY <1>5, <1>t DEF SampleAges, DeactivateBatch, vars, OpenBatch, CloseBatch,
                      ActivateBatch, RuntimeStates
  <2> QED
    BY <2>1
<1>6. CASE Restart
  BY <1>6 DEF Restart, TypeOK
<1> QED
  BY <1>1, <1>2, <1>3, <1>4, <1>5, <1>6 DEF Next

\* The step behind ResetClearsAcknowledgedLatch.
LEMMA ResetStep ==
  ASSUME Inv, [Next]_vars, restarts' = restarts
  PROVE  /\ rt.emergency_stop /\ ~rt'.emergency_stop =>
              \E r \in Requests : Returns(r) /\ "emergency_stop" \notin fired[r]
         /\ rt.last_control_error /\ ~rt'.last_control_error =>
              \E r \in Requests : Returns(r) /\ "control_fault" \notin fired[r]
<1>i. TypeOK /\ GenerationsRecordEngagements
  BY DEF Inv, History
<1>r. ASSUME NEW r \in Requests, Return(r), req[r].pc = "audited"
      PROVE  Returns(r)
  BY <1>i, <1>r DEF Return, Returns, Idle, TypeOK
<1>1. ASSUME rt.emergency_stop, ~rt'.emergency_stop
      PROVE  \E r \in Requests : Returns(r) /\ "emergency_stop" \notin fired[r]
  <2>1. PICK r \in Requests :
            /\ At(r, "estop_reset", "audited")
            /\ rt.emergency_stop_generation = req[r].acknowledged.emergency_stop
            /\ Return(r)
    BY <1>1, <1>i, StopClearedByReset
  <2>2. req[r].acknowledged["emergency_stop"] = from_runtime(rt)["emergency_stop"]
    BY <2>1 DEF from_runtime
  <2>3. "emergency_stop" \notin fired[r]
    BY <2>2, <1>i, UnchangedMeansNotFired
  <2> QED
    BY <2>1, <2>3, <1>r DEF At
<1>2. ASSUME rt.last_control_error, ~rt'.last_control_error
      PROVE  \E r \in Requests : Returns(r) /\ "control_fault" \notin fired[r]
  <2>1. PICK r \in Requests :
            /\ At(r, "fault_reset", "audited")
            /\ rt.control_fault_generation = req[r].acknowledged.control_fault
            /\ Return(r)
    BY <1>2, <1>i, FaultClearedByReset
  <2>2. req[r].acknowledged["control_fault"] = from_runtime(rt)["control_fault"]
    BY <2>1 DEF from_runtime
  <2>3. "control_fault" \notin fired[r]
    BY <2>2, <1>i, UnchangedMeansNotFired
  <2> QED
    BY <2>1, <2>3, <1>r DEF At
<1> QED
  BY <1>1, <1>2

(***************************************************************************)
(* A reset clears the emergency stop or the control fault its operator     *)
(* acknowledged and never a later one (reset_emergency_stop,               *)
(* reset_control_fault).                                                   *)
(***************************************************************************)
THEOREM ResetsClearWhatWasAcknowledged == Spec => ResetClearsAcknowledgedLatch
<1> DEFINE A == restarts' = restarts =>
                  /\ rt.emergency_stop /\ ~rt'.emergency_stop =>
                        \E r \in Requests : Returns(r) /\ "emergency_stop" \notin fired[r]
                  /\ rt.last_control_error /\ ~rt'.last_control_error =>
                        \E r \in Requests : Returns(r) /\ "control_fault" \notin fired[r]
<1>1. Inv /\ [Next]_vars => [A]_vars
  BY ResetStep
<1>2. Spec => [][A]_vars
  BY <1>1, InvCorrect, PTL DEF Spec
<1> QED
  BY <1>2 DEF ResetClearsAcknowledgedLatch

\* The step behind OperatorTargetsKeepRecipe.
LEMMA MergeStep ==
  ASSUME TypeOK, [Next]_vars, NEW r \in Requests, At(r, "targets", "listed"), Returns(r)
  PROVE  rt'.targets.hold_time_s = rt.targets.hold_time_s
<1>t. rt \in RuntimeStates /\ rt.targets \in ControlTargets
  BY DEF TypeOK, RuntimeStates
<1>1. RequestStep(r)
  BY ReturnsByOwnStep
<1>2. SetTargetsCommit(r) \/ Disconnect(r)
  BY <1>1 DEF At, Returns, RequestStep, SetAutoCheck, SetAutoCommit, UnlockCheck,
       UnlockCheckAgain, UnlockRecheck, UnlockClear, ResetControlFaultCheck,
       ResetControlFaultCommit, ResetEmergencyStopCheck, ResetEmergencyStopCommit,
       SetTargetsMerge, SetTargetsCheck, SetTargetsList, VerifyBatches, Audit
<1>3. CASE rt' = rt \/ rt' = disable_auto(rt)
  BY <1>t, <1>3 DEF disable_auto, RuntimeStates
<1>4. CASE rt.targets = req[r].current /\ rt' = [rt EXCEPT !.targets = MergedTargets(r)]
  <2>1. rt'.targets = [rt.targets EXCEPT !.temperature_c = req[r].wanted]
    BY <1>t, <1>4 DEF MergedTargets, RuntimeStates
  <2> QED
    BY <1>t, <2>1 DEF ControlTargets
<1> QED
  BY <1>2, <1>3, <1>4 DEF SetTargetsCommit, Disconnect

(***************************************************************************)
(* set_targets changes no field its request does not name, although it     *)
(* merged the others from a read made before its checks: the commit        *)
(* compares the whole set it read (expected_current).                      *)
(***************************************************************************)
THEOREM MergedTargetsKeepRecipe == Spec => OperatorTargetsKeepRecipe
<1> DEFINE A == \A r \in Requests :
                  At(r, "targets", "listed") /\ Returns(r) =>
                      rt'.targets.hold_time_s = rt.targets.hold_time_s
<1>1. TypeOK /\ [Next]_vars => [A]_vars
  BY MergeStep
<1>2. Spec => [][A]_vars
  BY <1>1, TypeCorrect, PTL DEF Spec
<1> QED
  BY <1>2 DEF OperatorTargetsKeepRecipe
=============================================================================
