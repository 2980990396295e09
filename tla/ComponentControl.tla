--------------------------- MODULE ComponentControl ---------------------------
(***************************************************************************)
(* Commands to single components (execute_component_control) and AI master *)
(* control (ai_control), which adjusts targets, starts or stops a process  *)
(* and drives the shaker in one request, each part through the gate that   *)
(* an operator's request takes.                                            *)
(*                                                                         *)
(* The device is one that takes whole target sets (ESP32, Modbus,          *)
(* simulation); JsonBridge models the other kind.  Latches, faults and the *)
(* batch table are SafetyLatches', a process start or stop is              *)
(* ProcessLifecycle's: here they are one step each.  Values stand for      *)
(* ranges; a recommendation that fails its range check ends the request.   *)
(* A request whose client goes away is dropped at any of its awaits.       *)
(***************************************************************************)
EXTENDS Naturals, FiniteSets

CONSTANTS
    ControlCalls,       \* requests in flight
    Temps, Rpms,        \* target values within the limits of the safety configuration
    Forbidden,          \* forbidden control zones: pairs <<temperature, rpm>>
    Advice,             \* what the optimizer may recommend: [temp, rpm]
    StopSet,            \* process_stop_targets
    MaxLatchings,       \* bound on latches engaged by others
    MaxDropped,         \* bound on requests that lose their client
    MaxCalls            \* bound on requests, those of others included

ASSUME ControlConstants ==
    /\ Forbidden \subseteq Temps \X Rpms
    /\ Advice \subseteq [temp : Temps, rpm : Rpms]
    /\ StopSet \in [temp : Temps, rpm : Rpms, shake : {0}]
    /\ <<StopSet.temp, StopSet.rpm>> \notin Forbidden
    /\ MaxLatchings \in Nat /\ MaxDropped \in Nat /\ MaxCalls \in Nat

Shakes == {0, 1}
TargetSets == [temp : Temps, rpm : Rpms, shake : Shakes]

PairAllowed(t) == <<t.temp, t.rpm>> \notin Forbidden

VARIABLES
    rtTargets,      \* runtime.targets
    devTargets,     \* the set the device was last sent
    auto_on,        \* runtime.auto_enabled
    latch,          \* emergency stop or manual lock: [on, gen]
    ctlFault,       \* last_control_error: [on, gen]
    batchOn,        \* runtime.active_batch_id is set
    ctl,            \* what each request holds across its awaits
    begun,          \* requests so far
    dropped         \* requests that lost their client

ctlVars == <<rtTargets, devTargets, auto_on, latch, ctlFault, batchOn, ctl, begun, dropped>>

Generations == [latch |-> latch.gen, fault |-> ctlFault.gen]

FreeCall == [pc |-> "idle", by |-> "operator", risk |-> FALSE, next |-> StopSet, base |-> StopSet,
             gens |-> [latch |-> 0, fault |-> 0], acted |-> FALSE, alarm |-> FALSE, batch |-> FALSE,
             advised |-> FALSE, motor |-> FALSE]

\* A latched fault also ends automatic control.
LatchFault(now) == ctlFault' = [on |-> TRUE, gen |-> now.gen + 1]
KeepField == UNCHANGED <<batchOn, begun, dropped>>
NewCall(c) == ctl[c].pc = "idle" /\ begun < MaxCalls /\ begun' = begun + 1

-----------------------------------------------------------------------------
(* Commands.                                                               *)

Commands == [component : {"temperature_controller"}, action : {"set_target_temperature"}, value : Temps]
            \cup [component : {"stirrer_motor"}, action : {"set_rpm"}, value : Rpms]
            \cup [component : {"shake_stepper"}, action : {"set_speed"}, value : Shakes]
            \cup [component : {"shake_stepper"}, action : {"start", "stop"}, value : {0}]

component_control_requires_proven_safe_field(cmd) == cmd.action \notin {"stop", "off"}

\* One axis of the current set is replaced; "start" keeps a speed that is already set.
targets_for_component(cmd, current) ==
    CASE cmd.action = "set_target_temperature" -> [current EXCEPT !.temp = cmd.value]
      [] cmd.action = "set_rpm" -> [current EXCEPT !.rpm = cmd.value]
      [] cmd.action = "set_speed" -> [current EXCEPT !.shake = cmd.value]
      [] cmd.action = "start" -> [current EXCEPT !.shake = 1]
      [] cmd.action = "stop" -> [current EXCEPT !.shake = 0]

\* Mutant: the axis that moves is checked against the stop set, not against the axis that stays.
PairFromStopSet(cmd, current) == PairAllowed(targets_for_component(cmd, StopSet))

\* component_control_temperature_rpm_pair and validate_target_pair_allowed
CommandPairAllowed(cmd, current) == PairAllowed(targets_for_component(cmd, current))

\* ensure_target_update_interlock_clear; device health and sample freshness are part of "latch".
InterlockClear == ~latch.on /\ ~ctlFault.on

\* Risk-increasing commands end automatic control first, whatever becomes of them.
BeginComponent(c, cmd, by) ==
    LET risk == component_control_requires_proven_safe_field(cmd)
        go == [FreeCall EXCEPT !.pc = "write", !.by = by, !.risk = risk, !.base = rtTargets,
                   !.next = targets_for_component(cmd, rtTargets), !.gens = Generations]
    IN  \/ ~risk /\ ctl' = [ctl EXCEPT ![c] = go] /\ UNCHANGED auto_on
        \/ /\ risk /\ auto_on' = FALSE
           /\ \/ InterlockClear /\ CommandPairAllowed(cmd, rtTargets) /\ ctl' = [ctl EXCEPT ![c] = go]
              \/ /\ ~InterlockClear \/ ~CommandPairAllowed(cmd, rtTargets)
                 /\ ctl' = [ctl EXCEPT ![c] = FreeCall]

execute_component_control(c, cmd) ==
    /\ NewCall(c)
    /\ BeginComponent(c, cmd, "operator")
    /\ UNCHANGED <<rtTargets, devTargets, latch, ctlFault, batchOn, dropped>>

\* write_component of a device that takes whole sets: a failed write may have arrived.
WriteComponent(c) ==
    /\ ctl[c].pc = "write"
    /\ \/ /\ devTargets' = ctl[c].next
          /\ ctl' = [ctl EXCEPT ![c].pc = "audit", ![c].acted = TRUE]
          /\ UNCHANGED <<auto_on, ctlFault>>
       \/ /\ devTargets' \in {devTargets, ctl[c].next}
          /\ LatchFault(ctlFault) /\ auto_on' = FALSE
          /\ ctl' = [ctl EXCEPT ![c] = FreeCall]
    /\ UNCHANGED <<rtTargets, latch>> /\ KeepField

AuditComponent(c) ==
    /\ ctl[c].pc = "audit"
    /\ \/ ctl' = [ctl EXCEPT ![c].pc = "commit"] /\ UNCHANGED <<auto_on, ctlFault>>
       \/ LatchFault(ctlFault) /\ auto_on' = FALSE /\ ctl' = [ctl EXCEPT ![c] = FreeCall]
    /\ UNCHANGED <<rtTargets, devTargets, latch>> /\ KeepField

\* What is left of an AI request: its decision, with whether it acted.
Deciding(sent) == [FreeCall EXCEPT !.pc = "decision", !.by = "ai", !.acted = sent]

\* Where a request that has done its part goes: an operator's ends, the AI's audits its decision.
Finished(c) == ctl' = [ctl EXCEPT ![c] = IF @.by = "ai" THEN Deciding(TRUE) ELSE FreeCall]

FinalCheck(c) == InterlockClear /\ ctl[c].gens = Generations /\ rtTargets = ctl[c].base

\* Mutant: a refused commit is reported to the caller and nothing else.
CommitOrReport(c) ==
    /\ ctl[c].pc = "commit"
    /\ IF ~ctl[c].risk \/ FinalCheck(c)
       THEN rtTargets' = ctl[c].next /\ Finished(c)
       ELSE UNCHANGED rtTargets /\ ctl' = [ctl EXCEPT ![c] = FreeCall]
    /\ UNCHANGED <<devTargets, auto_on, latch, ctlFault>> /\ KeepField

(* commit_component_targets_after_final_interlock.  A stop is committed    *)
(* whatever happened meanwhile, the whole set it was computed from         *)
(* included; any other command only onto the set it was computed from,     *)
(* under the latches it has seen.                                          *)
CommitComponent(c) ==
    /\ ctl[c].pc = "commit"
    /\ IF ~ctl[c].risk \/ FinalCheck(c)
       THEN /\ rtTargets' = ctl[c].next /\ Finished(c)
            /\ UNCHANGED <<auto_on, ctlFault>>
       ELSE /\ LatchFault(ctlFault) /\ auto_on' = FALSE       \* latch_tail_failure_after_device_action
            /\ ctl' = [ctl EXCEPT ![c] = FreeCall]
            /\ UNCHANGED rtTargets
    /\ UNCHANGED <<devTargets, latch>> /\ KeepField

-----------------------------------------------------------------------------
(* AI master control.                                                      *)

\* Read once, at the beginning, and not repeated before the request's later parts.
ai_control_safety == ~latch.on

\* Temperature and rpm are the recommendation's, the shaker keeps the speed of the snapshot.
ai_targets_from_recommendation(a) == [temp |-> a.temp, rpm |-> a.rpm, shake |-> rtTargets.shake]

targets_differ(next) == rtTargets # next

(* On a stale sample or an offline device, part of "latch" here, automatic *)
(* control ends.  The snapshot taken here says whether there is a high     *)
(* alarm, whether a batch is active, what the recommended set is and       *)
(* whether it differs from the current one.  Targets may be adjusted only  *)
(* when the request allows it.                                             *)
ai_control(c) ==
    /\ NewCall(c)
    /\ IF ~ai_control_safety
       THEN auto_on' = FALSE /\ UNCHANGED ctl
       ELSE /\ \E alarm \in BOOLEAN :
                LET call == [FreeCall EXCEPT !.by = "ai", !.alarm = alarm, !.batch = batchOn]
                IN  \/ ctl' = [ctl EXCEPT ![c] = [call EXCEPT !.pc = "process"]]
                    \/ \E a \in Advice, pc \in {"advise", "process"} :
                        LET next == ai_targets_from_recommendation(a) IN
                        /\ pc = "advise" => targets_differ(next)
                        /\ ctl' = [ctl EXCEPT ![c] = [call EXCEPT !.pc = pc, !.next = next,
                                                                  !.advised = TRUE]]
            /\ UNCHANGED auto_on
    /\ UNCHANGED <<rtTargets, devTargets, latch, ctlFault, batchOn, dropped>>

\* expected_current, read on its own before the gate.
ExpectCurrent(c) ==
    /\ ctl[c].pc = "advise"
    /\ ctl' = [ctl EXCEPT ![c].pc = "ai_gate", ![c].base = rtTargets]
    /\ UNCHANGED <<rtTargets, devTargets, auto_on, latch, ctlFault>> /\ KeepField

\* apply_ai_targets up to its audit row.
ApplyAiTargets(c) ==
    /\ ctl[c].pc = "ai_gate"
    /\ auto_on' = FALSE
    /\ \/ /\ InterlockClear /\ PairAllowed(ctl[c].next)
          /\ ctl' = [ctl EXCEPT ![c].pc = "ai_write", ![c].gens = Generations]
       \/ ctl' = [ctl EXCEPT ![c] = FreeCall]                 \* interlock, zone or audit
    /\ UNCHANGED <<rtTargets, devTargets, latch, ctlFault>> /\ KeepField

WriteAiTargets(c) ==
    /\ ctl[c].pc = "ai_write"
    /\ \/ /\ devTargets' = ctl[c].next
          /\ ctl' = [ctl EXCEPT ![c].pc = "ai_commit", ![c].acted = TRUE]
          /\ UNCHANGED <<auto_on, ctlFault>>
       \/ /\ devTargets' \in {devTargets, ctl[c].next}
          /\ LatchFault(ctlFault) /\ auto_on' = FALSE
          /\ ctl' = [ctl EXCEPT ![c] = FreeCall]
    /\ UNCHANGED <<rtTargets, latch>> /\ KeepField

CommitAiTargets(c) ==
    /\ ctl[c].pc = "ai_commit"
    /\ IF FinalCheck(c)
       THEN /\ rtTargets' = ctl[c].next
            /\ ctl' = [ctl EXCEPT ![c].pc = "process", ![c].base = StopSet, ![c].gens = FreeCall.gens]
            /\ UNCHANGED <<auto_on, ctlFault>>
       ELSE /\ LatchFault(ctlFault) /\ auto_on' = FALSE
            /\ ctl' = [ctl EXCEPT ![c] = FreeCall]
            /\ UNCHANGED rtTargets
    /\ UNCHANGED <<devTargets, latch>> /\ KeepField

\* A lifecycle step that fails on the device has latched the fault; the request ends with it.
LifecycleFails(c, t) ==
    /\ devTargets' \in {devTargets, t}
    /\ LatchFault(ctlFault) /\ auto_on' = FALSE
    /\ ctl' = [ctl EXCEPT ![c] = FreeCall]
    /\ UNCHANGED <<rtTargets, batchOn>>

\* One that is refused, or whose process cannot be read, ends the request as well.
LifecycleRefuses(c) ==
    /\ auto_on' \in {auto_on, FALSE}
    /\ ctl' = [ctl EXCEPT ![c] = FreeCall]
    /\ UNCHANGED <<rtTargets, devTargets, batchOn, ctlFault>>

\* The lifecycle makes its own checks; it writes the recipe's targets to device and runtime.
AiStart(c) ==
    /\ ctl[c].pc = "process"
    /\ \/ /\ ~ctl[c].batch /\ ~ctl[c].alarm /\ ~batchOn /\ InterlockClear
          /\ \E t \in {t \in TargetSets : PairAllowed(t)} :
              \/ /\ rtTargets' = t /\ devTargets' = t
                 /\ batchOn' = TRUE /\ auto_on' = FALSE
                 /\ ctl' = [ctl EXCEPT ![c].pc = "after", ![c].acted = TRUE]
                 /\ UNCHANGED ctlFault
              \/ LifecycleFails(c, t)
       \/ LifecycleRefuses(c)
       \/ /\ ctl' = [ctl EXCEPT ![c].pc = "after"]            \* blocked, or nothing to start
          /\ UNCHANGED <<rtTargets, devTargets, batchOn, auto_on, ctlFault>>
    /\ UNCHANGED <<latch, begun, dropped>>

\* The concentration is read afresh, the alarm is the one of the beginning.
should_ai_stop_process(c, ripe) == ripe \/ (ctl[c].alarm /\ ctl[c].batch)

AiStop(c) ==
    /\ ctl[c].pc = "after" /\ batchOn
    /\ \E ripe \in BOOLEAN : should_ai_stop_process(c, ripe)
    /\ \/ /\ rtTargets' = StopSet /\ devTargets' = StopSet /\ batchOn' = FALSE /\ auto_on' = FALSE
          /\ ctl' = [ctl EXCEPT ![c] = Deciding(TRUE)]
          /\ UNCHANGED ctlFault
       \/ LifecycleFails(c, StopSet)
       \/ LifecycleRefuses(c)
    /\ UNCHANGED <<latch, begun, dropped>>

\* The speed that is recommended, or else the current one; the motor's state is a report.
plan_shake_component_action(c) ==
    (IF ctl[c].advised THEN ctl[c].next.shake ELSE rtTargets.shake) > 0

\* Where no stop is due or none is allowed.  Without a batch or a plan the decision is left.
PlanShake(c) ==
    /\ ctl[c].pc = "after"
    /\ \/ /\ batchOn
          /\ ctl' = [ctl EXCEPT ![c].pc = "shake", ![c].motor = plan_shake_component_action(c)]
       \/ ctl' = [ctl EXCEPT ![c] = Deciding(@.acted)]
    /\ UNCHANGED <<rtTargets, devTargets, auto_on, latch, ctlFault>> /\ KeepField

AiShake(c) ==
    /\ ctl[c].pc = "shake"
    /\ \E cmd \in Commands : /\ cmd.action = IF ctl[c].motor THEN "start" ELSE "stop"
                             /\ BeginComponent(c, cmd, "ai")
    /\ UNCHANGED <<rtTargets, devTargets, latch, ctlFault>> /\ KeepField

\* The decision is audited last; if that fails after the AI acted, the plant is stopped.
AuditDecision(c) ==
    /\ ctl[c].pc = "decision"
    /\ \/ UNCHANGED <<auto_on, ctlFault>>
       \/ IF ctl[c].acted THEN LatchFault(ctlFault) /\ auto_on' = FALSE
                          ELSE UNCHANGED <<auto_on, ctlFault>>
    /\ ctl' = [ctl EXCEPT ![c] = FreeCall]
    /\ UNCHANGED <<rtTargets, devTargets, latch>> /\ KeepField

-----------------------------------------------------------------------------
(* Everyone else.                                                          *)

\* Emergency stop, manual lock, a lost sample: the stop also drives the device down.
Engage ==
    /\ latch.gen < MaxLatchings
    /\ latch' = [on |-> TRUE, gen |-> latch.gen + 1]
    /\ auto_on' = FALSE
    /\ devTargets' \in {devTargets, StopSet}
    /\ UNCHANGED <<rtTargets, ctlFault, ctl>> /\ KeepField

\* Maintenance clears a latch or a fault.
Clear ==
    /\ \/ latch.on /\ latch' = [latch EXCEPT !.on = FALSE] /\ UNCHANGED ctlFault
       \/ ctlFault.on /\ ctlFault' = [ctlFault EXCEPT !.on = FALSE] /\ UNCHANGED latch
    /\ UNCHANGED <<rtTargets, devTargets, auto_on, ctl>> /\ KeepField

\* The target endpoint, the control loop and the process lifecycle, each with its own zone check.
OthersSetTargets ==
    /\ InterlockClear /\ begun < MaxCalls /\ begun' = begun + 1
    /\ \E t \in {t \in TargetSets : PairAllowed(t)} : rtTargets' = t
    /\ \/ UNCHANGED <<devTargets, auto_on, batchOn>>
       \/ devTargets' = rtTargets' /\ auto_on' = TRUE /\ UNCHANGED batchOn
       \/ devTargets' = rtTargets' /\ batchOn' = ~batchOn /\ auto_on' = FALSE
    /\ UNCHANGED <<latch, ctlFault, ctl, dropped>>

\* What a call may be waiting to see written: its own set, a recipe's, or the stop's.
UnderWay(c) ==
    CASE ctl[c].pc \in {"write", "ai_write"} -> {ctl[c].next}
      [] ctl[c].pc = "process" -> {t \in TargetSets : PairAllowed(t)}
      [] ctl[c].pc = "after" -> {StopSet}
      [] OTHER -> {}

\* The client goes away, and the handler is dropped where it stands: it commits and latches
\* nothing.  A device write it was waiting for may still get through.
DropCall(c) ==
    /\ ctl[c].pc # "idle" /\ dropped < MaxDropped
    /\ dropped' = dropped + 1
    /\ devTargets' \in {devTargets} \cup UnderWay(c)
    /\ ctl' = [ctl EXCEPT ![c] = FreeCall]
    /\ UNCHANGED <<rtTargets, auto_on, latch, ctlFault, batchOn, begun>>

CtlInit ==
    /\ rtTargets = StopSet /\ devTargets = StopSet /\ auto_on = FALSE
    /\ latch = [on |-> FALSE, gen |-> 0] /\ ctlFault = [on |-> FALSE, gen |-> 0]
    /\ batchOn = FALSE /\ begun = 0 /\ dropped = 0
    /\ ctl = [c \in ControlCalls |-> FreeCall]

ComponentStep(c) == WriteComponent(c) \/ AuditComponent(c) \/ CommitComponent(c)

AiStep(c) == \/ ExpectCurrent(c) \/ ApplyAiTargets(c) \/ WriteAiTargets(c) \/ CommitAiTargets(c)
             \/ AiStart(c) \/ AiStop(c) \/ PlanShake(c) \/ AiShake(c) \/ AuditDecision(c)

CtlNext ==
    \/ \E c \in ControlCalls :
        \/ \E cmd \in Commands : execute_component_control(c, cmd)
        \/ ai_control(c)
        \/ ComponentStep(c) \/ AiStep(c) \/ DropCall(c)
    \/ Engage \/ Clear \/ OthersSetTargets

CtlSpec == CtlInit /\ [][CtlNext]_ctlVars

-----------------------------------------------------------------------------
CtlTypeOK ==
    /\ rtTargets \in TargetSets /\ devTargets \in TargetSets
    /\ auto_on \in BOOLEAN /\ batchOn \in BOOLEAN /\ begun \in 0 .. MaxCalls
    /\ dropped \in 0 .. MaxDropped
    /\ latch \in [on : BOOLEAN, gen : 0 .. MaxLatchings] /\ ctlFault \in [on : BOOLEAN, gen : Nat]
    /\ \A c \in ControlCalls :
        ctl[c].pc \in {"idle", "write", "audit", "commit", "advise", "ai_gate", "ai_write",
                       "ai_commit", "process", "after", "shake", "decision"}

(* No interleaving of single-axis commands, AI adjustments, stops, process *)
(* starts and target updates leaves the runtime or the device with a       *)
(* temperature and a stirrer speed that together lie in a forbidden zone,  *)
(* although each command moves one axis of a set read earlier.             *)
NoForbiddenPair == PairAllowed(rtTargets) /\ PairAllowed(devTargets)

(* A request that has sent targets to the device and answers without       *)
(* having committed them leaves a new control fault behind: the runtime    *)
(* does not go on as if the device still held the old set                  *)
(* (latch_tail_failure_after_device_action).  The commit that is missing   *)
(* may be missing for a write of others, a latch engaged and cleared       *)
(* again, or a failed audit row.  A request that lost its client answers   *)
(* nothing and latches nothing: until the next write the device may hold a *)
(* set the runtime does not know.                                          *)
UncommittedWriteIsLatched ==
    [][\A c \in ControlCalls :
        /\ ctl[c].pc \in {"audit", "commit", "ai_commit"} /\ ctl'[c].pc = "idle"
        /\ dropped' = dropped
        => rtTargets' = ctl[c].next \/ (ctlFault'.on /\ ctlFault'.gen > ctlFault.gen)]_ctlVars

=============================================================================
