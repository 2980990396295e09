------------------------------ MODULE MCDevices ------------------------------
(***************************************************************************)
(* What the daemon and its devices must bring to an end, for TLC: an       *)
(* integration call over MQTT, the serial, Modbus RTU and JSON-bridge      *)
(* conversations, a Modbus TCP connection, the control loop fed by pushed  *)
(* samples, and a process start.  Their states are disjoint at this level  *)
(* of detail, so they are put side by side: a behaviour is about one of    *)
(* them, named by part.                                                    *)
(***************************************************************************)
EXTENDS IntegrationTasks, AckDrivers, ModbusServer, ControlLoop

CONSTANTS
    Starts     \* requests that start a process

VARIABLES
    part,
    runRt, runRows, runJob, running, stray, vanished, gone, restarts    \* ProcessLifecycle

Parts == {"tasks", "serial", "rtu", "bridge", "server", "loop", "runs"}

runVars == <<runRt, runRows, runJob, running, stray, vanished, gone, restarts>>

-----------------------------------------------------------------------------
(* Values of the constants.                                                *)

MCPayloads == {[action |-> "start", process |-> TRUE, content |-> 1]}
MCLegacyTables == {<<>>}

\* Registers whose steps are coarser than the targets.
MCTempReg == [scale |-> 3, offset |-> 1]
MCStirReg == [scale |-> 2, offset |-> 0]

MCLoopTargets == {[shake |-> 2, temp |-> 2, stir |-> 1]}
MCStopTargets == {[shake |-> 0, temp |-> 0, stir |-> 0]}

\* A controller that reports the delay of its steps, and one that heats on its own.
MCSetups == {[speed |-> "delay", relay_temperature_control |-> TRUE],
             [speed |-> "cpm", relay_temperature_control |-> FALSE]}

\* Thousandths: steps of 0.1 degree up to 0.15, of 1 rpm up to 5.
MCScale == [r \in Registers |-> IF r = "temp" THEN 100 ELSE 1000]
MCOffset == [r \in Registers |-> 0]
MCLimit == [r \in Registers |-> IF r = "temp" THEN 150 ELSE 5000]

Targets(t) == [temperature_c |-> t, hold_time_s |-> 1]

\* The loop gets samples pushed over the API, in a laboratory set-up without device status.
MCDefaultTargets == Targets(1)

-----------------------------------------------------------------------------
\* Two starts that are polled until they return, or until their client goes away; one batch id.
R == INSTANCE ProcessLifecycle WITH
        StartTargets <- Targets(2), StopTargets <- Targets(1), Handlers <- Starts, Batches <- {CHOOSE b \in Batches : TRUE},
        Kinds <- {"process"}, FinishDuringStart <- FALSE, MaxGone <- 1, MaxRestarts <- 0,
        rt <- runRt, unfinished <- runRows, job <- runJob

-----------------------------------------------------------------------------
DevicesInit ==
    /\ part \in Parts
    /\ TasksInit /\ SerialInit /\ ModbusInit /\ BridgeInit /\ ServerInit /\ Init /\ R!Init
    /\ part # "bridge" => plant.motor = 0 /\ setup.speed = "cpm"    \* one state of the part that rests

DevicesNext ==
    /\ UNCHANGED part
    /\ \/ /\ part = "tasks" /\ TasksNext
          /\ UNCHANGED <<serialVars, modbusVars, bridgeVars, serverVars, vars, runVars>>
       \/ /\ part = "serial" /\ SerialNext
          /\ UNCHANGED <<taskVars, modbusVars, bridgeVars, serverVars, vars, runVars>>
       \/ /\ part = "rtu" /\ ModbusNext
          /\ UNCHANGED <<taskVars, serialVars, bridgeVars, serverVars, vars, runVars>>
       \/ /\ part = "bridge" /\ BridgeNext
          /\ UNCHANGED <<taskVars, serialVars, modbusVars, serverVars, vars, runVars>>
       \/ /\ part = "server" /\ ServerNext
          /\ UNCHANGED <<taskVars, serialVars, modbusVars, bridgeVars, vars, runVars>>
       \/ /\ part = "loop" /\ Next
          /\ UNCHANGED <<taskVars, serialVars, modbusVars, bridgeVars, serverVars, runVars>>
       \/ /\ part = "runs" /\ R!Next
          /\ UNCHANGED <<taskVars, serialVars, modbusVars, bridgeVars, serverVars, vars>>

devicesVars ==
    <<part, taskVars, serialVars, modbusVars, bridgeVars, serverVars, vars, runVars>>

-----------------------------------------------------------------------------
(* Fairness: what is ready keeps being run.  Nothing is assumed of a wire, *)
(* a client, a broker or an operator.                                      *)

\* Tokio polls a ready future again: a call goes on, and the bridge sends its receipt.
TasksFairness ==
    /\ \A c \in Callers : WF_taskVars(part = "tasks" /\ CallStep(c))
    /\ WF_taskVars(part = "tasks" /\ PublishReceipt)

\* The blocking thread keeps running and its clock keeps going.
SerialFairness ==
    /\ WF_serialVars(part = "serial" /\ Handshake)
    /\ WF_serialVars(part = "serial" /\ WindowCloses)

\* While it is not halted the loop writes again and again, its blocking calls run, and the bridge
\* process works.  Nobody owes the reset of a fault.
BridgeFairness ==
    /\ WF_bridgeVars(part = "bridge" /\ LoopCompute) /\ WF_bridgeVars(part = "bridge" /\ PollState)
    /\ \A w \in BridgeWriters : WF_bridgeVars(part = "bridge" /\ write_json_bridge_control(w))
    /\ WF_bridgeVars(part = "bridge" /\ TakeControl(TRUE))
    /\ WF_bridgeVars(part = "bridge" /\ PublishState)

\* Timers fire (a silent peer's stays armed) and handlers that are ready are polled.
ServerFairness ==
    \A c \in Clients : /\ WF_serverVars(part = "server" /\ c \in silent /\ Drop(c))
                       /\ WF_serverVars(part = "server" /\ WriteStep(c))

\* The loop's and the handlers' futures are polled; operators and field owe nothing.
LoopFairness ==
    /\ WF_vars(part = "loop" /\ LoopStep) /\ WF_vars(part = "loop" /\ HandlerStep)

RunFairness == \A x \in Starts : WF_runVars(part = "runs" /\ R!HandlerStep(x))

DevicesSpec ==
    /\ DevicesInit /\ [][DevicesNext]_devicesVars
    /\ TasksFairness /\ SerialFairness /\ BridgeFairness /\ ServerFairness
    /\ LoopFairness /\ RunFairness

-----------------------------------------------------------------------------
\* The type invariant of the module a behaviour is about; the others rest in their Init.
DevicesTypeOK ==
    /\ part \in Parts
    /\ part = "tasks" => TasksTypeOK
    /\ part = "serial" => SerialTypeOK
    /\ part = "rtu" => ModbusTypeOK
    /\ part = "bridge" => BridgeTypeOK
    /\ part = "server" => ServerTypeOK
    /\ part = "loop" => TypeOK
    /\ part = "runs" => R!TypeOK

(* The controller behind the JSON bridge ends where the loop drives it     *)
(* (next_json_bridge_control), in the behaviours that are about it.        *)
BridgeSettles == part = "bridge" => BridgeConverges

(* A process start ends in a run or in a stop (ProcessLifecycle).          *)
StartSettles == R!StartSettles
=============================================================================
