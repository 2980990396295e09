------------------------------ MODULE AckDrivers ------------------------------
(***************************************************************************)
(* The three drivers that acknowledge commands, and the contract that the  *)
(* control loop has with each of them.                                     *)
(***************************************************************************)
EXTENDS SerialHandshake, ModbusHandshake, JsonBridge

Waiting(yes) == IF yes THEN "waiting" ELSE "idle"

\* What the ESP32 has done with the frame that the loop waits for.
SerialFate ==
    IF loopCall.pc # "reading" THEN "none"
    ELSE IF loopCall.frame \in refused THEN "rejected"
    ELSE IF heldFrame = loopCall.frame THEN "applied"
    ELSE "none"

SerialAck == INSTANCE CommandAck WITH
    call <- Waiting(loopCall.pc = "reading"),
    fate <- SerialFate,
    answer <- IF loopCall.pc = "reading" THEN "none" ELSE loopCall.status

\* What the slave's registers hold once both are written.
RtuFate ==
    IF clients["loop"].pc \notin {"readTemp", "readStir", "compare"} THEN "none"
    ELSE IF \A axis \in Axes : registers[axis] = Raw(clients["loop"].cmd, axis) THEN "applied"
    ELSE "rejected"

RtuAck == INSTANCE CommandAck WITH
    call <- Waiting(clients["loop"].pc # "idle"),
    fate <- RtuFate,
    answer <- IF clients["loop"].pc # "idle" THEN "none" ELSE confirmed.status

BridgeAck == INSTANCE CommandAck WITH
    call <- Waiting(writers["loop"].pc # "idle"),
    fate <- writers["loop"].fate,
    answer <- writers["loop"].ack

(***************************************************************************)
(* On each device the loop hears "confirmed" of a command that the device  *)
(* took and "rejected" of one that it did not, and of no other: not of one *)
(* that timed out before it, that another writer sent or put in its place, *)
(* or that an earlier run of the daemon sent; and what the device has done *)
(* with a command does not change while the loop waits                     *)
(* (Esp32SerialDevice, ModbusRtuDevice and JsonBridgeDevice,               *)
(* write_targets_acknowledged).                                            *)
(***************************************************************************)
DriversImplementAck == SerialAck!Spec /\ RtuAck!Spec /\ BridgeAck!Spec
=============================================================================
