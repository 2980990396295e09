------------------------------ MODULE CommandAck ------------------------------
(***************************************************************************)
(* What the control loop may take the answer to a command for, whichever   *)
(* device it drives (DeviceDriver::write_targets_acknowledged).  A command *)
(* meets one fate at most.  "confirmed" means that the device took this    *)
(* command, "rejected" that it did not; any other answer says nothing of   *)
(* it.  Frames, registers and files are not visible.                       *)
(***************************************************************************)

VARIABLES
    call,     \* "idle" or "waiting"
    fate,     \* of the command waited for: "none" so far, "applied" or "rejected"
    answer    \* what the last call over told its caller

ack == <<call, fate, answer>>

Init == call = "idle" /\ fate = "none" /\ answer = "none"

Issue ==
    /\ call = "idle" /\ call' = "waiting"
    /\ fate' = "none" /\ answer' = "none"

\* Once, and for good.
Decide(f) ==
    /\ call = "waiting" /\ fate = "none"
    /\ fate' = f /\ UNCHANGED <<call, answer>>

Answer(a) ==
    /\ call = "waiting"
    /\ a = "confirmed" => fate = "applied"
    /\ a = "rejected" => fate = "rejected"
    /\ call' = "idle" /\ fate' = "none" /\ answer' = a

\* There is nothing to send, it cannot be sent, or the caller asked for no acknowledgement.
AnswerAtOnce(a) ==
    /\ call = "idle" /\ answer' = a
    /\ UNCHANGED <<call, fate>>

\* The daemon restarts; nobody waits any more.
Restart == call' = "idle" /\ fate' = "none" /\ answer' = "none"

Next ==
    \/ Issue \/ Restart
    \/ \E f \in {"applied", "rejected"} : Decide(f)
    \/ \E a \in {"confirmed", "rejected", "timeout", "error"} : Answer(a)
    \/ \E a \in {"confirmed", "error", "written"} : AnswerAtOnce(a)

Spec == Init /\ [][Next]_ack
=============================================================================
