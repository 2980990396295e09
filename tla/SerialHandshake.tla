--------------------------- MODULE SerialHandshake ---------------------------
(***************************************************************************)
(* The ESP32 serial driver.  The control loop sends a command with a       *)
(* request id and reads lines until the acknowledgement that echoes the id *)
(* arrives or its window closes; HTTP handlers send commands without an    *)
(* id; the sampler reads lines for itself.  One mutex guards the port.     *)
(* Every reader buffers: what it read ahead is lost when it returns.       *)
(***************************************************************************)
EXTENDS Naturals, Sequences

CONSTANTS
    MaxFrames,    \* bound on the command frames sent
    MaxLines,     \* bound on what the serial line holds in each direction
    MaxClock,     \* bound on Utc::now().timestamp_millis()
    MaxReboots

ASSUME SerialConstants ==
    MaxFrames \in Nat /\ MaxLines \in Nat /\ MaxClock \in Nat /\ MaxReboots \in Nat

VARIABLES
    loopCall,   \* the control loop's write_targets_acknowledged
    sent,       \* history: frames sent so far, the last one's number
    toDevice,   \* command frames under way
    toHost,     \* lines the device sent and nobody read yet
    heldFrame,  \* history: the frame whose targets the device holds
    refused,    \* history: frames the device refused
    command_seq,
    clock,
    reboots

serialVars == <<loopCall, sent, toDevice, toHost, heldFrame, refused, command_seq, clock, reboots>>

NoRid == <<>>

\* Mutant: the sequence number alone.
SequenceOnly(now, seq) == <<0, seq>>

\* format!("auto-{}-{}", Utc::now().timestamp_millis(), command_seq)
request_id(now, seq) == <<now, seq>>

\* build_esp32_command, build_esp32_command_with_rid; "frame" numbers the command for the properties.
CommandFrame(rid, frame) == [rid |-> rid, frame |-> frame]

\* Lines from the device: parse_esp32_ack_frame accepts the first kind alone.
AckLine(rid, ok) == [kind |-> "ack", rid |-> rid, ok |-> ok]
OtherLine(kind) == [kind |-> kind, rid |-> NoRid, ok |-> FALSE]

NotCalling == [pc |-> "idle", rid |-> NoRid, frame |-> 0, expired |-> FALSE, status |-> "none"]

PortFree == loopCall.pc = "idle"

Rids == {NoRid} \cup {<<c, s>> : c \in 0 .. MaxClock, s \in 1 .. MaxFrames}

SerialTypeOK ==
    /\ loopCall \in [pc : {"idle", "reading"}, rid : Rids, frame : 0 .. MaxFrames,
                     expired : BOOLEAN, status : {"none", "confirmed", "rejected", "timeout"}]
    /\ sent \in 0 .. MaxFrames
    /\ toDevice \in Seq([rid : Rids, frame : 1 .. MaxFrames])
    /\ toHost \in Seq([kind : {"ack", "sample", "noise"}, rid : Rids, ok : BOOLEAN])
    /\ Len(toDevice) <= MaxLines /\ Len(toHost) <= MaxLines
    /\ heldFrame \in 0 .. MaxFrames /\ refused \subseteq 1 .. MaxFrames
    /\ command_seq \in 0 .. MaxFrames /\ clock \in 0 .. MaxClock /\ reboots \in 0 .. MaxReboots

SerialInit ==
    /\ loopCall = NotCalling /\ sent = 0
    /\ toDevice = <<>> /\ toHost = <<>> /\ heldFrame = 0 /\ refused = {}
    /\ command_seq = 0 /\ clock = 0 /\ reboots = 0

-----------------------------------------------------------------------------
(* The port's users.                                                       *)

CanSend == PortFree /\ sent < MaxFrames /\ Len(toDevice) < MaxLines

\* The loop takes the port, writes the frame and opens the handshake window.
SendWithRid ==
    /\ CanSend
    /\ LET rid == request_id(clock, command_seq + 1) IN
       /\ toDevice' = Append(toDevice, CommandFrame(rid, sent + 1))
       /\ loopCall' = [NotCalling EXCEPT !.pc = "reading", !.rid = rid, !.frame = sent + 1]
    /\ command_seq' = command_seq + 1 /\ sent' = sent + 1
    /\ UNCHANGED <<toHost, heldFrame, refused, clock, reboots>>

\* write_targets: no id, nobody waits for an answer.
SendPlain ==
    /\ CanSend
    /\ toDevice' = Append(toDevice, CommandFrame(NoRid, sent + 1))
    /\ sent' = sent + 1
    /\ UNCHANGED <<loopCall, toHost, heldFrame, refused, command_seq, clock, reboots>>

\* The reader is dropped with what it had read ahead.
DropReadAhead(rest) == \E n \in 0 .. Len(rest) : toHost' = SubSeq(rest, n + 1, Len(rest))

Finish(status, rest) ==
    /\ loopCall' = [loopCall EXCEPT !.pc = "idle", !.expired = FALSE, !.status = status]
    /\ DropReadAhead(rest)

\* read_bounded_line and the tests on the line it returns.
TakeLine ==
    /\ toHost # <<>>
    /\ LET got == Head(toHost) IN
       IF got.kind = "ack" /\ got.rid = loopCall.rid
       THEN Finish(IF got.ok THEN "confirmed" ELSE "rejected", Tail(toHost))
       ELSE toHost' = Tail(toHost) /\ UNCHANGED loopCall

KeepRest == UNCHANGED <<sent, toDevice, heldFrame, refused, command_seq, clock, reboots>>

\* Mutant: the deadline is only looked at when the line is silent.
HandshakeWhileSilent ==
    /\ loopCall.pc = "reading"
    /\ IF toHost # <<>> THEN TakeLine
       ELSE loopCall.expired /\ Finish("timeout", toHost)
    /\ KeepRest

\* One turn of write_targets_acknowledged's loop.
Handshake ==
    /\ loopCall.pc = "reading"
    /\ IF loopCall.expired THEN Finish("timeout", toHost) ELSE TakeLine
    /\ KeepRest

\* Instant::now() reaches the deadline.
WindowCloses ==
    /\ loopCall.pc = "reading" /\ ~loopCall.expired
    /\ loopCall' = [loopCall EXCEPT !.expired = TRUE]
    /\ UNCHANGED toHost /\ KeepRest

\* The sampler reads one line, whatever it is, and drops what it read ahead.
read_sample ==
    /\ PortFree /\ toHost # <<>>
    /\ DropReadAhead(Tail(toHost))
    /\ UNCHANGED loopCall /\ KeepRest

-----------------------------------------------------------------------------
(* The device and the wire.                                                *)

Emit(lines) == toHost' = IF Len(toHost) < MaxLines THEN toHost \o lines ELSE toHost

\* Any controller that speaks the protocol: it takes or refuses a command and answers one
\* with an id.  The example firmware (handleCommand) only ever takes, and never answers; a
\* damaged frame, which it drops silently, is WireLosesCommand.
DeviceTakesCommand(ok) ==
    /\ toDevice # <<>>
    /\ LET f == Head(toDevice) IN
       /\ heldFrame' = IF ok THEN f.frame ELSE heldFrame
       /\ refused' = IF ok THEN refused ELSE refused \cup {f.frame}
       /\ Emit(IF f.rid = NoRid THEN <<>> ELSE <<AckLine(f.rid, ok)>>)
    /\ toDevice' = Tail(toDevice)
    /\ UNCHANGED <<loopCall, sent, command_seq, clock, reboots>>

DeviceTalks(kind) ==
    /\ Len(toHost) < MaxLines
    /\ Emit(<<OtherLine(kind)>>)
    /\ UNCHANGED loopCall /\ KeepRest

WireLosesCommand ==
    /\ toDevice # <<>> /\ toDevice' = Tail(toDevice)
    /\ UNCHANGED <<loopCall, sent, toHost, heldFrame, refused, command_seq, clock, reboots>>

\* An acknowledgement is lost, damaged (its checksum fails) or sent twice.
WireHurtsAck ==
    /\ toHost # <<>>
    /\ \/ toHost' = Tail(toHost)
       \/ Head(toHost).kind = "ack" /\ toHost' = <<OtherLine("noise")>> \o Tail(toHost)
       \/ Head(toHost).kind = "ack" /\ Len(toHost) < MaxLines
          /\ toHost' = <<Head(toHost)>> \o toHost
    /\ UNCHANGED loopCall /\ KeepRest

ClockAdvances ==
    /\ clock < MaxClock /\ clock' = clock + 1
    /\ UNCHANGED <<loopCall, sent, toDevice, toHost, heldFrame, refused, command_seq, reboots>>

\* The daemon restarts and counts from zero; the line keeps what is on it.
Reboot ==
    /\ reboots < MaxReboots /\ clock < MaxClock
    /\ reboots' = reboots + 1 /\ clock' = clock + 1
    /\ command_seq' = 0 /\ loopCall' = NotCalling
    /\ UNCHANGED <<sent, toDevice, toHost, heldFrame, refused>>

SerialNext ==
    \/ SendWithRid \/ SendPlain \/ Handshake \/ WindowCloses \/ read_sample
    \/ \E ok \in BOOLEAN : DeviceTakesCommand(ok)
    \/ \E kind \in {"sample", "noise"} : DeviceTalks(kind)
    \/ WireLosesCommand \/ WireHurtsAck \/ ClockAdvances \/ Reboot

SerialSpec == SerialInit /\ [][SerialNext]_serialVars

-----------------------------------------------------------------------------
(* Properties.                                                             *)

(***************************************************************************)
(* The answer the loop acts on is about the command it just sent: a        *)
(* confirmed command is the one the device holds now and a rejected one    *)
(* was refused, with acknowledgements of timed-out commands and of an      *)
(* earlier run of the daemon still on the line, doubled, or damaged        *)
(* (Esp32SerialDevice::write_targets_acknowledged).                        *)
(***************************************************************************)
AnswerIsAboutThisCommand ==
    [][loopCall.pc = "reading" /\ loopCall'.pc = "idle" =>
          /\ loopCall'.status = "confirmed" => heldFrame = loopCall.frame
          /\ loopCall'.status = "rejected" => loopCall.frame \in refused]_serialVars

(***************************************************************************)
(* A handshake ends, also on a line that never falls silent and never      *)
(* acknowledges: the mutex is given back, and with it the way for an       *)
(* emergency stop's write.                                                 *)
(***************************************************************************)
HandshakeEnds == loopCall.pc = "reading" ~> loopCall.pc = "idle"
=============================================================================
