----------------------------- MODULE ModbusServer -----------------------------
(***************************************************************************)
(* The Modbus TCP server: SCADA clients connect, take one of a bounded     *)
(* number of connection slots, and read and write targets as 16-bit        *)
(* registers.  A write replaces one field of the runtime's targets, which  *)
(* the HTTP API and the control loop change as well.                       *)
(*                                                                         *)
(* A frame is what the server makes of it; the values of coils and         *)
(* discrete inputs are left out.  Register values are integers in          *)
(* thousandths of their unit.                                              *)
(***************************************************************************)
EXTENDS Integers, FiniteSets

CONSTANTS
    Clients,
    MaxConnections,    \* MAX_MODBUS_TCP_CONNECTIONS
    RequireTls,
    Registers,         \* writable registers
    Raws,              \* raw values clients write
    RawLimit,          \* u16::MAX
    Scale, Offset,     \* of each register, in thousandths
    Limit,             \* largest value each register accepts
    MaxWrites,         \* bound on writes, those of others included
    MaxEngaged         \* bound on safety latches engaged meanwhile

ASSUME ServerConstants ==
    /\ MaxConnections \in Nat \ {0} /\ RequireTls \in BOOLEAN
    /\ RawLimit \in Nat /\ Raws \subseteq 0 .. RawLimit
    /\ MaxWrites \in Nat /\ MaxEngaged \in Nat

VARIABLES
    conns,      \* each client's connection
    accepted,   \* the client whose stream waits for a slot, if any
    silent,     \* clients that have stopped sending and reading
    regs,       \* runtime.targets, a value per register
    barrier,    \* any safety latch: [on, gen]
    autoReg,    \* runtime.auto_enabled
    writes

serverVars == <<conns, accepted, silent, regs, barrier, autoReg, writes>>

Nobody == "nobody"
Away == [pc |-> "away", register |-> "none", raw |-> 0,
         seen |-> [r \in Registers |-> 0], gen |-> 0]

InSlot(c) == conns[c].pc \notin {"away", "backlog", "accepted"}
FreeSlots == MaxConnections - Cardinality({c \in Clients : InSlot(c)})

Step(c, pc) == conns' = [conns EXCEPT ![c].pc = pc]
KeepTargets == UNCHANGED <<regs, barrier, autoReg, writes>>

-----------------------------------------------------------------------------
(* Registers.                                                              *)

\* round2, and the rounding of encode_modbus_raw, half away from zero for values >= 0.
Nearest(a, b) == (2 * a + b) \div (2 * b)
RoundToCents(v) == 10 * Nearest(v, 10)

\* write_single_register: raw as f64 * scale + offset
Decoded(r, raw) == raw * Scale[r] + Offset[r]

encode_modbus_raw(r, v) == Nearest(v - Offset[r], Scale[r])
RawFits(r, v) == v >= Offset[r] /\ encode_modbus_raw(r, v) <= RawLimit

validate_modbus_register_write_value(r, v) == v >= 0 /\ v <= Limit[r]

-----------------------------------------------------------------------------
(* Connections.                                                            *)

Connect(c) ==
    /\ conns[c].pc = "away" /\ c \notin silent
    /\ Step(c, "backlog")
    /\ UNCHANGED <<accepted, silent>> /\ KeepTargets

\* accept() comes before the slot: one stream at a time waits for a permit.
Accept(c) ==
    /\ conns[c].pc = "backlog" /\ accepted = Nobody
    /\ accepted' = c /\ Step(c, "accepted")
    /\ UNCHANGED silent /\ KeepTargets

AcquireSlot ==
    /\ accepted # Nobody /\ FreeSlots > 0
    /\ Step(accepted, IF RequireTls THEN "handshake" ELSE "header")
    /\ accepted' = Nobody
    /\ UNCHANGED silent /\ KeepTargets

CompleteHandshake(c) ==
    /\ conns[c].pc = "handshake" /\ c \notin silent
    /\ Step(c, "header")
    /\ UNCHANGED <<accepted, silent>> /\ KeepTargets

\* Mutant: only established connections have a time limit.
DropOnceEstablished(c) ==
    /\ conns[c].pc \in {"header", "pdu", "respond", "reject"}
    /\ conns' = [conns EXCEPT ![c] = Away]
    /\ UNCHANGED <<accepted, silent>> /\ KeepTargets

\* A time limit expires, or the peer closes: the task ends and its permit is free.
Drop(c) ==
    /\ conns[c].pc \in {"handshake", "header", "pdu", "respond", "reject"}
    /\ conns' = [conns EXCEPT ![c] = Away]
    /\ UNCHANGED <<accepted, silent>> /\ KeepTargets

\* protocol_id, length: a malformed header is answered, then the stream is closed.
ReadHeader(c) ==
    /\ conns[c].pc = "header" /\ c \notin silent
    /\ Step(c, "pdu") \/ Step(c, "reject")
    /\ UNCHANGED <<accepted, silent>> /\ KeepTargets

\* Another unit id, an unknown function, a bad quantity and a read are answered at once.
ReadPdu(c) ==
    /\ conns[c].pc = "pdu" /\ c \notin silent
    /\ \/ Step(c, "respond")
       \/ /\ writes < MaxWrites
          /\ \E r \in Registers, raw \in Raws :
                conns' = [conns EXCEPT ![c] =
                    [pc |-> "apply", register |-> r, raw |-> raw, seen |-> regs, gen |-> 0]]
    /\ UNCHANGED <<accepted, silent>> /\ KeepTargets

Respond(c) ==
    /\ conns[c].pc \in {"respond", "reject"} /\ c \notin silent
    /\ conns' = [conns EXCEPT ![c] = IF @.pc = "reject" THEN Away ELSE [Away EXCEPT !.pc = "header"]]
    /\ UNCHANGED <<accepted, silent>> /\ KeepTargets

GoSilent(c) ==
    /\ c \notin silent /\ InSlot(c)
    /\ silent' = silent \cup {c}
    /\ UNCHANGED <<conns, accepted>> /\ KeepTargets

-----------------------------------------------------------------------------
(* apply_modbus_register_write.                                            *)

Requested(c) == RoundToCents(Decoded(conns[c].register, conns[c].raw))

\* Merged with the targets read before.  A value out of range or not encodable is refused;
\* so may be a good one, for a target it inherits or for the safety configuration
\* (validate_modbus_register_targets, ensure_targets_allowed).  Automatic control ends before
\* the interlock and the persisted batch (ensure_persisted_batch_state_consistent) can refuse.
ApplyWrite(c) ==
    LET r == conns[c].register IN
    /\ conns[c].pc = "apply"
    /\ \/ Step(c, "respond") /\ UNCHANGED autoReg
       \/ /\ validate_modbus_register_write_value(r, Decoded(r, conns[c].raw))
          /\ RawFits(r, Requested(c))
          /\ autoReg' = FALSE
          /\ \/ Step(c, "respond")
             \/ ~barrier.on /\ conns' = [conns EXCEPT ![c].pc = "audit", ![c].gen = barrier.gen]
    /\ UNCHANGED <<accepted, silent, regs, barrier, writes>>

\* The audit row is written before the targets change; without it the write is refused.
AuditRegisterWrite(c) ==
    /\ conns[c].pc = "audit"
    /\ Step(c, "commit") \/ Step(c, "respond")
    /\ UNCHANGED <<accepted, silent>> /\ KeepTargets

\* Mutant: the merged set is committed onto whatever the targets are by now.
CommitMerged(c) ==
    /\ conns[c].pc = "commit"
    /\ Step(c, "respond")
    /\ IF ~barrier.on /\ barrier.gen = conns[c].gen
       THEN /\ regs' = [conns[c].seen EXCEPT ![conns[c].register] = Requested(c)]
            /\ writes' = writes + 1 /\ UNCHANGED autoReg
       ELSE UNCHANGED <<regs, autoReg, writes>>
    /\ UNCHANGED <<accepted, silent, barrier>>

\* commit_targets_after_final_interlock with the targets the write was merged with.
CommitWrite(c) ==
    /\ conns[c].pc = "commit"
    /\ Step(c, "respond")
    /\ IF ~barrier.on /\ barrier.gen = conns[c].gen /\ regs = conns[c].seen
       THEN /\ regs' = [conns[c].seen EXCEPT ![conns[c].register] = Requested(c)]
            /\ writes' = writes + 1 /\ UNCHANGED autoReg
       ELSE autoReg' = FALSE /\ UNCHANGED <<regs, writes>>
    /\ UNCHANGED <<accepted, silent, barrier>>

-----------------------------------------------------------------------------
\* The HTTP API, the control loop and the operator.
OthersWrite ==
    /\ writes < MaxWrites /\ ~barrier.on
    /\ \E r \in Registers, raw \in Raws :
        /\ validate_modbus_register_write_value(r, Decoded(r, raw))
        /\ regs' = [regs EXCEPT ![r] = RoundToCents(Decoded(r, raw))]
    /\ writes' = writes + 1
    /\ autoReg' \in {TRUE, autoReg}
    /\ UNCHANGED <<conns, accepted, silent, barrier>>

Barrier ==
    /\ \/ /\ ~barrier.on /\ barrier.gen < MaxEngaged
          /\ barrier' = [on |-> TRUE, gen |-> barrier.gen + 1] /\ autoReg' = FALSE
       \/ barrier.on /\ barrier' = [barrier EXCEPT !.on = FALSE] /\ UNCHANGED autoReg
    /\ UNCHANGED <<conns, accepted, silent, regs, writes>>

ServerInit ==
    /\ regs = [r \in Registers |-> 0]
    /\ conns = [c \in Clients |-> Away]
    /\ accepted = Nobody /\ silent = {}
    /\ barrier = [on |-> FALSE, gen |-> 0] /\ autoReg = TRUE /\ writes = 0

WriteStep(c) == ApplyWrite(c) \/ AuditRegisterWrite(c) \/ CommitWrite(c)

ServerNext ==
    \/ \E c \in Clients :
        \/ Connect(c) \/ Accept(c) \/ CompleteHandshake(c) \/ Drop(c)
        \/ ReadHeader(c) \/ ReadPdu(c) \/ Respond(c) \/ GoSilent(c)
        \/ WriteStep(c)
    \/ AcquireSlot \/ OthersWrite \/ Barrier

ServerSpec == ServerInit /\ [][ServerNext]_serverVars

-----------------------------------------------------------------------------
ServerTypeOK ==
    /\ \A c \in Clients :
        conns[c].pc \in {"away", "backlog", "accepted", "handshake", "header", "pdu", "apply",
                         "audit", "commit", "respond", "reject"}
    /\ accepted \in Clients \cup {Nobody} /\ silent \subseteq Clients
    /\ regs \in [Registers -> Nat] /\ barrier.on \in BOOLEAN /\ autoReg \in BOOLEAN
    /\ FreeSlots >= 0

(* A committed register write puts the raw value the client sent into its  *)
(* register, as a read would encode it, and changes no other target,       *)
(* although the set it was merged into was read before the interlock and   *)
(* the audit, and the value went through a scaling and a rounding.         *)
WriteChangesItsRegister ==
    [][\A c \in Clients :
        conns[c].pc = "commit" /\ conns'[c].pc = "respond" /\ regs' # regs =>
            /\ encode_modbus_raw(conns[c].register, regs'[conns[c].register]) = conns[c].raw
            /\ \A r \in Registers \ {conns[c].register} : regs'[r] = regs[r]]_serverVars

(* A client that goes silent, at whatever point of handshake, header,      *)
(* frame or answer, does not keep its connection slot.                     *)
SilentClientsAreDropped == \A c \in Clients : (c \in silent /\ InSlot(c)) ~> ~InSlot(c)

=============================================================================
