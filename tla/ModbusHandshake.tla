--------------------------- MODULE ModbusHandshake ---------------------------
(***************************************************************************)
(* The Modbus RTU driver.  A command is two registers, written one after   *)
(* the other under the client's mutex; the control loop reads both back    *)
(* and compares, an HTTP handler does not.  Values are fixed-point         *)
(* integers.                                                               *)
(***************************************************************************)
EXTENDS Integers

CONSTANTS
    RtuTemperatures, Speeds, \* commanded values
    TempReg, StirReg,       \* registers: [scale, offset]
    RawMax                  \* u16::MAX

ASSUME ModbusConstants ==
    /\ RawMax \in Nat /\ RtuTemperatures \subseteq Int /\ Speeds \subseteq Int
    /\ TempReg.scale \in Nat \ {0} /\ TempReg.offset \in Int
    /\ StirReg.scale \in Nat \ {0} /\ StirReg.offset \in Int

Axes == {"temp", "stir"}
RegOf == [temp |-> TempReg, stir |-> StirReg]
Commands == [temp : RtuTemperatures, stir : Speeds]
NoCommand == [temp |-> 0, stir |-> 0]
RtuClients == {"loop", "http"}

VARIABLES
    registers,   \* the slave's two target registers
    clients,     \* each client's call
    confirmed    \* history: what the last call over told its caller

modbusVars == <<registers, clients, confirmed>>

-----------------------------------------------------------------------------
CannotEncode == -1

\* .round() goes to the nearest, away from zero on a tie.
Rounded(n, d) == IF n >= 0 THEN (2 * n + d) \div (2 * d) ELSE -((d - 2 * n) \div (2 * d))

encode_write_register(value, reg) ==
    LET raw == Rounded(value - reg.offset, reg.scale)
    IN  IF raw \in 0 .. RawMax THEN raw ELSE CannotEncode

decode_write_register(raw, reg) == raw * reg.scale + reg.offset

Raw(c, axis) == encode_write_register(c[axis], RegOf[axis])
Encodable(c) == \A axis \in Axes : Raw(c, axis) # CannotEncode

NoCall == [pc |-> "idle", cmd |-> NoCommand, seen |-> [temp |-> 0, stir |-> 0]]
NothingSaid == [status |-> "none", cmd |-> NoCommand, accepted |-> NoCommand]

ModbusTypeOK ==
    /\ registers \in [Axes -> 0 .. RawMax]
    /\ clients \in [RtuClients -> [pc : {"idle", "temp", "stir", "readTemp", "readStir", "compare"},
                                   cmd : Commands \cup {NoCommand}, seen : [Axes -> 0 .. RawMax]]]
    /\ confirmed.status \in {"none", "error", "confirmed", "rejected", "written"}
    /\ confirmed.cmd \in Commands \cup {NoCommand}

ModbusInit ==
    /\ registers = [axis \in Axes |-> 0]
    /\ clients = [w \in RtuClients |-> NoCall]
    /\ confirmed = NothingSaid

\* self.client.lock().await: held from the first register to the last.
client_lock(w) == \A v \in RtuClients \ {w} : clients[v].pc = "idle"

\* The loop encodes both values before it writes either.
BeginAcknowledged(c) ==
    /\ clients["loop"].pc = "idle"
    /\ client_lock("loop")
    /\ IF Encodable(c)
       THEN clients' = [clients EXCEPT !["loop"] = [NoCall EXCEPT !.pc = "temp", !.cmd = c]]
            /\ UNCHANGED confirmed
       ELSE UNCHANGED clients /\ confirmed' = [NothingSaid EXCEPT !.status = "error", !.cmd = c]
    /\ UNCHANGED registers

\* write_targets encodes each value as it comes to it.
BeginPlain(c) ==
    /\ clients["http"].pc = "idle"
    /\ client_lock("http")
    /\ clients' = [clients EXCEPT !["http"] = [NoCall EXCEPT !.pc = "temp", !.cmd = c]]
    /\ UNCHANGED <<registers, confirmed>>

Over(w, status, accepted) ==
    /\ clients' = [clients EXCEPT ![w] = NoCall]
    /\ confirmed' = [status |-> status, cmd |-> clients[w].cmd, accepted |-> accepted]

(***************************************************************************)
(* write_single_register: the slave stores the value or clamps it, and     *)
(* echoes the request either way; or the call fails, the value stored or   *)
(* not.  A value that cannot be encoded fails before it is sent.           *)
(***************************************************************************)
WriteRegister(w, axis) ==
    LET raw == Raw(clients[w].cmd, axis)
        after == IF axis = "temp" THEN "stir" ELSE IF w = "loop" THEN "readTemp" ELSE "done" IN
    /\ clients[w].pc = axis
    /\ client_lock(w)
    /\ IF raw = CannotEncode THEN UNCHANGED registers ELSE
          \E stored \in {raw, RawMax \div 2, registers[axis]} :
             registers' = [registers EXCEPT ![axis] = stored]
    /\ \/ Over(w, "error", NoCommand)
       \/ /\ raw # CannotEncode
          /\ IF after = "done" THEN Over(w, "written", NoCommand)
             ELSE clients' = [clients EXCEPT ![w].pc = after] /\ UNCHANGED confirmed

\* read_holding_register, for either register.
ReadBack(axis) ==
    /\ clients["loop"].pc = IF axis = "temp" THEN "readTemp" ELSE "readStir"
    /\ \/ /\ clients' = [clients EXCEPT !["loop"].seen[axis] = registers[axis],
                             !["loop"].pc = IF axis = "temp" THEN "readStir" ELSE "compare"]
          /\ UNCHANGED confirmed
       \/ Over("loop", "error", NoCommand)
    /\ UNCHANGED registers

\* Mutant: rejected only when neither register holds its value.
CompareEither ==
    LET call == clients["loop"]
        same == \E axis \in Axes : call.seen[axis] = Raw(call.cmd, axis)
        held == [axis \in Axes |-> decode_write_register(call.seen[axis], RegOf[axis])] IN
    /\ call.pc = "compare"
    /\ Over("loop", IF same THEN "confirmed" ELSE "rejected", IF same THEN held ELSE NoCommand)
    /\ UNCHANGED registers

\* Both registers must hold what was sent; the accepted targets are what they decode to.
Compare ==
    LET call == clients["loop"]
        same == \A axis \in Axes : call.seen[axis] = Raw(call.cmd, axis)
        held == [axis \in Axes |-> decode_write_register(call.seen[axis], RegOf[axis])] IN
    /\ call.pc = "compare"
    /\ Over("loop", IF same THEN "confirmed" ELSE "rejected", IF same THEN held ELSE NoCommand)
    /\ UNCHANGED registers

ModbusNext ==
    \/ \E c \in Commands : BeginAcknowledged(c) \/ BeginPlain(c)
    \/ \E w \in RtuClients, axis \in Axes : WriteRegister(w, axis)
    \/ \E axis \in Axes : ReadBack(axis)
    \/ Compare

ModbusSpec == ModbusInit /\ [][ModbusNext]_modbusVars

-----------------------------------------------------------------------------
(* Properties.                                                             *)

(***************************************************************************)
(* When the last call confirmed a command and no other is under way, the   *)
(* slave holds exactly that command's pair: no interleaved writer, clamped *)
(* register or failed half is reported as confirmed.  A temperature        *)
(* without its stirrer speed may lie in a forbidden zone no check saw.     *)
(* The targets reported as accepted are those the registers stand for, and *)
(* within half a register step of what was asked                           *)
(* (ModbusRtuDevice::write_targets_acknowledged).                          *)
(***************************************************************************)
ConfirmedPairIsHeld ==
    (confirmed.status = "confirmed" /\ \A w \in RtuClients : clients[w].pc = "idle") =>
        \A axis \in Axes :
            LET off == 2 * (confirmed.accepted[axis] - confirmed.cmd[axis])
            IN  /\ registers[axis] = Raw(confirmed.cmd, axis)
                /\ confirmed.accepted[axis] = decode_write_register(registers[axis], RegOf[axis])
                /\ off <= RegOf[axis].scale /\ -off <= RegOf[axis].scale
=============================================================================
