----------------------------- MODULE DeviceProofs -----------------------------
(***************************************************************************)
(* Proofs about the conversations with the devices: the Modbus RTU and     *)
(* ESP32 serial handshakes, the JSON bridge, and the register writes of    *)
(* the Modbus TCP server.                                                  *)
(***************************************************************************)
EXTENDS AckDrivers, ModbusServer,
        SequenceTheorems, FiniteSetTheorems, TLAPS

-----------------------------------------------------------------------------
(* Rounding.                                                               *)

\* Integer division, as a remainder.
LEMMA Division ==
  ASSUME NEW a \in Int, NEW b \in Nat \ {0}
  PROVE  /\ a \div b \in Int
         /\ b * (a \div b) <= a /\ a < b * (a \div b) + b
  OBVIOUS

\* A value rounded to a register step is at most half a step away, if the register can hold it.
LEMMA HalfAStep ==
  ASSUME NEW n \in Int, NEW d \in Nat \ {0}, Rounded(n, d) \in Nat
  PROVE  /\ 2 * (Rounded(n, d) * d - n) <= d
         /\ -(2 * (Rounded(n, d) * d - n)) <= d
<1>1. CASE n >= 0
  <2> DEFINE q == (2 * n + d) \div (2 * d)
  <2>1. 2 * n + d \in Int /\ 2 * d \in Nat \ {0}
    OBVIOUS
  <2>2. q \in Int /\ (2 * d) * q <= 2 * n + d /\ 2 * n + d < (2 * d) * q + 2 * d
    BY <2>1, Division
  <2>3. Rounded(n, d) = q
    BY <1>1 DEF Rounded
  <2> HIDE DEF q
  <2>4. (2 * d) * q = 2 * (q * d) /\ q * d \in Int
    BY <2>2
  <2>5. ASSUME NEW m \in Int, 2 * m <= 2 * n + d, 2 * n + d < 2 * m + 2 * d
        PROVE  2 * (m - n) <= d /\ -(2 * (m - n)) <= d
    BY <2>5
  <2> QED
    BY <2>2, <2>3, <2>4, <2>5
<1>2. CASE ~(n >= 0)
  <2> DEFINE q == (d - 2 * n) \div (2 * d)
  <2>1. d - 2 * n \in Int /\ 2 * d \in Nat \ {0} /\ d - 2 * n > 0
    BY <1>2
  <2>2. q \in Int /\ (2 * d) * q <= d - 2 * n /\ d - 2 * n < (2 * d) * q + 2 * d
    BY <2>1, Division
  <2>3. Rounded(n, d) = -q
    BY <1>2 DEF Rounded
  <2> HIDE DEF q
  <2>4. q <= 0
    BY <2>2, <2>3
  <2>5. q = 0
    <3>1. q < 0 => (2 * d) * q <= -(2 * d)
      BY <2>2
    <3> QED
      BY <2>1, <2>2, <2>4, <3>1
  <2>6. Rounded(n, d) * d = 0
    BY <2>3, <2>5
  <2>7. d - 2 * n < 2 * d
    BY <2>2, <2>5
  <2> QED
    BY <1>2, <2>6, <2>7
<1> QED
  BY <1>1, <1>2

-----------------------------------------------------------------------------
(* Modbus RTU: the inductive invariant.                                    *)

\* A pair of values is a record and a function of the two axes alike.
Pairs == [temp : Int, stir : Int]
Seen == [temp : 0 .. RawMax, stir : 0 .. RawMax]

RtuCalls == [pc : {"idle", "temp", "stir", "readTemp", "readStir", "compare"},
             cmd : Commands \cup {NoCommand}, seen : Seen]

Sayings == [status : {"none", "error", "confirmed", "rejected", "written"},
            cmd : Commands \cup {NoCommand}, accepted : Pairs]

RtuTypes ==
    /\ registers \in Seen
    /\ clients \in [RtuClients -> RtuCalls]
    /\ confirmed \in Sayings

\* The client's mutex.
OneClient == \A v, w \in RtuClients : clients[v].pc # "idle" /\ clients[w].pc # "idle" => v = w

\* What the loop has read back is still in the registers.
ReadsAreFresh ==
    LET call == clients["loop"] IN
    /\ call.pc \in {"readStir", "compare"} => call.seen.temp = registers.temp
    /\ call.pc = "compare" => call.seen.stir = registers.stir

\* A confirmed command is in the registers until the next call begins.
ConfirmedHeld ==
    (confirmed.status = "confirmed" /\ \A w \in RtuClients : clients[w].pc = "idle") =>
        \A axis \in Axes :
            /\ registers[axis] = Raw(confirmed.cmd, axis)
            /\ confirmed.accepted[axis] = decode_write_register(registers[axis], RegOf[axis])

RtuInv == RtuTypes /\ OneClient /\ ReadsAreFresh /\ ConfirmedHeld

\* Constants of the RTU driver: registers, commands and the values at rest.
LEMMA RtuFacts ==
  /\ Axes = {"temp", "stir"} /\ RtuClients = {"loop", "http"} /\ "temp" # "stir" /\ "loop" # "http"
  /\ \A c \in Commands \cup {NoCommand} : c \in Pairs
  /\ \A p \in Pairs, axis \in Axes : p[axis] \in Int
  /\ NoCall \in RtuCalls /\ NoCall.pc = "idle" /\ NoCommand \in Pairs
  /\ NothingSaid \in Sayings /\ NothingSaid.status = "none"
  /\ \A axis \in Axes : RegOf[axis].scale \in Nat \ {0} /\ RegOf[axis].offset \in Int
  /\ \A x \in Seen, axis \in Axes : x[axis] \in 0 .. RawMax
  /\ RawMax \in Nat /\ 0 \in 0 .. RawMax /\ RawMax \div 2 \in 0 .. RawMax
<1>1. Axes = {"temp", "stir"} /\ RtuClients = {"loop", "http"} /\ "temp" # "stir" /\ "loop" # "http"
  BY DEF Axes, RtuClients
<1>2. RawMax \in Nat /\ 0 \in 0 .. RawMax /\ RawMax \div 2 \in 0 .. RawMax
  BY ModbusConstants
<1>3. NoCommand \in Pairs /\ \A c \in Commands : c \in Pairs
  <2>1. NoCommand \in Pairs
    BY DEF NoCommand, Pairs
  <2>2. ASSUME NEW c \in Commands
        PROVE  c \in Pairs
    <3>1. c \in [temp : RtuTemperatures, stir : Speeds]
      BY DEF Commands
    <3>2. c = [temp |-> c.temp, stir |-> c.stir] /\ c.temp \in RtuTemperatures /\ c.stir \in Speeds
      BY <3>1
    <3>3. c.temp \in Int /\ c.stir \in Int
      BY <3>2, ModbusConstants
    <3> QED
      BY <3>2, <3>3 DEF Pairs
  <2> QED
    BY <2>1, <2>2
<1>4. [temp |-> 0, stir |-> 0] \in Seen
  BY <1>2 DEF Seen
<1>5. NoCall \in RtuCalls /\ NoCall.pc = "idle"
  BY <1>4 DEF NoCall, RtuCalls
<1>6. NothingSaid \in Sayings /\ NothingSaid.status = "none"
  BY <1>3 DEF NothingSaid, Sayings
<1>7. \A axis \in Axes : RegOf[axis].scale \in Nat \ {0} /\ RegOf[axis].offset \in Int
  BY ModbusConstants DEF Axes, RegOf
<1>8. \A p \in Pairs, axis \in Axes : p[axis] \in Int
  BY DEF Pairs, Axes
<1>9. \A x \in Seen, axis \in Axes : x[axis] \in 0 .. RawMax
  BY DEF Seen, Axes
<1> QED
  BY <1>1, <1>2, <1>3, <1>5, <1>6, <1>7, <1>8, <1>9

\* One client's call changes.
LEMMA ClientChanges ==
  ASSUME RtuTypes, NEW w \in RtuClients, NEW r \in RtuCalls, clients' = [clients EXCEPT ![w] = r]
  PROVE  /\ clients' \in [RtuClients -> RtuCalls] /\ clients'[w] = r
         /\ \A v \in RtuClients : v # w => clients'[v] = clients[v]
  BY DEF RtuTypes

\* The end of a call.
LEMMA CallOver ==
  ASSUME RtuTypes, OneClient, NEW w \in RtuClients, clients[w].pc # "idle",
         NEW status \in {"error", "confirmed", "rejected", "written"}, NEW acc \in Pairs,
         Over(w, status, acc)
  PROVE  /\ clients' \in [RtuClients -> RtuCalls] /\ confirmed' \in Sayings
         /\ \A v \in RtuClients : clients'[v].pc = "idle"
         /\ confirmed'.status = status /\ confirmed'.cmd = clients[w].cmd
         /\ confirmed'.accepted = acc
<1>1. clients[w] \in RtuCalls
  BY DEF RtuTypes
<1>2. /\ clients' \in [RtuClients -> RtuCalls] /\ clients'[w] = NoCall
      /\ \A v \in RtuClients : v # w => clients'[v] = clients[v]
  BY RtuFacts, ClientChanges DEF Over
<1>3. \A v \in RtuClients : v # w => clients[v].pc = "idle"
  BY DEF OneClient
<1>4. confirmed' = [status |-> status, cmd |-> clients[w].cmd, accepted |-> acc]
  BY DEF Over
<1>5. clients[w].cmd \in Commands \cup {NoCommand}
  BY <1>1 DEF RtuCalls
<1>6. confirmed' \in Sayings
  BY <1>4, <1>5 DEF Sayings
<1> QED
  BY <1>2, <1>3, <1>4, <1>6, RtuFacts

\* With every client idle and nothing confirmed, the rest of the invariant holds.
LEMMA NothingConfirmed ==
  ASSUME RtuTypes', \A v \in RtuClients : clients'[v].pc = "idle", confirmed'.status # "confirmed"
  PROVE  RtuInv'
<1>1. clients'["loop"].pc = "idle"
  BY RtuFacts
<1> QED
  BY <1>1 DEF RtuInv, OneClient, ReadsAreFresh, ConfirmedHeld

\* A call begins.
LEMMA RtuBegins ==
  ASSUME RtuInv, NEW c \in Commands, BeginAcknowledged(c) \/ BeginPlain(c)
  PROVE  RtuInv'
<1>0. RtuTypes /\ OneClient /\ ReadsAreFresh /\ ConfirmedHeld
  BY DEF RtuInv
<1>1. registers' = registers
  BY DEF BeginAcknowledged, BeginPlain
<1>2. ASSUME NEW w \in RtuClients, client_lock(w), confirmed' = confirmed,
             clients' = [clients EXCEPT ![w] = [NoCall EXCEPT !.pc = "temp", !.cmd = c]]
      PROVE  RtuInv'
  <2> DEFINE r == [NoCall EXCEPT !.pc = "temp", !.cmd = c]
  <2>1. r \in RtuCalls /\ r.pc = "temp"
    BY RtuFacts DEF RtuCalls
  <2>2. clients' = [clients EXCEPT ![w] = r]
    BY <1>2
  <2> HIDE DEF r
  <2>3. /\ clients' \in [RtuClients -> RtuCalls] /\ clients'[w].pc = "temp"
        /\ \A v \in RtuClients : v # w => clients'[v].pc = "idle"
    BY <1>0, <1>2, <2>1, <2>2, ClientChanges DEF client_lock
  <2>4. RtuTypes'
    BY <1>0, <1>1, <1>2, <2>3 DEF RtuTypes
  <2>5. OneClient'
    BY <2>3 DEF OneClient
  <2>6. clients'["loop"].pc \in {"temp", "idle"} /\ clients'[w].pc # "idle"
    BY <2>3, RtuFacts
  <2> QED
    BY <2>4, <2>5, <2>6 DEF RtuInv, ReadsAreFresh, ConfirmedHeld
<1>3. CASE confirmed' = [NothingSaid EXCEPT !.status = "error", !.cmd = c] /\ clients' = clients
  <2>1. confirmed' \in Sayings /\ confirmed'.status = "error"
    BY <1>3, RtuFacts DEF Sayings
  <2> QED
    BY <1>0, <1>1, <1>3, <2>1 DEF RtuInv, RtuTypes, OneClient, ReadsAreFresh, ConfirmedHeld
<1> QED
  BY <1>2, <1>3, RtuFacts DEF BeginAcknowledged, BeginPlain

\* A register is written; nobody else is under way.
LEMMA RtuWrites ==
  ASSUME RtuInv, NEW w \in RtuClients, NEW axis \in Axes, WriteRegister(w, axis)
  PROVE  RtuInv'
<1>0. RtuTypes /\ OneClient /\ clients[w] \in RtuCalls
  BY DEF RtuInv, RtuTypes
<1> DEFINE raw == Raw(clients[w].cmd, axis)
<1>1. /\ clients[w].pc = axis /\ client_lock(w) /\ clients[w].pc # "idle"
  BY RtuFacts DEF WriteRegister
<1>2. raw = CannotEncode \/ raw \in 0 .. RawMax
  BY DEF Raw, encode_write_register
<1>3. registers' \in Seen
  <2>1. CASE raw = CannotEncode
    BY <1>0, <2>1 DEF WriteRegister, RtuTypes
  <2>2. CASE raw # CannotEncode
    <3>1. PICK stored \in {raw, RawMax \div 2, registers[axis]} :
             registers' = [registers EXCEPT ![axis] = stored]
      BY <2>2 DEF WriteRegister
    <3>2. registers[axis] \in 0 .. RawMax
      BY <1>0, RtuFacts DEF RtuTypes
    <3>3. stored \in 0 .. RawMax
      BY <1>2, <2>2, <3>1, <3>2, RtuFacts
    <3> QED
      BY <1>0, <3>1, <3>3, RtuFacts DEF RtuTypes, Seen
  <2> QED
    BY <2>1, <2>2
<1>4. ASSUME NEW status \in {"error", "written"}, Over(w, status, NoCommand)
      PROVE  RtuInv'
  <2>1. /\ clients' \in [RtuClients -> RtuCalls] /\ confirmed' \in Sayings
        /\ \A v \in RtuClients : clients'[v].pc = "idle"
        /\ confirmed'.status = status
    BY <1>0, <1>1, <1>4, CallOver, RtuFacts
  <2> QED
    BY <1>3, <2>1, NothingConfirmed DEF RtuTypes
<1>5. ASSUME NEW after \in {"stir", "readTemp"}, confirmed' = confirmed,
             clients' = [clients EXCEPT ![w].pc = after]
      PROVE  RtuInv'
  <2> DEFINE r == [clients[w] EXCEPT !.pc = after]
  <2>1. r \in RtuCalls /\ r.pc = after
    BY <1>0 DEF RtuCalls
  <2>2. clients' = [clients EXCEPT ![w] = r]
    BY <1>0, <1>5 DEF RtuTypes, RtuCalls
  <2> HIDE DEF r
  <2>3. /\ clients' \in [RtuClients -> RtuCalls] /\ clients'[w].pc = after
        /\ \A v \in RtuClients : v # w => clients'[v].pc = "idle"
    BY <1>0, <1>1, <2>1, <2>2, ClientChanges DEF client_lock
  <2>4. RtuTypes'
    BY <1>0, <1>3, <1>5, <2>3 DEF RtuTypes
  <2>5. OneClient'
    BY <2>3 DEF OneClient
  <2>6. clients'["loop"].pc \in {"stir", "readTemp", "idle"} /\ clients'[w].pc # "idle"
    BY <2>3, RtuFacts
  <2> QED
    BY <2>4, <2>5, <2>6 DEF RtuInv, ReadsAreFresh, ConfirmedHeld
<1> QED
  BY <1>4, <1>5 DEF WriteRegister

\* The loop reads a register back.
LEMMA RtuReadsBack ==
  ASSUME RtuInv, NEW axis \in Axes, ReadBack(axis)
  PROVE  RtuInv'
<1>0. RtuTypes /\ OneClient /\ ReadsAreFresh /\ "loop" \in RtuClients /\ clients["loop"] \in RtuCalls
  BY RtuFacts DEF RtuInv, RtuTypes
<1>1. registers' = registers /\ registers \in Seen /\ registers[axis] \in 0 .. RawMax
  BY <1>0, RtuFacts DEF ReadBack, RtuTypes
<1>2. clients["loop"].pc = IF axis = "temp" THEN "readTemp" ELSE "readStir"
  BY DEF ReadBack
<1>3. CASE Over("loop", "error", NoCommand)
  <2>1. /\ clients' \in [RtuClients -> RtuCalls] /\ confirmed' \in Sayings
        /\ \A v \in RtuClients : clients'[v].pc = "idle"
        /\ confirmed'.status = "error"
    BY <1>0, <1>2, <1>3, CallOver, RtuFacts
  <2> QED
    BY <1>1, <2>1, NothingConfirmed DEF RtuTypes
<1>4. CASE /\ clients' = [clients EXCEPT !["loop"].seen[axis] = registers[axis],
                             !["loop"].pc = IF axis = "temp" THEN "readStir" ELSE "compare"]
           /\ UNCHANGED confirmed
  <2> DEFINE after == IF axis = "temp" THEN "readStir" ELSE "compare"
             seen == [clients["loop"].seen EXCEPT ![axis] = registers[axis]]
             half == [clients["loop"] EXCEPT !.seen = seen]
             r == [half EXCEPT !.pc = after]
  <2>1. clients["loop"].seen \in Seen /\ clients["loop"].cmd \in Commands \cup {NoCommand}
    BY <1>0 DEF RtuCalls
  <2>2. /\ seen \in Seen /\ seen[axis] = registers[axis]
        /\ \A b \in Axes : b # axis => seen[b] = clients["loop"].seen[b]
    BY <1>1, <2>1, RtuFacts DEF Seen
  <2>3. clients' = [clients EXCEPT !["loop"] = r]
    <3> DEFINE one == [clients EXCEPT !["loop"].seen[axis] = registers[axis]]
    <3>1. clients' = [one EXCEPT !["loop"].pc = after]
      BY <1>4
    <3>2. one = [clients EXCEPT !["loop"] = half]
      BY <1>0 DEF RtuTypes, RtuCalls
    <3> HIDE DEF one, half, after
    <3> QED
      BY <1>0, <3>1, <3>2 DEF RtuTypes
  <2>4. after \in {"readStir", "compare"}
    OBVIOUS
  <2> HIDE DEF seen
  <2>5. r \in RtuCalls /\ r.pc = after /\ r.seen = seen
    <3>1. half \in RtuCalls /\ half.seen = seen
      BY <1>0, <2>2 DEF RtuCalls
    <3> HIDE DEF half
    <3> QED
      BY <2>4, <3>1 DEF RtuCalls
  <2> HIDE DEF r
  <2>6. /\ clients' \in [RtuClients -> RtuCalls] /\ clients'["loop"].pc = after
        /\ clients'["loop"].seen = seen
        /\ \A v \in RtuClients : v # "loop" => clients'[v] = clients[v]
    BY <1>0, <2>3, <2>5, ClientChanges
  <2>7. RtuTypes'
    BY <1>0, <1>1, <1>4, <2>6 DEF RtuTypes
  <2>8. OneClient'
    <3>1. \A v \in RtuClients : v # "loop" => clients[v].pc = "idle"
      BY <1>0, <1>2 DEF OneClient
    <3> QED
      BY <2>6, <3>1 DEF OneClient
  <2>9. ReadsAreFresh'
    <3>1. CASE axis = "temp"
      BY <1>1, <2>2, <2>6, <3>1 DEF ReadsAreFresh
    <3>2. CASE axis = "stir"
      <4>1. clients["loop"].seen["temp"] = registers["temp"]
        BY <1>0, <1>2, <3>2 DEF ReadsAreFresh
      <4>2. seen["temp"] = registers["temp"] /\ seen["stir"] = registers["stir"]
        BY <2>2, <3>2, <4>1, RtuFacts
      <4> QED
        BY <1>1, <2>6, <4>2 DEF ReadsAreFresh
    <3> QED
      BY <3>1, <3>2, RtuFacts
  <2>10. clients'["loop"].pc # "idle"
    BY <2>4, <2>6
  <2> HIDE DEF after
  <2> QED
    BY <1>0, <2>7, <2>8, <2>9, <2>10 DEF RtuInv, ConfirmedHeld
<1> QED
  BY <1>3, <1>4 DEF ReadBack

\* The loop compares, and confirms what the registers hold.
LEMMA RtuCompares ==
  ASSUME RtuInv, Compare
  PROVE  RtuInv'
<1> DEFINE call == clients["loop"]
           same == \A axis \in Axes : call.seen[axis] = Raw(call.cmd, axis)
           held == [axis \in Axes |-> decode_write_register(call.seen[axis], RegOf[axis])]
<1>0. RtuTypes /\ OneClient /\ ReadsAreFresh /\ "loop" \in RtuClients /\ call \in RtuCalls
  BY RtuFacts DEF RtuInv, RtuTypes
<1>1. registers' = registers /\ call.pc = "compare"
  BY DEF Compare
<1>2. /\ call.seen \in Seen
      /\ call.seen["temp"] = registers["temp"] /\ call.seen["stir"] = registers["stir"]
  BY <1>0, <1>1 DEF ReadsAreFresh, RtuCalls
<1>3. \A axis \in Axes : call.seen[axis] = registers[axis]
  BY <1>2, RtuFacts
<1>4. held \in Pairs /\ \A axis \in Axes : held[axis] = decode_write_register(call.seen[axis], RegOf[axis])
  <2>1. ASSUME NEW axis \in Axes
        PROVE  held[axis] \in Int
    <3>1. call.seen[axis] \in Int /\ RegOf[axis].scale \in Int /\ RegOf[axis].offset \in Int
      BY <1>2, RtuFacts
    <3>2. call.seen[axis] * RegOf[axis].scale \in Int
      BY <3>1
    <3> QED
      BY <3>1, <3>2 DEF decode_write_register
  <2>2. held \in [Axes -> Int]
    BY <2>1
  <2> HIDE DEF held
  <2>3. held \in Pairs
    BY <2>2 DEF Pairs, Axes
  <2> QED
    BY <2>3 DEF held
<1> HIDE DEF held
<1>5. CASE same
  <2>1. Over("loop", "confirmed", held)
    BY <1>5 DEF Compare, held
  <2>2. /\ clients' \in [RtuClients -> RtuCalls] /\ confirmed' \in Sayings
        /\ \A v \in RtuClients : clients'[v].pc = "idle"
        /\ confirmed'.cmd = call.cmd /\ confirmed'.accepted = held
    BY <1>0, <1>1, <1>4, <2>1, CallOver
  <2>3. RtuTypes'
    BY <1>0, <1>1, <2>2 DEF RtuTypes
  <2>4. ASSUME NEW axis \in Axes
        PROVE  /\ registers'[axis] = Raw(confirmed'.cmd, axis)
               /\ confirmed'.accepted[axis] = decode_write_register(registers'[axis], RegOf[axis])
    <3>1. registers'[axis] = call.seen[axis]
      BY <1>1, <1>3
    <3>2. confirmed'.accepted[axis] = decode_write_register(call.seen[axis], RegOf[axis])
      BY <1>4, <2>2
    <3>3. call.seen[axis] = Raw(call.cmd, axis)
      BY <1>5
    <3> QED
      BY <2>2, <3>1, <3>2, <3>3
  <2>5. ConfirmedHeld'
    BY <2>4 DEF ConfirmedHeld, Raw
  <2>6. clients'["loop"].pc = "idle"
    BY <1>0, <2>2
  <2> QED
    BY <2>2, <2>3, <2>5, <2>6 DEF RtuInv, OneClient, ReadsAreFresh
<1>6. CASE ~same
  <2>1. Over("loop", "rejected", NoCommand)
    BY <1>6 DEF Compare
  <2>2. /\ clients' \in [RtuClients -> RtuCalls] /\ confirmed' \in Sayings
        /\ \A v \in RtuClients : clients'[v].pc = "idle"
        /\ confirmed'.status = "rejected"
    BY <1>0, <1>1, <2>1, CallOver, RtuFacts
  <2> QED
    BY <1>0, <1>1, <2>2, NothingConfirmed DEF RtuTypes
<1> QED
  BY <1>5, <1>6

\* The invariant of the RTU driver.
LEMMA RtuInvariant == ModbusSpec => []RtuInv
<1>1. ModbusInit => RtuInv
  <2>1. ASSUME ModbusInit
        PROVE  RtuInv
    <3>1. registers \in Seen
      BY <2>1, RtuFacts DEF ModbusInit, Seen
    <3>2. clients \in [RtuClients -> RtuCalls] /\ \A w \in RtuClients : clients[w].pc = "idle"
      BY <2>1, RtuFacts DEF ModbusInit
    <3>3. confirmed \in Sayings /\ confirmed.status = "none" /\ clients["loop"].pc = "idle"
      BY <2>1, <3>2, RtuFacts DEF ModbusInit
    <3> QED
      BY <3>1, <3>2, <3>3 DEF RtuInv, RtuTypes, OneClient, ReadsAreFresh, ConfirmedHeld
  <2> QED
    BY <2>1
<1>2. RtuInv /\ [ModbusNext]_modbusVars => RtuInv'
  <2>1. CASE UNCHANGED modbusVars
    BY <2>1 DEF modbusVars, RtuInv, RtuTypes, OneClient, ReadsAreFresh, ConfirmedHeld
  <2> QED
    BY <2>1, RtuBegins, RtuWrites, RtuReadsBack, RtuCompares DEF ModbusNext
<1> QED
  BY <1>1, <1>2, PTL DEF ModbusSpec

(***************************************************************************)
(* A confirmed command is the pair the slave holds, and the accepted       *)
(* targets lie within half a register step of what was asked, for any      *)
(* registers, commands, interleaving and failure                           *)
(* (ModbusRtuDevice::write_targets_acknowledged).                          *)
(***************************************************************************)
THEOREM ConfirmedPairsAreHeld == ModbusSpec => []ConfirmedPairIsHeld
<1>1. ASSUME RtuInv, confirmed.status = "confirmed", \A w \in RtuClients : clients[w].pc = "idle",
             NEW axis \in Axes
      PROVE  LET off == 2 * (confirmed.accepted[axis] - confirmed.cmd[axis])
             IN  /\ registers[axis] = Raw(confirmed.cmd, axis)
                 /\ confirmed.accepted[axis] = decode_write_register(registers[axis], RegOf[axis])
                 /\ off <= RegOf[axis].scale /\ -off <= RegOf[axis].scale
  <2>1. /\ registers[axis] = Raw(confirmed.cmd, axis)
        /\ confirmed.accepted[axis] = decode_write_register(registers[axis], RegOf[axis])
    BY <1>1 DEF RtuInv, ConfirmedHeld
  <2>2. registers[axis] \in 0 .. RawMax /\ confirmed.cmd \in Pairs /\ confirmed.cmd[axis] \in Int
    BY <1>1, RtuFacts DEF RtuInv, RtuTypes, Sayings
  <2> DEFINE d == RegOf[axis].scale
             o == RegOf[axis].offset
             v == confirmed.cmd[axis]
             raw == Rounded(v - o, d)
  <2>3. d \in Nat \ {0} /\ o \in Int /\ v \in Int /\ v - o \in Int
    BY <2>2, RtuFacts
  <2>4. registers[axis] = raw /\ raw \in Nat
    BY <2>1, <2>2, RtuFacts DEF Raw, encode_write_register, CannotEncode
  <2>5. confirmed.accepted[axis] = raw * d + o
    BY <2>1, <2>4 DEF decode_write_register
  <2> HIDE DEF d, o, v
  <2>6. 2 * (raw * d - (v - o)) <= d /\ -(2 * (raw * d - (v - o))) <= d
    BY <2>3, <2>4, HalfAStep
  <2> HIDE DEF raw
  <2>7. raw * d \in Int
    BY <2>3, <2>4
  <2>8. 2 * ((raw * d + o) - v) <= d /\ -(2 * ((raw * d + o) - v)) <= d
    BY <2>3, <2>6, <2>7
  <2> QED
    BY <2>1, <2>5, <2>8 DEF d, v
<1>2. RtuInv => ConfirmedPairIsHeld
  BY <1>1 DEF ConfirmedPairIsHeld
<1> QED
  BY <1>2, RtuInvariant, PTL

-----------------------------------------------------------------------------
(* The JSON bridge: the inductive invariant.                               *)

WriterOK(r) == {"pc", "fate", "ack"} \subseteq DOMAIN r /\ r.pc \in {"idle", "computed", "polling"}

\* The fields the echo depends on are there.
BridgeShapes ==
    /\ writers = [w \in BridgeWriters |-> writers[w]]
    /\ \A w \in BridgeWriters : WriterOK(writers[w])
    /\ {"rid", "ok"} \subseteq DOMAIN stateFile /\ stateFile.ok \in BOOLEAN
    /\ lastTaken \in [rid : {"none", "mine", "other"}, ok : BOOLEAN]
    /\ {"rid", "unseen"} \subseteq DOMAIN control /\ control.rid \in {"none", "mine", "other"}

FateOf(ok) == IF ok THEN "applied" ELSE "rejected"

\* Whatever carries the id the loop waits for tells what became of its command.
EchoesAreOwn ==
    writers["loop"].pc = "polling" =>
        /\ lastTaken.rid = "mine" => writers["loop"].fate = FateOf(lastTaken.ok)
        /\ stateFile.rid = "mine" => writers["loop"].fate = FateOf(stateFile.ok)
        /\ control.unseen /\ control.rid = "mine" => lastTaken.rid # "mine" /\ stateFile.rid # "mine"

BridgeInv == BridgeShapes /\ EchoesAreOwn

\* A call at rest, polling, or over.
LEMMA WriterFacts ==
  /\ BridgeWriters = {"loop", "http"} /\ "loop" # "http"
  /\ NoWrite.pc = "idle" /\ WriterOK(NoWrite)
  /\ \A p \in {"idle", "computed", "polling"} : /\ WriterOK([NoWrite EXCEPT !.pc = p])
                                                /\ [NoWrite EXCEPT !.pc = p].pc = p
  /\ \A p, q : /\ WriterOK([NoWrite EXCEPT !.pc = "computed", !.pending = q])
               /\ [NoWrite EXCEPT !.pc = "computed", !.pending = q].pc = "computed"
               /\ WriterOK([NoWrite EXCEPT !.ack = p]) /\ [NoWrite EXCEPT !.ack = p].pc = "idle"
               /\ [NoWrite EXCEPT !.ack = p].ack = p
  BY DEF BridgeWriters, NoWrite, WriterOK

\* What a call that ends, or goes on to write, leaves in its place.
LEMMA CallShapes ==
  ASSUME NEW w
  PROVE  /\ \A a : Ends(w, a) => \E p : writers' = [writers EXCEPT ![w] = [NoWrite EXCEPT !.ack = p]]
         /\ \A a : Ends("loop", a) => writers' = [writers EXCEPT !["loop"] = [NoWrite EXCEPT !.ack = a]]
         /\ \A n, c : Sends(w, n, c) =>
              \E q : writers' = [writers EXCEPT ![w] = [NoWrite EXCEPT !.pc = "computed", !.pending = q]]
<1>1. ASSUME NEW a, Ends(w, a)
      PROVE  \E p : writers' = [writers EXCEPT ![w] = [NoWrite EXCEPT !.ack = p]]
  <2>1. writers' = [writers EXCEPT ![w] = [NoWrite EXCEPT !.ack = IF w = "loop" THEN a ELSE NoWrite.ack]]
    BY <1>1 DEF Ends
  <2> QED
    BY <2>1
<1>2. ASSUME NEW a, Ends("loop", a)
      PROVE  writers' = [writers EXCEPT !["loop"] = [NoWrite EXCEPT !.ack = a]]
  BY <1>2 DEF Ends
<1>3. ASSUME NEW n, NEW c, Sends(w, n, c)
      PROVE  \E q : writers' = [writers EXCEPT ![w] = [NoWrite EXCEPT !.pc = "computed", !.pending = q]]
  BY <1>3 DEF Sends
<1> QED
  BY <1>1, <1>2, <1>3

\* One writer's call changes.
LEMMA WriterChanges ==
  ASSUME BridgeShapes, NEW w \in BridgeWriters, NEW r, WriterOK(r), writers' = [writers EXCEPT ![w] = r]
  PROVE  /\ writers' = [v \in BridgeWriters |-> writers'[v]]
         /\ \A v \in BridgeWriters : WriterOK(writers'[v])
         /\ writers'[w] = r /\ \A v \in BridgeWriters : v # w => writers'[v] = writers[v]
<1>1. writers = [v \in BridgeWriters |-> writers[v]] /\ \A v \in BridgeWriters : WriterOK(writers[v])
  BY DEF BridgeShapes
<1>2. /\ writers' = [v \in BridgeWriters |-> writers'[v]] /\ writers'[w] = r
      /\ \A v \in BridgeWriters : v # w => writers'[v] = writers[v]
  BY <1>1
<1> QED
  BY <1>1, <1>2

\* A call works out its command: the loop no longer waits, and the rest is untouched.
LEMMA BridgeComputes ==
  ASSUME BridgeInv, NEW w \in BridgeWriters, NEW r, WriterOK(r), r.pc # "polling",
         writers[w].pc = "idle", writers' = [writers EXCEPT ![w] = r],
         UNCHANGED <<control, lastTaken, stateFile>>
  PROVE  BridgeInv'
<1>0. BridgeShapes /\ EchoesAreOwn /\ "loop" \in BridgeWriters
  BY WriterFacts DEF BridgeInv
<1>1. /\ writers' = [v \in BridgeWriters |-> writers'[v]]
      /\ \A v \in BridgeWriters : WriterOK(writers'[v])
      /\ writers'[w] = r /\ \A v \in BridgeWriters : v # w => writers'[v] = writers[v]
  BY <1>0, WriterChanges
<1>2. BridgeShapes'
  BY <1>0, <1>1 DEF BridgeShapes
<1>3. writers'["loop"].pc = "polling" => writers'["loop"] = writers["loop"]
  BY <1>0, <1>1
<1> QED
  BY <1>0, <1>2, <1>3 DEF BridgeInv, EchoesAreOwn

\* Computing calls, by whoever makes them.
LEMMA BridgeCallsBegin ==
  ASSUME BridgeInv,
         \/ LoopCompute \/ HttpCompute \/ EmergencyStopCompute
         \/ \E c \in DirectControls : write_component(c)
  PROVE  BridgeInv'
<1>0. "loop" \in BridgeWriters /\ "http" \in BridgeWriters
  BY WriterFacts
<1>1. ASSUME NEW w \in BridgeWriters, NEW target, Compute(w, target)
      PROVE  BridgeInv'
  <2>1. writers[w].pc = "idle" /\ UNCHANGED <<control, lastTaken, stateFile>>
    BY <1>1 DEF Compute, DownstreamSame
  <2>2. \/ \E p : writers' = [writers EXCEPT ![w] = [NoWrite EXCEPT !.ack = p]]
        \/ \E q : writers' = [writers EXCEPT ![w] = [NoWrite EXCEPT !.pc = "computed", !.pending = q]]
    BY <1>1, CallShapes DEF Compute
  <2>3. \E r : WriterOK(r) /\ r.pc # "polling" /\ writers' = [writers EXCEPT ![w] = r]
    BY <2>2, WriterFacts
  <2> QED
    BY <2>1, <2>3, BridgeComputes
<1>2. ASSUME NEW c \in DirectControls, write_component(c)
      PROVE  BridgeInv'
  <2>1. writers["http"].pc = "idle" /\ UNCHANGED <<control, lastTaken, stateFile>>
    BY <1>2 DEF write_component, DownstreamSame
  <2>2. \/ \E p : writers' = [writers EXCEPT !["http"] = [NoWrite EXCEPT !.ack = p]]
        \/ \E q : writers' = [writers EXCEPT !["http"] = [NoWrite EXCEPT !.pc = "computed", !.pending = q]]
    BY <1>2, CallShapes DEF write_component
  <2>3. \E r : WriterOK(r) /\ r.pc # "polling" /\ writers' = [writers EXCEPT !["http"] = r]
    BY <2>2, WriterFacts
  <2> QED
    BY <1>0, <2>1, <2>3, BridgeComputes
<1> QED
  BY <1>0, <1>1, <1>2 DEF LoopCompute, HttpCompute, EmergencyStopCompute

\* What a write leaves in the files, whether it renames control.json or fails before.
LEMMA RenameFacts ==
  ASSUME BridgeShapes, NEW w \in BridgeWriters,
         Renamed(w) \/ UNCHANGED <<control, lastTaken, stateFile>>
  PROVE  /\ {"rid", "unseen"} \subseteq DOMAIN control' /\ control'.rid \in {"none", "mine", "other"}
         /\ lastTaken' \in [rid : {"none", "mine", "other"}, ok : BOOLEAN]
         /\ {"rid", "ok"} \subseteq DOMAIN stateFile' /\ stateFile'.ok \in BOOLEAN
         /\ w = "loop" /\ Renamed(w) => lastTaken'.rid # "mine" /\ stateFile'.rid # "mine"
         /\ w = "http" => /\ UNCHANGED <<lastTaken, stateFile>>
                          /\ control' = control \/ control'.rid = "other"
<1>0. "loop" # "http" /\ w \in {"loop", "http"}
  BY WriterFacts
<1>1. CASE Renamed(w)
  <2>1. /\ {"rid", "unseen"} \subseteq DOMAIN control'
        /\ control'.rid = IF w = "loop" THEN "mine" ELSE "other"
    BY <1>1 DEF Renamed
  <2>2. CASE w = "loop"
    <3>1. lastTaken' = Older(lastTaken) /\ stateFile' = Older(stateFile)
      BY <1>1, <2>2 DEF Renamed
    <3>2. lastTaken' \in [rid : {"none", "mine", "other"}, ok : BOOLEAN] /\ lastTaken'.rid # "mine"
      BY <3>1 DEF Older, BridgeShapes
    <3>3. /\ {"rid", "ok"} \subseteq DOMAIN stateFile' /\ stateFile'.ok \in BOOLEAN
          /\ stateFile'.rid # "mine"
      BY <3>1 DEF Older, BridgeShapes
    <3> QED
      BY <1>0, <2>1, <2>2, <3>2, <3>3
  <2>3. CASE w = "http"
    <3>1. UNCHANGED <<lastTaken, stateFile>> /\ control'.rid = "other"
      BY <1>0, <1>1, <2>1, <2>3 DEF Renamed
    <3> QED
      BY <1>0, <2>1, <2>3, <3>1 DEF BridgeShapes
  <2> QED
    BY <1>0, <2>2, <2>3
<1>2. CASE UNCHANGED <<control, lastTaken, stateFile>> /\ ~Renamed(w)
  BY <1>2 DEF BridgeShapes
<1> QED
  BY <1>1, <1>2

\* A command goes to control.json, or its write fails; the loop's makes every earlier id another's.
LEMMA BridgeWrites ==
  ASSUME BridgeInv, NEW w \in BridgeWriters, write_json_bridge_control(w)
  PROVE  BridgeInv'
<1>0. BridgeShapes /\ EchoesAreOwn /\ BridgeWriters = {"loop", "http"} /\ "loop" # "http"
  BY WriterFacts DEF BridgeInv
<1>1. Renamed(w) \/ UNCHANGED <<control, lastTaken, stateFile>>
  BY DEF write_json_bridge_control
<1>2. /\ {"rid", "unseen"} \subseteq DOMAIN control' /\ control'.rid \in {"none", "mine", "other"}
      /\ lastTaken' \in [rid : {"none", "mine", "other"}, ok : BOOLEAN]
      /\ {"rid", "ok"} \subseteq DOMAIN stateFile' /\ stateFile'.ok \in BOOLEAN
      /\ w = "loop" /\ Renamed(w) => lastTaken'.rid # "mine" /\ stateFile'.rid # "mine"
      /\ w = "http" => /\ UNCHANGED <<lastTaken, stateFile>>
                       /\ control' = control \/ control'.rid = "other"
  BY <1>0, <1>1, RenameFacts
<1>3. \E r : /\ WriterOK(r) /\ writers' = [writers EXCEPT ![w] = r]
             /\ w = "loop" => Renamed(w) \/ r.pc = "idle"
  <2>1. CASE writers' = [writers EXCEPT ![w] = [NoWrite EXCEPT !.pc = IF w = "loop" THEN "polling" ELSE "idle"]]
             /\ Renamed(w)
    BY <1>0, <2>1, WriterFacts
  <2>2. CASE Ends(w, "error")
    <3>1. PICK p : writers' = [writers EXCEPT ![w] = [NoWrite EXCEPT !.ack = p]]
      BY <2>2, CallShapes
    <3>2. WriterOK([NoWrite EXCEPT !.ack = p]) /\ [NoWrite EXCEPT !.ack = p].pc = "idle"
      BY WriterFacts
    <3> QED
      BY <3>1, <3>2
  <2> QED
    BY <2>1, <2>2 DEF write_json_bridge_control
<1>4. PICK r : /\ WriterOK(r) /\ writers' = [writers EXCEPT ![w] = r]
               /\ w = "loop" => Renamed(w) \/ r.pc = "idle"
  BY <1>3
<1>5. /\ writers' = [v \in BridgeWriters |-> writers'[v]]
      /\ \A v \in BridgeWriters : WriterOK(writers'[v])
      /\ writers'[w] = r /\ \A v \in BridgeWriters : v # w => writers'[v] = writers[v]
  BY <1>0, <1>4, WriterChanges
<1>6. BridgeShapes'
  BY <1>2, <1>5 DEF BridgeShapes
<1>7. CASE w = "loop"
  <2>1. r.pc # "polling" \/ (lastTaken'.rid # "mine" /\ stateFile'.rid # "mine")
    BY <1>2, <1>4, <1>7
  <2> QED
    BY <1>5, <1>6, <1>7, <2>1 DEF BridgeInv, EchoesAreOwn
<1>8. CASE w = "http"
  <2>1. writers'["loop"] = writers["loop"] /\ UNCHANGED <<lastTaken, stateFile>>
    BY <1>0, <1>2, <1>5, <1>8
  <2>2. control' = control \/ control'.rid = "other"
    BY <1>2, <1>8
  <2> QED
    BY <1>0, <1>6, <2>1, <2>2 DEF BridgeInv, EchoesAreOwn
<1> QED
  BY <1>0, <1>7, <1>8

\* The bridge process takes a command.
LEMMA BridgeTakes ==
  ASSUME BridgeInv, NEW ok \in BOOLEAN, TakeControl(ok)
  PROVE  BridgeInv'
<1>0. BridgeShapes /\ EchoesAreOwn /\ "loop" \in BridgeWriters
  BY WriterFacts DEF BridgeInv
<1>1. /\ control.unseen /\ control' = [control EXCEPT !.unseen = FALSE]
      /\ lastTaken' = [rid |-> control.rid, ok |-> ok] /\ stateFile' = stateFile
  BY DEF TakeControl
<1>2. /\ {"rid", "unseen"} \subseteq DOMAIN control' /\ control'.rid = control.rid /\ ~control'.unseen
  BY <1>0, <1>1 DEF BridgeShapes
<1>3. lastTaken' \in [rid : {"none", "mine", "other"}, ok : BOOLEAN]
      /\ lastTaken'.rid = control.rid /\ lastTaken'.ok = ok
  BY <1>0, <1>1 DEF BridgeShapes
<1>4. CASE control.rid = "mine" /\ writers["loop"].pc = "polling"
  <2> DEFINE r == [writers["loop"] EXCEPT !.fate = FateOf(ok)]
  <2>1. WriterOK(writers["loop"])
    BY <1>0 DEF BridgeShapes
  <2>2. WriterOK(r) /\ r.fate = FateOf(ok)
    BY <2>1 DEF WriterOK
  <2>3. writers' = [writers EXCEPT !["loop"] = r]
    <3>1. writers' = [writers EXCEPT !["loop"].fate = FateOf(ok)]
      BY <1>4 DEF TakeControl, FateOf
    <3> QED
      BY <1>0, <3>1 DEF BridgeShapes
  <2> HIDE DEF r
  <2>4. /\ writers' = [v \in BridgeWriters |-> writers'[v]]
        /\ \A v \in BridgeWriters : WriterOK(writers'[v])
        /\ writers'["loop"] = r
    BY <1>0, <2>2, <2>3, WriterChanges
  <2>5. stateFile'.rid # "mine"
    BY <1>0, <1>1, <1>4 DEF EchoesAreOwn
  <2>6. BridgeShapes'
    BY <1>0, <1>1, <1>2, <1>3, <2>4 DEF BridgeShapes
  <2> QED
    BY <1>2, <1>3, <2>2, <2>4, <2>5, <2>6 DEF BridgeInv, EchoesAreOwn
<1>5. CASE ~(control.rid = "mine" /\ writers["loop"].pc = "polling")
  <2>1. writers' = writers
    BY <1>5 DEF TakeControl
  <2>2. BridgeShapes'
    BY <1>0, <1>1, <1>2, <1>3, <2>1 DEF BridgeShapes
  <2> QED
    BY <1>0, <1>1, <1>2, <1>3, <1>5, <2>1, <2>2 DEF BridgeInv, EchoesAreOwn
<1> QED
  BY <1>4, <1>5

\* The loop's wait ends.
LEMMA BridgePolls ==
  ASSUME BridgeInv, PollState
  PROVE  /\ BridgeInv'
         /\ writers'["loop"].ack = "confirmed" => writers["loop"].fate = "applied"
         /\ writers'["loop"].ack = "rejected" => writers["loop"].fate = "rejected"
<1>0. BridgeShapes /\ EchoesAreOwn /\ "loop" \in BridgeWriters
  BY WriterFacts DEF BridgeInv
<1>1. writers["loop"].pc = "polling" /\ UNCHANGED <<control, lastTaken, stateFile>>
  BY DEF PollState, LoopHears, DownstreamSame
<1>2. PICK p : /\ writers' = [writers EXCEPT !["loop"] = [NoWrite EXCEPT !.ack = p]]
               /\ \/ p = "timeout"
                  \/ stateFile.rid = "mine" /\ p = IF stateFile.ok THEN "confirmed" ELSE "rejected"
  BY CallShapes DEF PollState, LoopHears
<1> DEFINE r == [NoWrite EXCEPT !.ack = p]
<1>3. WriterOK(r) /\ r.pc = "idle" /\ r.ack = p
  BY WriterFacts
<1>4. writers' = [writers EXCEPT !["loop"] = r]
  BY <1>2
<1> HIDE DEF r
<1>5. /\ writers' = [v \in BridgeWriters |-> writers'[v]]
      /\ \A v \in BridgeWriters : WriterOK(writers'[v])
      /\ writers'["loop"] = r
  BY <1>0, <1>3, <1>4, WriterChanges
<1>6. BridgeInv'
  BY <1>0, <1>1, <1>3, <1>5 DEF BridgeInv, BridgeShapes, EchoesAreOwn
<1>7. stateFile.rid = "mine" => writers["loop"].fate = FateOf(stateFile.ok)
  BY <1>0, <1>1 DEF EchoesAreOwn
<1> QED
  BY <1>2, <1>3, <1>5, <1>6, <1>7 DEF FateOf

\* The state file is published or goes bad, and the temperature drifts.
LEMMA BridgePublishes ==
  ASSUME BridgeInv,
         PublishState \/ StateGoesBad \/ TemperatureDrifts \/ LoopSenses \/ ResetAndEnable
  PROVE  BridgeInv'
<1>0. BridgeShapes /\ EchoesAreOwn
  BY DEF BridgeInv
<1>1. UNCHANGED <<control, lastTaken, writers>>
  BY DEF PublishState, StateGoesBad, TemperatureDrifts, LoopSenses, ResetAndEnable, DownstreamSame
<1>2. /\ {"rid", "ok"} \subseteq DOMAIN stateFile' /\ stateFile'.ok \in BOOLEAN
      /\ \/ stateFile'.rid = stateFile.rid /\ stateFile'.ok = stateFile.ok
         \/ stateFile'.rid = lastTaken.rid /\ stateFile'.ok = lastTaken.ok
  <2>1. CASE PublishState
    BY <1>0, <2>1 DEF PublishState, Report, BridgeShapes
  <2>2. CASE StateGoesBad
    BY <1>0, <2>2 DEF StateGoesBad, BridgeShapes
  <2>3. CASE TemperatureDrifts
    BY <1>0, <2>3 DEF TemperatureDrifts, BridgeShapes
  <2>4. CASE LoopSenses \/ ResetAndEnable
    BY <1>0, <2>4 DEF LoopSenses, ResetAndEnable, DownstreamSame, BridgeShapes
  <2> QED
    BY <2>1, <2>2, <2>3, <2>4
<1> QED
  BY <1>0, <1>1, <1>2 DEF BridgeInv, BridgeShapes, EchoesAreOwn

\* Every step of the bridge keeps the invariant.
LEMMA BridgeStep ==
  ASSUME BridgeInv, [BridgeNext]_bridgeVars
  PROVE  BridgeInv'
<1>1. CASE UNCHANGED bridgeVars
  BY <1>1 DEF bridgeVars, BridgeInv, BridgeShapes, EchoesAreOwn
<1>2. CASE \/ LoopCompute \/ HttpCompute \/ EmergencyStopCompute
           \/ \E c \in DirectControls : write_component(c)
  BY <1>2, BridgeCallsBegin
<1> QED
  BY <1>1, <1>2, BridgeWrites, BridgeTakes, BridgePolls, BridgePublishes DEF BridgeNext

\* The invariant of the bridge.
LEMMA BridgeInvariant == BridgeSpec => []BridgeInv
<1>1. ASSUME BridgeInit
      PROVE  BridgeInv
  <2>1. writers = [w \in BridgeWriters |-> NoWrite]
    BY <1>1 DEF BridgeInit
  <2>2. /\ writers = [w \in BridgeWriters |-> writers[w]]
        /\ \A w \in BridgeWriters : WriterOK(writers[w]) /\ writers[w].pc = "idle"
    BY <2>1, WriterFacts
  <2>3. lastTaken \in [rid : {"none", "mine", "other"}, ok : BOOLEAN]
    BY <1>1 DEF BridgeInit
  <2>4. {"rid", "ok"} \subseteq DOMAIN stateFile /\ stateFile.ok \in BOOLEAN
    BY <1>1 DEF BridgeInit, Report
  <2>5. {"rid", "unseen"} \subseteq DOMAIN control /\ control.rid \in {"none", "mine", "other"}
    BY <1>1 DEF BridgeInit
  <2> QED
    BY <2>2, <2>3, <2>4, <2>5, WriterFacts DEF BridgeInv, BridgeShapes, EchoesAreOwn
<1>2. BridgeInv /\ [BridgeNext]_bridgeVars => BridgeInv'
  BY BridgeStep
<1> QED
  BY <1>1, <1>2, PTL DEF BridgeSpec

(***************************************************************************)
(* A command the loop heard confirmed was applied and one it heard         *)
(* rejected was rejected, for any targets, writers' interleaving and       *)
(* faults (JsonBridgeDevice::write_targets_acknowledged).                  *)
(***************************************************************************)
THEOREM BridgeEchoesAreOwn == BridgeSpec => BridgeEchoIsOwn
<1>1. ASSUME BridgeInv, [BridgeNext]_bridgeVars
      PROVE  [writers["loop"].pc = "polling" /\ writers'["loop"].pc = "idle" =>
                /\ writers'["loop"].ack = "confirmed" => writers["loop"].fate = "applied"
                /\ writers'["loop"].ack = "rejected" => writers["loop"].fate = "rejected"]_bridgeVars
  <2>0. SUFFICES ASSUME writers["loop"].pc = "polling", writers'["loop"].pc = "idle", ~PollState
                 PROVE  FALSE
    BY <1>1, BridgePolls
  <2>1. /\ BridgeShapes /\ BridgeWriters = {"loop", "http"} /\ "loop" # "http"
        /\ writers = [w \in BridgeWriters |-> writers[w]] /\ WriterOK(writers["loop"])
    BY <1>1, WriterFacts DEF BridgeInv, BridgeShapes
  <2>2. CASE writers' = writers
    BY <2>0, <2>2
  <2>3. ASSUME NEW r, writers' = [writers EXCEPT !["http"] = r]
        PROVE  FALSE
    <3>1. writers'["loop"] = writers["loop"]
      BY <2>1, <2>3
    <3> QED
      BY <2>0, <3>1
  <2>4. ASSUME NEW x, writers' = [writers EXCEPT !["loop"].fate = x]
        PROVE  FALSE
    <3>1. writers'["loop"].pc = writers["loop"].pc
      BY <2>1, <2>4 DEF WriterOK
    <3> QED
      BY <2>0, <3>1
  <2>5. ASSUME NEW w \in BridgeWriters, NEW target, Compute(w, target)
        PROVE  FALSE
    <3>1. w = "http"
      BY <2>0, <2>1, <2>5 DEF Compute
    <3> QED
      BY <2>3, <2>5, <3>1, CallShapes DEF Compute
  <2>6. ASSUME NEW w \in BridgeWriters, write_json_bridge_control(w)
        PROVE  FALSE
    <3>1. w = "http"
      BY <2>0, <2>1, <2>6 DEF write_json_bridge_control
    <3>2. \E r : writers' = [writers EXCEPT !["http"] = r]
      BY <2>6, <3>1, CallShapes DEF write_json_bridge_control
    <3> QED
      BY <2>3, <3>2
  <2>7. ASSUME NEW ok \in BOOLEAN, TakeControl(ok)
        PROVE  FALSE
    BY <2>2, <2>4, <2>7 DEF TakeControl
  <2>8. ASSUME NEW c \in DirectControls, write_component(c)
        PROVE  FALSE
    BY <2>3, <2>8, CallShapes DEF write_component
  <2>9. ~(LoopCompute \/ HttpCompute \/ EmergencyStopCompute)
    BY <2>1, <2>5 DEF LoopCompute, HttpCompute, EmergencyStopCompute
  <2>10. \/ PublishState \/ StateGoesBad \/ TemperatureDrifts \/ LoopSenses \/ ResetAndEnable
         \/ UNCHANGED bridgeVars
         => writers' = writers
    BY DEF PublishState, StateGoesBad, TemperatureDrifts, LoopSenses, ResetAndEnable, DownstreamSame,
           bridgeVars
  <2> QED
    BY <1>1, <2>0, <2>2, <2>6, <2>7, <2>8, <2>9, <2>10 DEF BridgeNext
<1> QED
  BY <1>1, BridgeInvariant, PTL DEF BridgeSpec, BridgeEchoIsOwn

-----------------------------------------------------------------------------
(* The serial line: the inductive invariant.                               *)

\* What a line or a queue of frames holds.
Holds(s) == {s[i] : i \in DOMAIN s}

\* A queue loses its head or its front, or gains an element at the back or the front.
LEMMA QueueFacts ==
  ASSUME NEW S, NEW s \in Seq(S)
  PROVE  /\ Holds(s) \subseteq S
         /\ s # <<>> => /\ Head(s) \in Holds(s) /\ Tail(s) \in Seq(S) /\ Holds(Tail(s)) \subseteq Holds(s)
                        /\ Len(s) \in Nat \ {0} /\ Len(Tail(s)) = Len(s) - 1
         /\ \A n \in 0 .. Len(s) :
              /\ SubSeq(s, n + 1, Len(s)) \in Seq(S)
              /\ Len(SubSeq(s, n + 1, Len(s))) <= Len(s)
              /\ Holds(SubSeq(s, n + 1, Len(s))) \subseteq Holds(s)
         /\ \A x \in S : /\ s \o <<x>> \in Seq(S) /\ Len(s \o <<x>>) = Len(s) + 1
                         /\ Holds(s \o <<x>>) \subseteq Holds(s) \cup {x}
                         /\ <<x>> \o s \in Seq(S) /\ Len(<<x>> \o s) = Len(s) + 1
                         /\ Holds(<<x>> \o s) \subseteq Holds(s) \cup {x}
         /\ s \o <<>> = s
<1>1. Len(s) \in Nat /\ DOMAIN s = 1 .. Len(s) /\ \A i \in 1 .. Len(s) : s[i] \in S
  OBVIOUS
<1>2. Holds(s) \subseteq S
  BY <1>1 DEF Holds
<1>3. ASSUME s # <<>>
      PROVE  /\ Head(s) \in Holds(s) /\ Tail(s) \in Seq(S) /\ Holds(Tail(s)) \subseteq Holds(s)
             /\ Len(s) \in Nat \ {0} /\ Len(Tail(s)) = Len(s) - 1
  <2>1. /\ Len(s) \in Nat \ {0} /\ Head(s) = s[1] /\ Tail(s) \in Seq(S) /\ Len(Tail(s)) = Len(s) - 1
        /\ \A i \in 1 .. Len(s) - 1 : Tail(s)[i] = s[i + 1]
    BY <1>3
  <2>2. DOMAIN Tail(s) = 1 .. Len(s) - 1
    BY <2>1
  <2>3. Head(s) \in Holds(s)
    BY <1>1, <2>1 DEF Holds
  <2>4. ASSUME NEW i \in 1 .. Len(s) - 1
        PROVE  Tail(s)[i] \in Holds(s)
    <3>1. i + 1 \in DOMAIN s /\ Tail(s)[i] = s[i + 1]
      BY <1>1, <2>1
    <3> QED
      BY <3>1 DEF Holds
  <2>5. Holds(Tail(s)) \subseteq Holds(s)
    <3>1. ASSUME NEW y \in Holds(Tail(s))
          PROVE  y \in Holds(s)
      <4>1. PICK i \in DOMAIN Tail(s) : y = Tail(s)[i]
        BY DEF Holds
      <4> QED
        BY <2>2, <2>4, <4>1
    <3> QED
      BY <3>1
  <2> QED
    BY <2>1, <2>3, <2>5
<1>4. ASSUME NEW n \in 0 .. Len(s)
      PROVE  /\ SubSeq(s, n + 1, Len(s)) \in Seq(S)
             /\ Len(SubSeq(s, n + 1, Len(s))) <= Len(s)
             /\ Holds(SubSeq(s, n + 1, Len(s))) \subseteq Holds(s)
  <2> DEFINE t == SubSeq(s, n + 1, Len(s))
  <2>1. /\ t \in Seq(S) /\ Len(t) = Len(s) - n
        /\ \A i \in 1 .. Len(s) - n : t[i] = s[i + n]
    <3>1. n + 1 \in Int /\ Len(s) \in Int /\ \A i \in n + 1 .. Len(s) : s[i] \in S
      BY <1>1
    <3>2. /\ t \in Seq(S) /\ Len(t) = IF n + 1 <= Len(s) THEN Len(s) - (n + 1) + 1 ELSE 0
          /\ \A i \in 1 .. Len(s) - (n + 1) + 1 : t[i] = s[(n + 1) + i - 1]
      BY <3>1, SubSeqProperties
    <3> HIDE DEF t
    <3>3. Len(t) = Len(s) - n /\ Len(s) - (n + 1) + 1 = Len(s) - n
      <4>1. ASSUME NEW m \in Nat, NEW k \in Nat, k <= m
            PROVE  /\ m - (k + 1) + 1 = m - k
                   /\ ~(k + 1 <= m) => m - k = 0
        BY <4>1
      <4>2. Len(s) \in Nat /\ n \in Nat /\ n <= Len(s)
        BY <1>1
      <4> QED
        BY <3>2, <4>1, <4>2
    <3>4. \A i \in 1 .. Len(s) - n : (n + 1) + i - 1 = i + n
      BY <1>1
    <3> QED
      BY <3>2, <3>3, <3>4
  <2> HIDE DEF t
  <2>2. DOMAIN t = 1 .. Len(s) - n
    BY <2>1
  <2>3. ASSUME NEW y \in Holds(t)
        PROVE  y \in Holds(s)
    <3>1. PICK i \in DOMAIN t : y = t[i]
      BY DEF Holds
    <3>2. y = s[i + n] /\ i + n \in DOMAIN s
      BY <1>1, <2>1, <2>2, <3>1
    <3> QED
      BY <3>2 DEF Holds
  <2> QED
    <3>1. Len(t) <= Len(s)
      BY <1>1, <2>1
    <3> QED
      BY <2>1, <2>3, <3>1 DEF t
<1>5. ASSUME NEW x \in S, NEW a \in Seq(S), NEW b \in Seq(S),
             (a = s /\ b = <<x>>) \/ (a = <<x>> /\ b = s)
      PROVE  /\ a \o b \in Seq(S) /\ Len(a \o b) = Len(s) + 1
             /\ Holds(a \o b) \subseteq Holds(s) \cup {x}
  <2>1. /\ a \o b \in Seq(S) /\ Len(a \o b) = Len(a) + Len(b)
        /\ \A i \in 1 .. Len(a) + Len(b) : (a \o b)[i] = IF i <= Len(a) THEN a[i] ELSE b[i - Len(a)]
    BY ConcatProperties
  <2>2. Len(a) \in Nat /\ Len(b) \in Nat /\ Len(a) + Len(b) = Len(s) + 1
    <3>1. Len(<<x>>) = 1
      OBVIOUS
    <3>2. (Len(a) = Len(s) /\ Len(b) = 1) \/ (Len(a) = 1 /\ Len(b) = Len(s))
      BY <1>5, <3>1
    <3>3. \A m \in Nat : m + 1 = 1 + m
      OBVIOUS
    <3>4. Len(s) \in Nat /\ 1 \in Nat
      BY <1>1
    <3> QED
      BY <3>2, <3>3, <3>4
  <2>3. DOMAIN (a \o b) = 1 .. Len(a) + Len(b)
    BY <2>1
  <2>4. /\ \A i \in 1 .. Len(a) : a[i] \in Holds(s) \cup {x}
        /\ \A i \in 1 .. Len(b) : b[i] \in Holds(s) \cup {x}
    BY <1>1, <1>5 DEF Holds
  <2>5. ASSUME NEW y \in Holds(a \o b)
        PROVE  y \in Holds(s) \cup {x}
    <3>1. PICK i \in DOMAIN (a \o b) : y = (a \o b)[i]
      BY DEF Holds
    <3>2. i \in 1 .. Len(a) + Len(b) /\ y = IF i <= Len(a) THEN a[i] ELSE b[i - Len(a)]
      BY <2>1, <2>3, <3>1
    <3>3. i <= Len(a) \/ i - Len(a) \in 1 .. Len(b)
      BY <2>2, <3>2
    <3> QED
      BY <2>2, <2>4, <3>2, <3>3
  <2> QED
    BY <2>1, <2>2, <2>5
<1>6. \A x \in S : <<x>> \in Seq(S)
  OBVIOUS
<1>7. s \o <<>> = s
  OBVIOUS
<1>8. \A x \in S : /\ s \o <<x>> \in Seq(S) /\ Len(s \o <<x>>) = Len(s) + 1
                   /\ Holds(s \o <<x>>) \subseteq Holds(s) \cup {x}
  BY <1>5, <1>6
<1>9. \A x \in S : /\ <<x>> \o s \in Seq(S) /\ Len(<<x>> \o s) = Len(s) + 1
                   /\ Holds(<<x>> \o s) \subseteq Holds(s) \cup {x}
  BY <1>5, <1>6
<1> QED
  BY <1>2, <1>3, <1>4, <1>7, <1>8, <1>9

\* A request id, taken apart and compared with none.
LEMMA RidFacts ==
  ASSUME NEW a \in Nat, NEW b \in Nat
  PROVE  /\ request_id(a, b) # NoRid /\ request_id(a, b)[1] = a /\ request_id(a, b)[2] = b
  BY DEF request_id, NoRid

Lines == [kind : {"ack", "sample", "noise"}, rid : Rids, ok : BOOLEAN]
Frames == [rid : Rids, frame : 1 .. MaxFrames]
Waits == [pc : {"idle", "reading"}, rid : Rids, frame : 0 .. MaxFrames,
          expired : BOOLEAN, status : {"none", "confirmed", "rejected", "timeout"}]

SerialTypes ==
    /\ loopCall \in Waits
    /\ sent \in 0 .. MaxFrames
    /\ toDevice \in Seq(Frames) /\ toHost \in Seq(Lines)
    /\ Len(toDevice) <= MaxLines /\ Len(toHost) <= MaxLines
    /\ heldFrame \in 0 .. MaxFrames /\ refused \subseteq 1 .. MaxFrames
    /\ command_seq \in 0 .. MaxFrames /\ clock \in 0 .. MaxClock /\ reboots \in 0 .. MaxReboots
    /\ command_seq <= sent

\* An id this or an earlier run of the daemon has given out.
Given(rid) == rid # NoRid => rid[1] < clock \/ (rid[1] = clock /\ rid[2] <= command_seq)

IdsAreGiven ==
    /\ \A f \in Holds(toDevice) : Given(f.rid) /\ f.frame <= sent
    /\ \A l \in Holds(toHost) : Given(l.rid)

FramesInOrder == \A i, j \in 1 .. Len(toDevice) : i < j => toDevice[i].frame < toDevice[j].frame

\* The command waited for is the last one sent, and an acknowledgement of it tells the truth.
WaitIsForLast ==
    loopCall.pc = "reading" =>
        /\ loopCall.frame = sent /\ loopCall.rid # NoRid /\ Given(loopCall.rid)
        /\ \A f \in Holds(toDevice) : f.rid = loopCall.rid => f.frame = sent
        /\ \A l \in Holds(toHost) : l.kind = "ack" /\ l.rid = loopCall.rid =>
              /\ toDevice = <<>>
              /\ IF l.ok THEN heldFrame = sent ELSE sent \in refused

SerialInv == SerialTypes /\ IdsAreGiven /\ FramesInOrder /\ WaitIsForLast

\* The host's side of the line changes, and what it holds is as before or says nothing.
LEMMA LineShrinks ==
  ASSUME SerialInv, toHost' \in Seq(Lines), Len(toHost') <= MaxLines,
         \A l \in Holds(toHost') : l \in Holds(toHost) \/ (l.kind # "ack" /\ l.rid = NoRid),
         loopCall' \in Waits,
         loopCall'.pc = "reading" => /\ loopCall.pc = "reading" /\ loopCall'.rid = loopCall.rid
                                     /\ loopCall'.frame = loopCall.frame,
         UNCHANGED <<sent, toDevice, heldFrame, refused, command_seq, clock, reboots>>
  PROVE  SerialInv'
<1>1. SerialTypes'
  BY DEF SerialInv, SerialTypes
<1>2. IdsAreGiven'
  BY DEF SerialInv, IdsAreGiven, Given
<1>3. FramesInOrder'
  BY DEF SerialInv, FramesInOrder
<1>4. WaitIsForLast'
  BY DEF SerialInv, WaitIsForLast, Given
<1> QED
  BY <1>1, <1>2, <1>3, <1>4 DEF SerialInv

\* Constants and the lines that are not acknowledgements.
LEMMA SerialFacts ==
  /\ MaxFrames \in Nat /\ MaxLines \in Nat /\ MaxClock \in Nat /\ MaxReboots \in Nat
  /\ NoRid \in Rids /\ NotCalling \in Waits /\ NotCalling.pc = "idle"
  /\ \A kind \in {"sample", "noise"} :
       OtherLine(kind) \in Lines /\ OtherLine(kind).kind # "ack" /\ OtherLine(kind).rid = NoRid
<1>1. NoRid \in Rids
  BY DEF Rids
<1>2. NotCalling \in Waits /\ NotCalling.pc = "idle"
  BY <1>1, SerialConstants DEF NotCalling, Waits
<1>3. \A kind \in {"sample", "noise"} :
       OtherLine(kind) \in Lines /\ OtherLine(kind).kind # "ack" /\ OtherLine(kind).rid = NoRid
  BY <1>1 DEF OtherLine, Lines
<1> QED
  BY <1>1, <1>2, <1>3, SerialConstants

\* The parts of an id that was given.
LEMMA RidParts ==
  ASSUME NEW rid \in Rids, rid # NoRid
  PROVE  rid[1] \in Nat /\ rid[2] \in Nat
<1>1. PICK c \in 0 .. MaxClock, s \in 1 .. MaxFrames : rid = <<c, s>>
  BY DEF Rids
<1> QED
  BY <1>1, SerialConstants

\* Reading, and the wire's faults on the host's side, only lose lines or double one.
LEMMA HostSideSteps ==
  ASSUME SerialInv,
         \/ Handshake \/ WindowCloses \/ read_sample \/ WireHurtsAck
         \/ \E kind \in {"sample", "noise"} : DeviceTalks(kind)
  PROVE  SerialInv'
<1>0. /\ toHost \in Seq(Lines) /\ loopCall \in Waits /\ Len(toHost) \in Nat /\ Len(toHost) <= MaxLines
      /\ MaxLines \in Nat
  BY SerialFacts DEF SerialInv, SerialTypes
<1> DEFINE Fewer(t) == t \in Seq(Lines) /\ Len(t) <= MaxLines /\ Holds(t) \subseteq Holds(toHost)
<1>1. Fewer(toHost)
  BY <1>0
<1>2. toHost # <<>> => Fewer(Tail(toHost)) /\ Head(toHost) \in Holds(toHost) /\ Head(toHost) \in Lines
  <2>1. ASSUME toHost # <<>>
        PROVE  /\ Head(toHost) \in Holds(toHost) /\ Holds(toHost) \subseteq Lines
               /\ Tail(toHost) \in Seq(Lines) /\ Holds(Tail(toHost)) \subseteq Holds(toHost)
               /\ Len(Tail(toHost)) = Len(toHost) - 1
    BY <1>0, <2>1, QueueFacts
  <2>2. ASSUME toHost # <<>>
        PROVE  Len(Tail(toHost)) <= MaxLines
    BY <1>0, <2>1, <2>2
  <2> QED
    BY <2>1, <2>2
<1>3. ASSUME NEW t, Fewer(t), DropReadAhead(t)
      PROVE  Fewer(toHost')
  <2>1. PICK n \in 0 .. Len(t) : toHost' = SubSeq(t, n + 1, Len(t))
    BY <1>3 DEF DropReadAhead
  <2>2. /\ toHost' \in Seq(Lines) /\ Len(toHost') <= Len(t) /\ Holds(toHost') \subseteq Holds(t)
    BY <1>3, <2>1, QueueFacts
  <2>3. Len(t) \in Nat /\ Len(toHost') \in Nat /\ Len(t) <= MaxLines
    BY <1>3, <2>2
  <2>4. Len(toHost') <= MaxLines
    BY <1>0, <2>2, <2>3
  <2> QED
    BY <1>3, <2>2, <2>4
<1>4. ASSUME Fewer(toHost')
      PROVE  /\ toHost' \in Seq(Lines) /\ Len(toHost') <= MaxLines
             /\ \A l \in Holds(toHost') : l \in Holds(toHost) \/ (l.kind # "ack" /\ l.rid = NoRid)
  BY <1>4
<1> HIDE DEF Fewer
<1>5. CASE Handshake
  <2>0. KeepRest /\ loopCall.pc = "reading"
    BY <1>5 DEF Handshake
  <2>1. \/ UNCHANGED loopCall /\ toHost # <<>> /\ toHost' = Tail(toHost)
        \/ \E status \in {"confirmed", "rejected", "timeout"}, t \in {toHost, Tail(toHost)} :
              Finish(status, t) /\ (t = toHost \/ toHost # <<>>)
    BY <1>5 DEF Handshake, TakeLine
  <2>2. CASE UNCHANGED loopCall /\ toHost # <<>> /\ toHost' = Tail(toHost)
    <3>1. Fewer(toHost')
      BY <1>2, <2>2
    <3> QED
      BY <1>0, <1>4, <2>0, <2>2, <3>1, LineShrinks DEF KeepRest
  <2>3. ASSUME NEW status \in {"confirmed", "rejected", "timeout"}, NEW t \in {toHost, Tail(toHost)},
               Finish(status, t), t = toHost \/ toHost # <<>>
        PROVE  SerialInv'
    <3>1. Fewer(t)
      BY <1>1, <1>2, <2>3
    <3>2. Fewer(toHost')
      BY <1>3, <2>3, <3>1 DEF Finish
    <3>3. loopCall' \in Waits /\ loopCall'.pc = "idle"
      BY <1>0, <2>3 DEF Finish, Waits
    <3> QED
      BY <1>4, <2>0, <3>2, <3>3, LineShrinks DEF KeepRest
  <2> QED
    BY <2>1, <2>2, <2>3
<1>6. CASE WindowCloses
  <2>1. /\ loopCall' \in Waits /\ loopCall'.rid = loopCall.rid /\ loopCall'.frame = loopCall.frame
        /\ loopCall.pc = "reading" /\ toHost' = toHost /\ KeepRest
    BY <1>0, <1>6 DEF WindowCloses, Waits
  <2>2. Fewer(toHost')
    BY <1>1, <2>1
  <2> QED
    BY <1>4, <2>1, <2>2, LineShrinks DEF KeepRest
<1>7. CASE read_sample
  <2>1. toHost # <<>> /\ DropReadAhead(Tail(toHost)) /\ UNCHANGED loopCall /\ KeepRest
    BY <1>7 DEF read_sample
  <2>2. Fewer(toHost')
    BY <1>2, <1>3, <2>1
  <2> QED
    BY <1>0, <1>4, <2>1, <2>2, LineShrinks DEF KeepRest
<1>8. ASSUME NEW t \in Seq(Lines), Holds(t) \subseteq Holds(toHost), Len(t) < MaxLines, NEW x \in Lines,
             x \in Holds(toHost) \/ (x.kind # "ack" /\ x.rid = NoRid),
             toHost' = <<x>> \o t \/ toHost' = t \o <<x>>, UNCHANGED loopCall, KeepRest
      PROVE  SerialInv'
  <2>1. /\ toHost' \in Seq(Lines) /\ Len(toHost') = Len(t) + 1 /\ Holds(toHost') \subseteq Holds(t) \cup {x}
    <3>1. /\ t \o <<x>> \in Seq(Lines) /\ Len(t \o <<x>>) = Len(t) + 1
          /\ Holds(t \o <<x>>) \subseteq Holds(t) \cup {x}
          /\ <<x>> \o t \in Seq(Lines) /\ Len(<<x>> \o t) = Len(t) + 1
          /\ Holds(<<x>> \o t) \subseteq Holds(t) \cup {x}
      BY <1>8, QueueFacts
    <3>2. CASE toHost' = <<x>> \o t
      BY <3>1, <3>2
    <3>3. CASE toHost' = t \o <<x>>
      BY <3>1, <3>3
    <3> QED
      BY <1>8, <3>2, <3>3
  <2>2. Len(t) \in Nat
    BY <1>8
  <2>3. Len(toHost') <= MaxLines
    BY <1>0, <1>8, <2>1, <2>2
  <2>4. \A l \in Holds(toHost') : l \in Holds(toHost) \/ (l.kind # "ack" /\ l.rid = NoRid)
    BY <1>8, <2>1
  <2> QED
    BY <1>0, <1>8, <2>1, <2>3, <2>4, LineShrinks DEF KeepRest
<1>9. CASE WireHurtsAck
  <2>0. toHost # <<>> /\ UNCHANGED loopCall /\ KeepRest
    BY <1>9 DEF WireHurtsAck
  <2>1. CASE toHost' = Tail(toHost)
    <3>1. Fewer(toHost')
      BY <1>2, <2>0, <2>1
    <3> QED
      BY <1>0, <1>4, <2>0, <3>1, LineShrinks DEF KeepRest
  <2>2. CASE toHost' = <<OtherLine("noise")>> \o Tail(toHost)
    <3>1. /\ Tail(toHost) \in Seq(Lines) /\ Holds(Tail(toHost)) \subseteq Holds(toHost)
          /\ Len(Tail(toHost)) = Len(toHost) - 1
      BY <1>0, <2>0, QueueFacts
    <3>2. Len(Tail(toHost)) < MaxLines
      BY <1>0, <3>1
    <3> QED
      BY <1>8, <2>0, <2>2, <3>1, <3>2, SerialFacts
  <2>3. CASE Len(toHost) < MaxLines /\ toHost' = <<Head(toHost)>> \o toHost
    BY <1>0, <1>2, <1>8, <2>0, <2>3
  <2> QED
    BY <1>9, <2>1, <2>2, <2>3 DEF WireHurtsAck
<1>10. ASSUME NEW kind \in {"sample", "noise"}, DeviceTalks(kind)
       PROVE  SerialInv'
  BY <1>0, <1>8, <1>10, SerialFacts DEF DeviceTalks, Emit
<1> QED
  BY <1>5, <1>6, <1>7, <1>9, <1>10

\* A frame is sent, with an id nobody has seen or with none.
LEMMA SendSteps ==
  ASSUME SerialInv, SendWithRid \/ SendPlain
  PROVE  SerialInv'
<1>0. /\ SerialTypes /\ toDevice \in Seq(Frames) /\ Len(toDevice) \in Nat /\ sent \in Nat
      /\ command_seq \in Nat /\ clock \in Nat /\ command_seq <= sent /\ sent <= MaxFrames
      /\ clock <= MaxClock
      /\ MaxFrames \in Nat /\ MaxLines \in Nat /\ MaxClock \in Nat
  BY SerialFacts DEF SerialInv, SerialTypes
<1>1. /\ loopCall.pc = "idle" /\ sent < MaxFrames /\ Len(toDevice) < MaxLines /\ sent' = sent + 1
      /\ UNCHANGED <<toHost, heldFrame, refused, clock, reboots>>
      /\ command_seq' \in {command_seq, command_seq + 1}
  BY DEF SendWithRid, SendPlain, CanSend, PortFree
<1>f. PICK fresh : fresh = request_id(clock, command_seq + 1)
  OBVIOUS
<1>2. fresh \in Rids /\ fresh # NoRid /\ fresh[1] = clock /\ fresh[2] = command_seq + 1
  <2>1. clock \in 0 .. MaxClock /\ command_seq + 1 \in 1 .. MaxFrames
    BY <1>0, <1>1
  <2> QED
    BY <1>0, <1>f, <2>1, RidFacts DEF request_id, Rids
<1>3. PICK rid \in {fresh, NoRid} : toDevice' = Append(toDevice, CommandFrame(rid, sent + 1))
  BY <1>f DEF SendWithRid, SendPlain
<1>x. PICK x : x = CommandFrame(rid, sent + 1)
  OBVIOUS
<1>4. x \in Frames /\ x.rid = rid /\ x.frame = sent + 1
  <2>1. rid \in Rids /\ sent + 1 \in 1 .. MaxFrames
    BY <1>0, <1>1, <1>2, SerialFacts
  <2> QED
    BY <1>x, <2>1 DEF CommandFrame, Frames
<1>5. /\ toDevice' \in Seq(Frames) /\ Len(toDevice') = Len(toDevice) + 1
      /\ \A i \in 1 .. Len(toDevice) : toDevice'[i] = toDevice[i]
      /\ toDevice'[Len(toDevice) + 1] = x
  BY <1>0, <1>3, <1>x, <1>4
<1>6. \A f \in Holds(toDevice') : f \in Holds(toDevice) \/ f = x
  <2>1. DOMAIN toDevice' = 1 .. Len(toDevice) + 1 /\ DOMAIN toDevice = 1 .. Len(toDevice)
    BY <1>0, <1>5
  <2>2. ASSUME NEW i \in 1 .. Len(toDevice) + 1
        PROVE  i \in 1 .. Len(toDevice) \/ i = Len(toDevice) + 1
    BY <1>0
  <2> QED
    BY <1>5, <2>1, <2>2 DEF Holds
<1>7. loopCall' \in Waits
      /\ (loopCall'.pc = "reading" =>
            loopCall'.rid = fresh /\ loopCall'.frame = sent + 1 /\ rid = fresh /\ command_seq' = command_seq + 1)
  <2>0. NotCalling \in Waits /\ sent + 1 \in 0 .. MaxFrames
    BY <1>0, <1>1, SerialFacts
  <2>1. CASE SendWithRid
    <3>1. loopCall' = [NotCalling EXCEPT !.pc = "reading", !.rid = fresh, !.frame = sent + 1]
          /\ toDevice' = Append(toDevice, CommandFrame(fresh, sent + 1)) /\ command_seq' = command_seq + 1
      BY <1>f, <2>1 DEF SendWithRid
    <3>2. loopCall' \in Waits /\ loopCall'.rid = fresh /\ loopCall'.frame = sent + 1
      BY <1>2, <2>0, <3>1 DEF Waits
    <3>3. rid = fresh
      <4> DEFINE y == CommandFrame(fresh, sent + 1)
      <4>1. y.rid = fresh /\ y \in Frames
        <5>1. sent + 1 \in 1 .. MaxFrames
          BY <1>0, <1>1
        <5> QED
          BY <1>2, <5>1 DEF CommandFrame, Frames
      <4>2. toDevice' = Append(toDevice, y)
        BY <3>1
      <4> HIDE DEF y
      <4>3. toDevice'[Len(toDevice) + 1] = y
        BY <1>0, <4>1, <4>2
      <4> QED
        BY <1>4, <1>5, <4>1, <4>3
    <3> QED
      BY <3>1, <3>2, <3>3
  <2>2. CASE SendPlain
    BY <1>0, <1>1, <2>2 DEF SendPlain, SerialTypes
  <2> QED
    BY <2>1, <2>2
<1>8. SerialTypes'
  <2>1. /\ sent' \in 0 .. MaxFrames /\ command_seq' \in 0 .. MaxFrames /\ command_seq' <= sent'
        /\ Len(toDevice') <= MaxLines
    BY <1>0, <1>1, <1>5
  <2> QED
    BY <1>0, <1>1, <1>5, <1>7, <2>1 DEF SerialTypes
<1>9. ASSUME NEW r \in Rids, Given(r)
      PROVE  Given(r)' /\ r # fresh
  <2>1. r = NoRid \/ (r[1] \in Nat /\ r[2] \in Nat)
    BY RidParts
  <2>2. CASE r = NoRid
    BY <1>2, <2>2 DEF Given
  <2>3. CASE r # NoRid
    <3>1. r[1] \in Nat /\ r[2] \in Nat /\ (r[1] < clock \/ (r[1] = clock /\ r[2] <= command_seq))
      BY <1>9, <2>1, <2>3 DEF Given
    <3>2. r # fresh
      BY <1>0, <1>2, <3>1
    <3>3. r[1] < clock' \/ (r[1] = clock' /\ r[2] <= command_seq')
      BY <1>0, <1>1, <3>1
    <3> QED
      BY <3>2, <3>3 DEF Given
  <2> QED
    BY <2>2, <2>3
<1>10. /\ \A f \in Holds(toDevice) : f.rid \in Rids /\ Given(f.rid) /\ f.frame <= sent /\ f.frame \in Nat
       /\ \A l \in Holds(toHost) : l.rid \in Rids /\ Given(l.rid)
  <2>1. \A f \in Holds(toDevice) : f \in Frames
    BY <1>0, QueueFacts
  <2>2. \A l \in Holds(toHost) : l \in Lines
    BY <1>0, QueueFacts DEF SerialTypes
  <2> QED
    BY <1>0, <2>1, <2>2 DEF SerialInv, IdsAreGiven, Frames, Lines
<1>11. command_seq' = command_seq + 1 => Given(fresh)'
  BY <1>0, <1>1, <1>2 DEF Given
<1>12. Given(rid)' /\ (rid = fresh => command_seq' = command_seq + 1)
  <2>1. CASE SendWithRid
    <3>1. command_seq' = command_seq + 1
      BY <2>1 DEF SendWithRid
    <3> QED
      BY <1>3, <1>11, <3>1 DEF Given
  <2>2. CASE SendPlain
    <3>1. loopCall' = loopCall /\ toDevice' = Append(toDevice, CommandFrame(NoRid, sent + 1))
      BY <2>2 DEF SendPlain
    <3> DEFINE y == CommandFrame(NoRid, sent + 1)
    <3>2. y.rid = NoRid /\ y \in Frames
      <4>1. sent + 1 \in 1 .. MaxFrames
        BY <1>0, <1>1
      <4> QED
        BY <4>1, SerialFacts DEF CommandFrame, Frames
    <3>3. toDevice' = Append(toDevice, y)
      BY <3>1
    <3> HIDE DEF y
    <3>4. toDevice'[Len(toDevice) + 1] = y
      BY <1>0, <3>2, <3>3
    <3>5. rid = NoRid
      BY <1>4, <1>5, <3>2, <3>4
    <3> QED
      BY <1>2, <3>5 DEF Given
  <2> QED
    BY <2>1, <2>2
<1>13. IdsAreGiven'
  <2>1. ASSUME NEW f \in Holds(toDevice')
        PROVE  Given(f.rid)' /\ f.frame <= sent'
    <3>1. CASE f = x
      BY <1>0, <1>1, <1>4, <1>12, <3>1
    <3>2. CASE f \in Holds(toDevice)
      <4>1. Given(f.rid)' /\ f.frame <= sent /\ f.frame \in Nat
        BY <1>9, <1>10, <3>2
      <4> QED
        BY <1>0, <1>1, <4>1
    <3> QED
      BY <1>6, <3>1, <3>2
  <2>2. ASSUME NEW l \in Holds(toHost')
        PROVE  Given(l.rid)'
    BY <1>1, <1>9, <1>10
  <2> QED
    BY <2>1, <2>2 DEF IdsAreGiven, Given
<1>14. FramesInOrder'
  <2>1. ASSUME NEW i \in 1 .. Len(toDevice'), NEW j \in 1 .. Len(toDevice'), i < j
        PROVE  toDevice'[i].frame < toDevice'[j].frame
    <3>1. i \in 1 .. Len(toDevice) /\ toDevice'[i] = toDevice[i] /\ toDevice[i] \in Holds(toDevice)
      <4>1. i \in 1 .. Len(toDevice)
        BY <1>0, <1>5, <2>1
      <4>2. DOMAIN toDevice = 1 .. Len(toDevice)
        BY <1>0
      <4> QED
        BY <1>5, <4>1, <4>2 DEF Holds
    <3>2. CASE j \in 1 .. Len(toDevice)
      BY <1>5, <2>1, <3>1, <3>2 DEF SerialInv, FramesInOrder
    <3>3. CASE j = Len(toDevice) + 1
      <4>1. toDevice[i].frame <= sent /\ toDevice[i].frame \in Nat
        BY <1>10, <3>1
      <4>2. toDevice'[j].frame = sent + 1
        BY <1>4, <1>5, <3>3
      <4> QED
        BY <1>0, <3>1, <4>1, <4>2
    <3> QED
      BY <1>0, <1>5, <3>2, <3>3
  <2> QED
    BY <2>1 DEF FramesInOrder
<1>15. WaitIsForLast'
  <2>1. SUFFICES ASSUME loopCall'.pc = "reading"
                 PROVE  WaitIsForLast'
    BY DEF WaitIsForLast
  <2>2. loopCall'.rid = fresh /\ loopCall'.frame = sent' /\ command_seq' = command_seq + 1
    BY <1>1, <1>7, <2>1
  <2>3. \A f \in Holds(toDevice') : f.rid = fresh => f.frame = sent'
    BY <1>1, <1>4, <1>6, <1>9, <1>10
  <2>4. \A l \in Holds(toHost') : l.rid # fresh
    BY <1>1, <1>9, <1>10
  <2>5. Given(loopCall.rid)' /\ loopCall'.rid # NoRid
    BY <1>2, <1>11, <2>2 DEF Given
  <2> QED
    BY <2>2, <2>3, <2>4, <2>5 DEF WaitIsForLast, Given
<1> QED
  BY <1>8, <1>13, <1>14, <1>15 DEF SerialInv

\* The device takes a frame or the wire loses it: the queue moves up.
LEMMA QueueMoves ==
  ASSUME SerialInv, toDevice # <<>>, toDevice' = Tail(toDevice)
  PROVE  /\ Head(toDevice) \in Frames /\ Head(toDevice) \in Holds(toDevice)
         /\ toDevice' \in Seq(Frames) /\ Len(toDevice') <= MaxLines
         /\ Holds(toDevice') \subseteq Holds(toDevice) /\ FramesInOrder'
         /\ Head(toDevice).frame = sent => toDevice' = <<>>
<1>0. /\ toDevice \in Seq(Frames) /\ MaxLines \in Nat /\ Len(toDevice) <= MaxLines
      /\ sent \in Nat /\ MaxFrames \in Nat
  BY SerialFacts DEF SerialInv, SerialTypes
<1>1. /\ Head(toDevice) \in Holds(toDevice) /\ Holds(toDevice) \subseteq Frames
      /\ Tail(toDevice) \in Seq(Frames) /\ Holds(Tail(toDevice)) \subseteq Holds(toDevice)
      /\ Len(toDevice) \in Nat \ {0} /\ Len(Tail(toDevice)) = Len(toDevice) - 1
  BY <1>0, QueueFacts
<1>2. /\ Head(toDevice) = toDevice[1] /\ DOMAIN toDevice = 1 .. Len(toDevice)
      /\ \A i \in 1 .. Len(toDevice) - 1 : Tail(toDevice)[i] = toDevice[i + 1]
  BY <1>0
<1>3. Len(toDevice') = Len(toDevice) - 1 /\ Len(toDevice') <= MaxLines
  BY <1>0, <1>1
<1>4. FramesInOrder'
  <2>1. ASSUME NEW i \in 1 .. Len(toDevice'), NEW j \in 1 .. Len(toDevice'), i < j
        PROVE  toDevice'[i].frame < toDevice'[j].frame
    <3>1. /\ i + 1 \in 1 .. Len(toDevice) /\ j + 1 \in 1 .. Len(toDevice) /\ i + 1 < j + 1
          /\ i \in 1 .. Len(toDevice) - 1 /\ j \in 1 .. Len(toDevice) - 1
      BY <1>1, <1>3, <2>1
    <3>2. toDevice[i + 1].frame < toDevice[j + 1].frame
      BY <3>1 DEF SerialInv, FramesInOrder
    <3> QED
      BY <1>2, <3>1, <3>2
  <2> QED
    BY <2>1 DEF FramesInOrder
<1>5. ASSUME Head(toDevice).frame = sent
      PROVE  toDevice' = <<>>
  <2>1. SUFFICES ASSUME Len(toDevice) > 1
                 PROVE  FALSE
    <3>1. ~(Len(toDevice) > 1) => Len(toDevice') = 0
      BY <1>1, <1>3
    <3>2. Len(toDevice') = 0 => toDevice' = <<>>
      BY <1>1
    <3> QED
      BY <3>1, <3>2
  <2>2. 1 \in 1 .. Len(toDevice) /\ 2 \in 1 .. Len(toDevice)
    BY <1>1, <2>1
  <2>3. toDevice[1].frame < toDevice[2].frame
    BY <2>2 DEF SerialInv, FramesInOrder
  <2>4. toDevice[2] \in Holds(toDevice) /\ toDevice[2].frame <= sent /\ toDevice[2].frame \in Nat
    <3>1. toDevice[2] \in Holds(toDevice)
      BY <1>2, <2>2 DEF Holds
    <3> QED
      BY <1>0, <1>1, <3>1 DEF SerialInv, IdsAreGiven, Frames
  <2> QED
    BY <1>0, <1>2, <1>5, <2>3, <2>4
<1> QED
  BY <1>1, <1>3, <1>4, <1>5

\* While a frame is under way, nothing on the line acknowledges the command waited for.
LEMMA NoAckYet ==
  ASSUME SerialInv, toDevice # <<>>, loopCall.pc = "reading"
  PROVE  \A l \in Holds(toHost) : ~(l.kind = "ack" /\ l.rid = loopCall.rid)
  BY DEF SerialInv, WaitIsForLast

\* The device takes a frame, and acknowledges it.
LEMMA DeviceSteps ==
  ASSUME SerialInv, WireLosesCommand \/ \E ok \in BOOLEAN : DeviceTakesCommand(ok)
  PROVE  SerialInv'
<1>0. /\ SerialTypes /\ toHost \in Seq(Lines) /\ Len(toHost) \in Nat /\ Len(toHost) <= MaxLines
      /\ MaxLines \in Nat /\ MaxFrames \in Nat
  BY SerialFacts DEF SerialInv, SerialTypes
<1>1. /\ toDevice # <<>> /\ toDevice' = Tail(toDevice)
      /\ UNCHANGED <<loopCall, sent, command_seq, clock, reboots>>
  BY DEF WireLosesCommand, DeviceTakesCommand
<1>f. PICK f : f = Head(toDevice)
  OBVIOUS
<1>2. /\ f \in Frames /\ f \in Holds(toDevice)
      /\ toDevice' \in Seq(Frames) /\ Len(toDevice') <= MaxLines
      /\ Holds(toDevice') \subseteq Holds(toDevice) /\ FramesInOrder'
      /\ f.frame = sent => toDevice' = <<>>
  BY <1>1, <1>f, QueueMoves
<1>3. \A r : Given(r) => Given(r)'
  BY <1>1 DEF Given
<1>4. \A g \in Holds(toDevice') : Given(g.rid)' /\ g.frame <= sent'
  BY <1>1, <1>2, <1>3 DEF SerialInv, IdsAreGiven
<1>5. ASSUME toHost' \in Seq(Lines), Len(toHost') <= MaxLines,
             heldFrame' \in 0 .. MaxFrames, refused' \subseteq 1 .. MaxFrames,
             \A l \in Holds(toHost') : l \in Holds(toHost) \/
                /\ l.rid = f.rid
                /\ IF l.ok THEN heldFrame' = f.frame ELSE f.frame \in refused'
      PROVE  SerialInv'
  <2>1. SerialTypes'
    BY <1>0, <1>1, <1>2, <1>5 DEF SerialTypes
  <2>2. Given(f.rid) /\ \A l \in Holds(toHost) : Given(l.rid)
    BY <1>2 DEF SerialInv, IdsAreGiven
  <2>3. \A l \in Holds(toHost') : Given(l.rid)'
    BY <1>3, <1>5, <2>2
  <2>4. IdsAreGiven'
    BY <1>4, <2>3 DEF IdsAreGiven, Given
  <2>5. ASSUME loopCall'.pc = "reading"
        PROVE  WaitIsForLast'
    <3>0. loopCall.pc = "reading" /\ loopCall' = loopCall /\ sent' = sent
      BY <1>1, <2>5
    <3>1. /\ loopCall.frame = sent /\ loopCall.rid # NoRid /\ Given(loopCall.rid)
          /\ \A g \in Holds(toDevice) : g.rid = loopCall.rid => g.frame = sent
      BY <3>0 DEF SerialInv, WaitIsForLast
    <3>2. Given(loopCall.rid)'
      BY <1>1, <3>1 DEF Given
    <3>3. ASSUME NEW l \in Holds(toHost'), l.kind = "ack", l.rid = loopCall.rid
          PROVE  toDevice' = <<>> /\ IF l.ok THEN heldFrame' = sent ELSE sent \in refused'
      <4>1. l \notin Holds(toHost)
        BY <1>1, <3>0, <3>3, NoAckYet
      <4>2. f.frame = sent
        BY <1>2, <1>5, <3>1, <3>3, <4>1
      <4> QED
        BY <1>2, <1>5, <3>3, <4>1, <4>2
    <3>4. \A g \in Holds(toDevice') : g.rid = loopCall'.rid => g.frame = sent'
      BY <1>2, <3>0, <3>1
    <3> QED
      BY <3>0, <3>1, <3>2, <3>3, <3>4 DEF WaitIsForLast
  <2>6. WaitIsForLast'
    BY <2>5 DEF WaitIsForLast
  <2> QED
    BY <1>2, <2>1, <2>4, <2>6 DEF SerialInv
<1>6. CASE WireLosesCommand
  <2>1. UNCHANGED <<toHost, heldFrame, refused>>
    BY <1>6 DEF WireLosesCommand
  <2>2. heldFrame' \in 0 .. MaxFrames /\ refused' \subseteq 1 .. MaxFrames
    BY <1>0, <2>1 DEF SerialTypes
  <2> QED
    BY <1>0, <1>5, <2>1, <2>2
<1>7. ASSUME NEW ok \in BOOLEAN, DeviceTakesCommand(ok)
      PROVE  SerialInv'
  <2>1. /\ heldFrame' = IF ok THEN f.frame ELSE heldFrame
        /\ refused' = IF ok THEN refused ELSE refused \cup {f.frame}
        /\ Emit(IF f.rid = NoRid THEN <<>> ELSE <<AckLine(f.rid, ok)>>)
    BY <1>7, <1>f DEF DeviceTakesCommand
  <2>2. f.rid \in Rids /\ f.frame \in 1 .. MaxFrames /\ f.frame \in 0 .. MaxFrames
    BY <1>0, <1>2 DEF Frames
  <2>3. heldFrame' \in 0 .. MaxFrames /\ refused' \subseteq 1 .. MaxFrames
    BY <1>0, <2>1, <2>2 DEF SerialTypes
  <2>4. IF ok THEN heldFrame' = f.frame ELSE f.frame \in refused'
    BY <2>1
  <2>x. PICK x : x = AckLine(f.rid, ok)
    OBVIOUS
  <2>5. x \in Lines /\ x.rid = f.rid /\ x.ok = ok
    BY <2>2, <2>x DEF AckLine, Lines
  <2>6. toHost' = toHost \/ (Len(toHost) < MaxLines /\ toHost' = toHost \o <<x>>)
    <3>1. toHost \o <<>> = toHost
      BY <1>0, QueueFacts
    <3> QED
      BY <2>1, <2>x, <3>1 DEF Emit
  <2>7. CASE toHost' = toHost
    BY <1>0, <1>5, <2>3, <2>7
  <2>8. CASE Len(toHost) < MaxLines /\ toHost' = toHost \o <<x>>
    <3>1. /\ toHost' \in Seq(Lines) /\ Len(toHost') = Len(toHost) + 1
          /\ Holds(toHost') \subseteq Holds(toHost) \cup {x}
      BY <1>0, <2>5, <2>8, QueueFacts
    <3>2. Len(toHost') <= MaxLines
      BY <1>0, <2>8, <3>1
    <3>3. \A l \in Holds(toHost') : l \in Holds(toHost) \/
             /\ l.rid = f.rid
             /\ IF l.ok THEN heldFrame' = f.frame ELSE f.frame \in refused'
      BY <2>4, <2>5, <3>1
    <3> QED
      BY <1>5, <2>3, <3>1, <3>2, <3>3
  <2> QED
    BY <2>6, <2>7, <2>8
<1> QED
  BY <1>6, <1>7

\* Time passes, and the daemon restarts: every id given is then an older one.
LEMMA ClockSteps ==
  ASSUME SerialInv, ClockAdvances \/ Reboot
  PROVE  SerialInv'
<1>0. /\ SerialTypes /\ clock \in Nat /\ clock < MaxClock /\ clock' = clock + 1 /\ MaxClock \in Nat
      /\ command_seq' \in {command_seq, 0} /\ command_seq \in Nat /\ sent \in Nat /\ command_seq <= sent
      /\ MaxFrames \in Nat /\ reboots \in Nat /\ MaxReboots \in Nat
      /\ UNCHANGED <<sent, toDevice, toHost, heldFrame, refused>>
  BY SerialFacts DEF SerialInv, SerialTypes, ClockAdvances, Reboot
<1>1. /\ loopCall' \in Waits
      /\ loopCall'.pc = "reading" => loopCall' = loopCall
      /\ reboots' \in 0 .. MaxReboots
  <2>1. CASE ClockAdvances
    BY <1>0, <2>1 DEF ClockAdvances, SerialTypes
  <2>2. CASE Reboot
    BY <1>0, <2>2, SerialFacts DEF Reboot, SerialTypes
  <2> QED
    BY <2>1, <2>2
<1>2. SerialTypes'
  <2>1. clock' \in 0 .. MaxClock /\ command_seq' \in 0 .. MaxFrames /\ command_seq' <= sent'
    BY <1>0 DEF SerialTypes
  <2> QED
    BY <1>0, <1>1, <2>1 DEF SerialTypes
<1>3. ASSUME NEW r \in Rids, Given(r)
      PROVE  Given(r)'
  <2>1. CASE r = NoRid
    BY <2>1 DEF Given
  <2>2. CASE r # NoRid
    <3>1. r[1] \in Nat /\ (r[1] < clock \/ r[1] = clock)
      BY <1>3, <2>2, RidParts DEF Given
    <3>2. r[1] < clock'
      BY <1>0, <3>1
    <3> QED
      BY <3>2 DEF Given
  <2> QED
    BY <2>1, <2>2
<1>4. /\ \A f \in Holds(toDevice) : f.rid \in Rids /\ Given(f.rid) /\ f.frame <= sent
      /\ \A l \in Holds(toHost) : l.rid \in Rids /\ Given(l.rid)
  <2>1. (\A f \in Holds(toDevice) : f \in Frames) /\ \A l \in Holds(toHost) : l \in Lines
    BY <1>0, QueueFacts DEF SerialTypes
  <2> QED
    BY <2>1 DEF SerialInv, IdsAreGiven, Frames, Lines
<1>5. IdsAreGiven'
  <2>1. /\ \A f \in Holds(toDevice') : Given(f.rid)' /\ f.frame <= sent'
        /\ \A l \in Holds(toHost') : Given(l.rid)'
    BY <1>0, <1>3, <1>4
  <2> QED
    BY <2>1 DEF IdsAreGiven, Given
<1>6. FramesInOrder'
  BY <1>0 DEF SerialInv, FramesInOrder
<1>7. WaitIsForLast'
  <2>1. CASE loopCall'.pc = "reading"
    <3>1. loopCall' = loopCall /\ loopCall.rid \in Rids /\ Given(loopCall.rid)
      BY <1>0, <1>1, <2>1 DEF SerialInv, WaitIsForLast, SerialTypes, Waits
    <3>2. Given(loopCall.rid)'
      BY <1>3, <3>1 DEF Given
    <3> QED
      BY <1>0, <2>1, <3>1, <3>2 DEF SerialInv, WaitIsForLast
  <2>2. CASE loopCall'.pc # "reading"
    BY <2>2 DEF WaitIsForLast
  <2> QED
    BY <2>1, <2>2
<1> QED
  BY <1>2, <1>5, <1>6, <1>7 DEF SerialInv

\* The invariant of the serial line.
LEMMA SerialInvariant == SerialSpec => []SerialInv
<1>1. ASSUME SerialInit
      PROVE  SerialInv
  <2>1. /\ <<>> \in Seq(Frames) /\ <<>> \in Seq(Lines) /\ Len(<<>>) = 0 /\ Holds(<<>>) = {}
    BY DEF Holds
  <2>2. SerialTypes
    BY <1>1, <2>1, SerialFacts DEF SerialInit, SerialTypes
  <2> QED
    BY <1>1, <2>1, <2>2, SerialFacts DEF SerialInit, SerialInv, IdsAreGiven, FramesInOrder, WaitIsForLast
<1>2. ASSUME SerialInv, [SerialNext]_serialVars
      PROVE  SerialInv'
  <2>1. CASE UNCHANGED serialVars
    BY <1>2, <2>1 DEF serialVars, SerialInv, SerialTypes, IdsAreGiven, FramesInOrder, WaitIsForLast, Given
  <2>2. CASE \/ Handshake \/ WindowCloses \/ read_sample \/ WireHurtsAck
             \/ \E kind \in {"sample", "noise"} : DeviceTalks(kind)
    BY <1>2, <2>2, HostSideSteps
  <2>3. CASE WireLosesCommand \/ \E ok \in BOOLEAN : DeviceTakesCommand(ok)
    BY <1>2, <2>3, DeviceSteps
  <2> QED
    BY <1>2, <2>1, <2>2, <2>3, SendSteps, ClockSteps DEF SerialNext
<1> QED
  BY <1>1, <1>2, PTL DEF SerialSpec

(***************************************************************************)
(* The answer the loop acts on is about the command it just sent, for any  *)
(* number of frames, lines on the wire and restarts, with acknowledgements *)
(* lost, doubled and late (Esp32SerialDevice::write_targets_acknowledged). *)
(***************************************************************************)
THEOREM AnswersAreAboutTheCommand == SerialSpec => AnswerIsAboutThisCommand
<1>1. ASSUME SerialInv, [SerialNext]_serialVars
      PROVE  [loopCall.pc = "reading" /\ loopCall'.pc = "idle" =>
                /\ loopCall'.status = "confirmed" => heldFrame = loopCall.frame
                /\ loopCall'.status = "rejected" => loopCall.frame \in refused]_serialVars
  <2>0. SUFFICES ASSUME loopCall.pc = "reading", loopCall'.pc = "idle"
                 PROVE  /\ loopCall'.status = "confirmed" => heldFrame = loopCall.frame
                        /\ loopCall'.status = "rejected" => loopCall.frame \in refused
    OBVIOUS
  <2>1. loopCall \in Waits /\ toHost \in Seq(Lines)
    BY <1>1 DEF SerialInv, SerialTypes
  <2>2. CASE Handshake
    <3>1. CASE loopCall.expired
      <4>1. loopCall'.status = "timeout"
        BY <2>1, <2>2, <3>1 DEF Handshake, Finish, Waits
      <4> QED
        BY <4>1
    <3>2. CASE ~loopCall.expired
      <4>1. TakeLine /\ toHost # <<>>
        BY <2>2, <3>2 DEF Handshake, TakeLine
      <4>2. Head(toHost) \in Holds(toHost) /\ Head(toHost) \in Lines
        BY <2>1, <4>1, QueueFacts
      <4>3. Head(toHost).kind = "ack" /\ Head(toHost).rid = loopCall.rid
        BY <2>0, <4>1 DEF TakeLine
      <4>4. loopCall'.status = IF Head(toHost).ok THEN "confirmed" ELSE "rejected"
        BY <2>1, <4>1, <4>3 DEF TakeLine, Finish, Waits
      <4>5. /\ loopCall.frame = sent
            /\ IF Head(toHost).ok THEN heldFrame = sent ELSE sent \in refused
        BY <1>1, <2>0, <4>2, <4>3 DEF SerialInv, WaitIsForLast
      <4> QED
        BY <4>4, <4>5
    <3> QED
      BY <3>1, <3>2
  <2>3. CASE Reboot
    BY <2>3 DEF Reboot, NotCalling
  <2>4. CASE WindowCloses
    <3>1. loopCall'.pc = loopCall.pc
      BY <2>1, <2>4 DEF WindowCloses, Waits
    <3> QED
      BY <2>0, <3>1
  <2>5. CASE SendWithRid \/ SendPlain
    BY <2>0, <2>5 DEF SendWithRid, SendPlain, CanSend, PortFree
  <2>6. CASE loopCall' = loopCall
    BY <2>0, <2>6
  <2> QED
    BY <1>1, <2>2, <2>3, <2>4, <2>5, <2>6
       DEF SerialNext, serialVars, read_sample, DeviceTakesCommand, DeviceTalks, WireLosesCommand,
           WireHurtsAck, ClockAdvances
<1> QED
  BY <1>1, SerialInvariant, PTL DEF SerialSpec, AnswerIsAboutThisCommand
-----------------------------------------------------------------------------
(* The Modbus TCP server: register writes and connection slots.            *)

ServerPcs == {"away", "backlog", "accepted", "handshake", "header", "pdu", "apply",
              "audit", "commit", "respond", "reject"}
ServerCalls == [pc : ServerPcs, register : Registers \cup {"none"}, raw : Raws \cup {0},
                seen : [Registers -> Nat], gen : Nat]

ServerTypes ==
    /\ conns \in [Clients -> ServerCalls]
    /\ accepted \in Clients \cup {Nobody} /\ silent \subseteq Clients
    /\ regs \in [Registers -> Nat]
    /\ barrier \in [on : BOOLEAN, gen : Nat] /\ autoReg \in BOOLEAN /\ writes \in Nat

\* A call that applies a write names a register; past its checks, a value the register may take.
WritesAreChecked ==
    \A c \in Clients :
        /\ conns[c].pc \in {"apply", "audit", "commit"} =>
              conns[c].register \in Registers /\ conns[c].raw \in Raws
        /\ conns[c].pc \in {"audit", "commit"} =>
              Decoded(conns[c].register, conns[c].raw) >= 0

ServerInv == ServerTypes /\ WritesAreChecked

\* Steps a write can hit: wider than the hundredth a target is rounded to, or that grid itself.
StepsAreOnTheGrid ==
    \A r \in Registers :
        /\ Scale[r] \in Nat /\ Offset[r] \in Int
        /\ Scale[r] > 10 \/ (Scale[r] = 10 /\ Offset[r] % 10 = 0)

\* Rounding to hundredths moves a value by half a hundredth at most, upward on a tie.
LEMMA CentsAreNear ==
  ASSUME NEW v \in Int
  PROVE  /\ RoundToCents(v) \in Int
         /\ RoundToCents(v) - v <= 5 /\ v - RoundToCents(v) < 5
         /\ v >= 0 => RoundToCents(v) \in Nat
         /\ v % 10 = 0 => RoundToCents(v) = v
<1> DEFINE q == (2 * v + 10) \div 20
<1>1. q \in Int /\ 20 * q <= 2 * v + 10 /\ 2 * v + 10 < 20 * q + 20
  OBVIOUS
<1>2. RoundToCents(v) = 10 * q
  BY DEF RoundToCents, Nearest
<1> HIDE DEF q
<1>3. v >= 0 => q >= 0
  BY <1>1
<1>4. v % 10 = 0 => 10 * q = v
  <2>1. v % 10 = 0 => 10 * (v \div 10) = v
    OBVIOUS
  <2>2. v \div 10 \in Int
    OBVIOUS
  <2> QED
    BY <1>1, <2>1, <2>2
<1> QED
  BY <1>1, <1>2, <1>3, <1>4

\* The quotient nearest to a value within half a divisor of a multiple is that multiple.
LEMMA NearestOfMultiple ==
  ASSUME NEW n \in Int, NEW d \in Nat \ {0}, NEW k \in Int,
         -d <= 2 * (n - k * d), 2 * (n - k * d) < d
  PROVE  Nearest(n, d) = k
<1> DEFINE q == (2 * n + d) \div (2 * d)
<1>1. 2 * n + d \in Int /\ 2 * d \in Nat \ {0}
  OBVIOUS
<1>2. q \in Int /\ (2 * d) * q <= 2 * n + d /\ 2 * n + d < (2 * d) * q + 2 * d
  BY <1>1, Division
<1>3. Nearest(n, d) = q
  BY DEF Nearest
<1> HIDE DEF q
<1>4. q < k => d * q + d <= k * d
  <2>1. ASSUME NEW i \in Nat
        PROVE  d * i >= 0
    OBVIOUS
  <2>2. q < k => k - q - 1 \in Nat
    BY <1>2
  <2>3. d * (k - q - 1) = k * d - d * q - d
    BY <1>2
  <2> QED
    BY <1>2, <2>1, <2>2, <2>3
<1>5. q > k => d * q >= k * d + d
  <2>1. ASSUME NEW i \in Nat
        PROVE  d * i >= 0
    OBVIOUS
  <2>2. q > k => q - k - 1 \in Nat
    BY <1>2
  <2>3. d * (q - k - 1) = d * q - k * d - d
    BY <1>2
  <2> QED
    BY <1>2, <2>1, <2>2, <2>3
<1>6. (2 * d) * q = 2 * (d * q) /\ d * q \in Int /\ k * d \in Int
  BY <1>2
<1> QED
  BY <1>2, <1>3, <1>4, <1>5, <1>6

\* A raw value survives scaling, rounding to hundredths and encoding.
LEMMA RawSurvives ==
  ASSUME StepsAreOnTheGrid, NEW r \in Registers, NEW raw \in Raws
  PROVE  encode_modbus_raw(r, RoundToCents(Decoded(r, raw))) = raw
<1> DEFINE s == Scale[r]
           o == Offset[r]
           v == Decoded(r, raw)
<1>1. s \in Nat \ {0} /\ o \in Int /\ raw \in Nat /\ (s > 10 \/ (s = 10 /\ o % 10 = 0))
  BY ServerConstants DEF StepsAreOnTheGrid
<1>2. v = raw * s + o
  BY DEF Decoded
<1>3. encode_modbus_raw(r, RoundToCents(v)) = Nearest(RoundToCents(v) - o, s)
  BY DEF encode_modbus_raw
<1> HIDE DEF s, o, v
<1>4. raw * s \in Int /\ v \in Int
  BY <1>1, <1>2
<1>5. RoundToCents(v) \in Int /\ RoundToCents(v) - v <= 5 /\ v - RoundToCents(v) < 5
      /\ (v % 10 = 0 => RoundToCents(v) = v)
  BY <1>4, CentsAreNear
<1>6. s = 10 /\ o % 10 = 0 => RoundToCents(v) = v
  <2>1. s = 10 /\ o % 10 = 0 => (raw * 10 + o) % 10 = 0
    BY <1>1
  <2> QED
    BY <1>2, <1>5, <2>1
<1>7. -s <= 2 * ((RoundToCents(v) - o) - raw * s) /\ 2 * ((RoundToCents(v) - o) - raw * s) < s
  <2>1. (RoundToCents(v) - o) - raw * s = RoundToCents(v) - v
    BY <1>1, <1>2, <1>4, <1>5
  <2> QED
    BY <1>1, <1>4, <1>5, <1>6, <2>1
<1>8. Nearest(RoundToCents(v) - o, s) = raw
  <2>1. RoundToCents(v) - o \in Int /\ raw \in Int
    BY <1>1, <1>5
  <2> QED
    BY <1>1, <1>7, <2>1, NearestOfMultiple
<1> QED
  BY <1>3, <1>8 DEF v
\* What Step changes of a client's call: its pc only.
LEMMA StepFacts ==
  ASSUME ServerTypes, NEW c \in Clients, NEW pc \in ServerPcs, Step(c, pc)
  PROVE  /\ conns' \in [Clients -> ServerCalls]
         /\ \A d \in Clients : d # c => conns'[d] = conns[d]
         /\ conns'[c].pc = pc
         /\ conns'[c].register = conns[c].register /\ conns'[c].raw = conns[c].raw
<1>1. conns \in [Clients -> ServerCalls] /\ conns[c] \in ServerCalls
  BY DEF ServerTypes
<1>2. conns' = [conns EXCEPT ![c] = [conns[c] EXCEPT !.pc = pc]]
  BY <1>1 DEF Step
<1> DEFINE call == [conns[c] EXCEPT !.pc = pc]
<1>3. call \in ServerCalls /\ call.pc = pc /\ call.register = conns[c].register
      /\ call.raw = conns[c].raw
  BY <1>1 DEF ServerCalls
<1>4. conns' = [conns EXCEPT ![c] = call]
  BY <1>2
<1> HIDE DEF call
<1> QED
  BY <1>1, <1>3, <1>4

\* A client's call replaced as a whole.
LEMMA ReplaceFacts ==
  ASSUME ServerTypes, NEW c \in Clients, NEW call \in ServerCalls,
         conns' = [conns EXCEPT ![c] = call]
  PROVE  /\ conns' \in [Clients -> ServerCalls] /\ conns'[c] = call
         /\ \A d \in Clients : d # c => conns'[d] = conns[d]
BY DEF ServerTypes

\* Only the call that took the step needs its checks looked at again.
LEMMA ChecksCarry ==
  ASSUME WritesAreChecked, NEW c \in Clients,
         \A d \in Clients : d # c => conns'[d] = conns[d],
         conns'[c].pc \in {"apply", "audit", "commit"} =>
            conns'[c].register \in Registers /\ conns'[c].raw \in Raws,
         conns'[c].pc \in {"audit", "commit"} =>
            Decoded(conns'[c].register, conns'[c].raw) >= 0
  PROVE  WritesAreChecked'
<1> SUFFICES ASSUME NEW d \in Clients
             PROVE  /\ conns'[d].pc \in {"apply", "audit", "commit"} =>
                          conns'[d].register \in Registers /\ conns'[d].raw \in Raws
                    /\ conns'[d].pc \in {"audit", "commit"} =>
                          Decoded(conns'[d].register, conns'[d].raw) >= 0
  BY DEF WritesAreChecked, Decoded
<1>1. CASE d = c
  BY <1>1
<1>2. CASE d # c
  BY <1>2 DEF WritesAreChecked
<1> QED
  BY <1>1, <1>2

\* The connection at rest.
LEMMA AwayFacts ==
  /\ Away \in ServerCalls /\ Away.pc = "away"
  /\ [Away EXCEPT !.pc = "header"] \in ServerCalls /\ [Away EXCEPT !.pc = "header"].pc = "header"
BY DEF Away, ServerCalls, ServerPcs

\* The invariant holds at startup.
LEMMA ServerInvInit == ServerInit => ServerInv
<1> SUFFICES ASSUME ServerInit
             PROVE  ServerInv
  OBVIOUS
<1>1. ServerTypes
  BY AwayFacts DEF ServerInit, ServerTypes
<1>2. WritesAreChecked
  BY AwayFacts DEF ServerInit, WritesAreChecked
<1> QED
  BY <1>1, <1>2 DEF ServerInv

\* Connecting, reading a frame, answering and leaving.
LEMMA ConnectionSteps ==
  ASSUME ServerInv, NEW c \in Clients,
         \/ Connect(c) \/ Accept(c) \/ CompleteHandshake(c) \/ Drop(c)
         \/ ReadHeader(c) \/ ReadPdu(c) \/ Respond(c) \/ GoSilent(c)
  PROVE  ServerInv'
<1>0. ServerTypes /\ WritesAreChecked
  BY DEF ServerInv
<1>1. ASSUME NEW pc \in ServerPcs \ {"apply", "audit", "commit"}, Step(c, pc),
             KeepTargets, accepted' \in Clients \cup {Nobody}, silent' \subseteq Clients
      PROVE  ServerInv'
  <2>1. /\ conns' \in [Clients -> ServerCalls] /\ conns'[c].pc = pc
        /\ \A d \in Clients : d # c => conns'[d] = conns[d]
    BY <1>0, <1>1, StepFacts
  <2>2. ServerTypes'
    BY <1>0, <1>1, <2>1 DEF ServerTypes, KeepTargets
  <2>3. WritesAreChecked'
    BY <1>0, <1>1, <2>1, ChecksCarry
  <2> QED
    BY <2>2, <2>3 DEF ServerInv
<1>2. ASSUME NEW call \in ServerCalls, conns' = [conns EXCEPT ![c] = call], KeepTargets,
             call.pc = "apply" => call.register \in Registers /\ call.raw \in Raws,
             call.pc \notin {"audit", "commit"},
             accepted' = accepted, silent' = silent
      PROVE  ServerInv'
  <2>1. /\ conns' \in [Clients -> ServerCalls] /\ conns'[c] = call
        /\ \A d \in Clients : d # c => conns'[d] = conns[d]
    BY <1>0, <1>2, ReplaceFacts
  <2>2. ServerTypes'
    BY <1>0, <1>2, <2>1 DEF ServerTypes, KeepTargets
  <2>3. WritesAreChecked'
    BY <1>0, <1>2, <2>1, ChecksCarry
  <2> QED
    BY <2>2, <2>3 DEF ServerInv
<1>3. CASE Connect(c) \/ Accept(c) \/ CompleteHandshake(c) \/ ReadHeader(c)
  BY <1>0, <1>1, <1>3
     DEF Connect, Accept, CompleteHandshake, ReadHeader, ServerPcs, ServerTypes
<1>4. CASE Drop(c)
  BY <1>2, <1>4, AwayFacts DEF Drop
<1>5. CASE Respond(c)
  <2>1. \/ conns' = [conns EXCEPT ![c] = Away]
        \/ conns' = [conns EXCEPT ![c] = [Away EXCEPT !.pc = "header"]]
    BY <1>5 DEF Respond
  <2> QED
    BY <1>2, <1>5, <2>1, AwayFacts DEF Respond
<1>6. CASE ReadPdu(c)
  <2>1. CASE Step(c, "respond")
    BY <1>0, <1>1, <1>6, <2>1 DEF ReadPdu, ServerPcs, ServerTypes
  <2>2. CASE ~Step(c, "respond")
    <3>1. PICK r \in Registers, raw \in Raws :
             conns' = [conns EXCEPT ![c] =
                [pc |-> "apply", register |-> r, raw |-> raw, seen |-> regs, gen |-> 0]]
      BY <1>6, <2>2 DEF ReadPdu
    <3> DEFINE call == [pc |-> "apply", register |-> r, raw |-> raw, seen |-> regs, gen |-> 0]
    <3>2. call \in ServerCalls /\ call.pc = "apply" /\ call.register = r /\ call.raw = raw
      BY <1>0 DEF ServerCalls, ServerPcs, ServerTypes
    <3>3. conns' = [conns EXCEPT ![c] = call]
      BY <3>1
    <3> HIDE DEF call
    <3> QED
      BY <1>2, <1>6, <3>2, <3>3 DEF ReadPdu
  <2> QED
    BY <2>1, <2>2
<1>7. CASE GoSilent(c)
  <2>1. ServerTypes'
    BY <1>0, <1>7 DEF GoSilent, ServerTypes, KeepTargets
  <2>2. WritesAreChecked'
    BY <1>0, <1>7 DEF GoSilent, WritesAreChecked, Decoded
  <2> QED
    BY <2>1, <2>2 DEF ServerInv
<1> QED
  BY <1>3, <1>4, <1>5, <1>6, <1>7
\* What a checked write asks for is a value a target may hold.
LEMMA RequestedFacts ==
  ASSUME StepsAreOnTheGrid, WritesAreChecked, NEW c \in Clients,
         conns[c].pc \in {"audit", "commit"}
  PROVE  Requested(c) \in Nat
<1>0. conns[c].register \in Registers /\ conns[c].raw \in Raws
      /\ Decoded(conns[c].register, conns[c].raw) >= 0
  BY DEF WritesAreChecked
<1>1. conns[c].register \in Registers /\ conns[c].raw \in Nat
      /\ Decoded(conns[c].register, conns[c].raw) >= 0
  <2>1. \A raw \in Raws : raw \in Nat
    BY ServerConstants
  <2> QED
    BY <1>0, <2>1
<1>2. Decoded(conns[c].register, conns[c].raw) \in Int
  <2>1. Scale[conns[c].register] \in Int /\ Offset[conns[c].register] \in Int
    BY <1>1 DEF StepsAreOnTheGrid
  <2> QED
    BY <1>1, <2>1 DEF Decoded
<1> QED
  BY <1>1, <1>2, CentsAreNear DEF Requested

\* Applying a write: its checks, its audit row and its commit.
LEMMA WriteSteps ==
  ASSUME StepsAreOnTheGrid, ServerInv, NEW c \in Clients, WriteStep(c)
  PROVE  ServerInv'
<1>0. ServerTypes /\ WritesAreChecked /\ conns \in [Clients -> ServerCalls] /\ conns[c] \in ServerCalls
  BY DEF ServerInv, ServerTypes
<1>1. ASSUME NEW pc \in ServerPcs, Step(c, pc),
             pc \in {"apply", "audit", "commit"} => conns[c].pc = "audit"
      PROVE  conns' \in [Clients -> ServerCalls] /\ WritesAreChecked'
  <2>1. /\ conns' \in [Clients -> ServerCalls] /\ conns'[c].pc = pc
        /\ \A d \in Clients : d # c => conns'[d] = conns[d]
        /\ conns'[c].register = conns[c].register /\ conns'[c].raw = conns[c].raw
    BY <1>0, <1>1, StepFacts
  <2>2. WritesAreChecked'
    <3>1. pc \in {"apply", "audit", "commit"} =>
             /\ conns[c].register \in Registers /\ conns[c].raw \in Raws
             /\ Decoded(conns[c].register, conns[c].raw) >= 0
      BY <1>0, <1>1 DEF WritesAreChecked
    <3> QED
      BY <1>0, <2>1, <3>1, ChecksCarry
  <2> QED
    BY <2>1, <2>2
<1>2. CASE ApplyWrite(c)
  <2>0. autoReg' \in BOOLEAN
    BY <1>0, <1>2 DEF ApplyWrite, ServerTypes
  <2>1. CASE Step(c, "respond")
    <3>1. conns' \in [Clients -> ServerCalls] /\ WritesAreChecked'
      BY <1>1, <2>1 DEF ServerPcs
    <3> QED
      BY <1>0, <1>2, <2>0, <3>1 DEF ApplyWrite, ServerInv, ServerTypes
  <2>2. CASE ~Step(c, "respond")
    <3> DEFINE p == "audit"
               call == [conns[c] EXCEPT !.pc = p, !.gen = barrier.gen]
    <3>1. /\ autoReg' = FALSE
          /\ conns' = [conns EXCEPT ![c].pc = p, ![c].gen = barrier.gen]
          /\ Decoded(conns[c].register, conns[c].raw) >= 0
      BY <1>2, <2>2 DEF ApplyWrite, validate_modbus_register_write_value
    <3>2. conns' = [conns EXCEPT ![c] = call]
      BY <1>0, <3>1
    <3>3. p \in {"respond", "audit"}
      OBVIOUS
    <3>4. call \in ServerCalls /\ call.register = conns[c].register /\ call.raw = conns[c].raw
      <4>1. barrier.gen \in Nat
        BY <1>0 DEF ServerTypes
      <4> HIDE DEF p
      <4> QED
        BY <1>0, <3>3, <4>1 DEF ServerCalls, ServerPcs
    <3> HIDE DEF p, call
    <3>5. /\ conns' \in [Clients -> ServerCalls] /\ conns'[c] = call
          /\ \A d \in Clients : d # c => conns'[d] = conns[d]
      BY <1>0, <3>2, <3>4, ReplaceFacts
    <3>6. conns[c].register \in Registers /\ conns[c].raw \in Raws
      BY <1>0, <1>2 DEF ApplyWrite, WritesAreChecked
    <3>7. WritesAreChecked'
      BY <1>0, <3>1, <3>4, <3>5, <3>6, ChecksCarry
    <3> QED
      BY <1>0, <1>2, <3>1, <3>5, <3>7 DEF ApplyWrite, ServerInv, ServerTypes
  <2> QED
    BY <2>1, <2>2
<1>3. CASE AuditRegisterWrite(c)
  <2>1. conns' \in [Clients -> ServerCalls] /\ WritesAreChecked'
    BY <1>1, <1>3 DEF AuditRegisterWrite, ServerPcs
  <2> QED
    BY <1>0, <1>3, <2>1 DEF AuditRegisterWrite, ServerInv, ServerTypes, KeepTargets
<1>4. CASE CommitWrite(c)
  <2>1. conns' \in [Clients -> ServerCalls] /\ WritesAreChecked'
    BY <1>1, <1>4 DEF CommitWrite, ServerPcs
  <2>2. Requested(c) \in Nat
    BY <1>0, <1>4, RequestedFacts DEF CommitWrite
  <2>3. conns[c].seen \in [Registers -> Nat]
    BY <1>0 DEF ServerCalls
  <2>4. regs' \in [Registers -> Nat] /\ writes' \in Nat /\ autoReg' \in BOOLEAN
    <3>1. [conns[c].seen EXCEPT ![conns[c].register] = Requested(c)] \in [Registers -> Nat]
      BY <2>2, <2>3
    <3>2. regs' \in [Registers -> Nat]
      BY <1>0, <1>4, <3>1 DEF CommitWrite, ServerTypes
    <3>3. writes' \in Nat
      BY <1>0, <1>4 DEF CommitWrite, ServerTypes
    <3>4. autoReg' \in BOOLEAN
      BY <1>0, <1>4, Zenon DEF CommitWrite, ServerTypes
    <3> QED
      BY <3>2, <3>3, <3>4
  <2> QED
    BY <1>0, <1>4, <2>1, <2>4 DEF CommitWrite, ServerInv, ServerTypes
<1> QED
  BY <1>2, <1>3, <1>4 DEF WriteStep

\* The slot semaphore, the other writers and the safety latches.
LEMMA SurroundingSteps ==
  ASSUME StepsAreOnTheGrid, ServerInv, AcquireSlot \/ OthersWrite \/ Barrier
  PROVE  ServerInv'
<1>0. ServerTypes /\ WritesAreChecked
  BY DEF ServerInv
<1>1. CASE AcquireSlot
  <2> DEFINE pc == IF RequireTls THEN "handshake" ELSE "header"
  <2>1. accepted \in Clients /\ Step(accepted, pc) /\ accepted' = Nobody
    BY <1>0, <1>1 DEF AcquireSlot, ServerTypes
  <2>2. pc \in {"handshake", "header"} /\ pc \in ServerPcs
    BY DEF ServerPcs
  <2> HIDE DEF pc
  <2>3. /\ conns' \in [Clients -> ServerCalls] /\ conns'[accepted].pc = pc
        /\ \A d \in Clients : d # accepted => conns'[d] = conns[d]
    BY <1>0, <2>1, <2>2, StepFacts
  <2>4. WritesAreChecked'
    <3>1. PICK a \in Clients : a = accepted
      BY <2>1
    <3>2. conns'[a].pc = pc /\ \A d \in Clients : d # a => conns'[d] = conns[d]
      BY <2>3, <3>1
    <3> QED
      BY <1>0, <2>2, <3>2, ChecksCarry
  <2>5. ServerTypes'
    BY <1>0, <1>1, <2>1, <2>3 DEF AcquireSlot, ServerTypes, KeepTargets
  <2> QED
    BY <2>4, <2>5 DEF ServerInv
<1>2. CASE OthersWrite
  <2>1. PICK r \in Registers, raw \in Raws :
           /\ validate_modbus_register_write_value(r, Decoded(r, raw))
           /\ regs' = [regs EXCEPT ![r] = RoundToCents(Decoded(r, raw))]
    BY <1>2 DEF OthersWrite
  <2>2. Decoded(r, raw) \in Int /\ Decoded(r, raw) >= 0
    <3>1. Scale[r] \in Int /\ Offset[r] \in Int /\ raw \in Int
      BY ServerConstants DEF StepsAreOnTheGrid
    <3> QED
      BY <2>1, <3>1 DEF Decoded, validate_modbus_register_write_value
  <2>3. RoundToCents(Decoded(r, raw)) \in Nat
    BY <2>2, CentsAreNear
  <2>4. regs' \in [Registers -> Nat]
    BY <1>0, <2>1, <2>3 DEF ServerTypes
  <2>5. ServerTypes'
    <3>1. autoReg' \in BOOLEAN
      BY <1>0, <1>2, Zenon DEF OthersWrite, ServerTypes
    <3>2. writes' \in Nat
      BY <1>0, <1>2 DEF OthersWrite, ServerTypes
    <3> QED
      BY <1>0, <1>2, <2>4, <3>1, <3>2 DEF OthersWrite, ServerTypes
  <2>6. WritesAreChecked'
    BY <1>0, <1>2 DEF OthersWrite, WritesAreChecked, Decoded
  <2> QED
    BY <2>5, <2>6 DEF ServerInv
<1>3. CASE Barrier
  <2>0. autoReg' \in BOOLEAN
    BY <1>0, <1>3, Zenon DEF Barrier, ServerTypes
  <2>1. barrier' \in [on : BOOLEAN, gen : Nat]
    <3>1. barrier = [on |-> barrier.on, gen |-> barrier.gen] /\ barrier.gen \in Nat
      BY <1>0 DEF ServerTypes
    <3>2. CASE barrier' = [on |-> TRUE, gen |-> barrier.gen + 1]
      BY <3>1, <3>2
    <3>3. CASE barrier' = [barrier EXCEPT !.on = FALSE]
      <4>1. barrier' = [on |-> FALSE, gen |-> barrier.gen]
        BY <3>1, <3>3
      <4> QED
        BY <3>1, <4>1
    <3> QED
      BY <1>3, <3>2, <3>3 DEF Barrier
  <2>2. ServerTypes'
    BY <1>0, <1>3, <2>0, <2>1 DEF Barrier, ServerTypes
  <2>3. WritesAreChecked'
    BY <1>0, <1>3 DEF Barrier, WritesAreChecked, Decoded
  <2> QED
    BY <2>2, <2>3 DEF ServerInv
<1> QED
  BY <1>1, <1>2, <1>3

\* Every reachable state of the server satisfies the invariant.
LEMMA ServerInvariant ==
  ASSUME StepsAreOnTheGrid
  PROVE  ServerSpec => []ServerInv
<1>1. ASSUME ServerInv, [ServerNext]_serverVars
      PROVE  ServerInv'
  <2>1. CASE UNCHANGED serverVars
    BY <1>1, <2>1 DEF serverVars, ServerInv, ServerTypes, WritesAreChecked, Decoded
  <2>2. CASE ServerNext
    BY <1>1, <2>2, ConnectionSteps, WriteSteps, SurroundingSteps DEF ServerNext
  <2> QED
    BY <1>1, <2>1, <2>2
<1> QED
  BY <1>1, ServerInvInit, PTL DEF ServerSpec

(***************************************************************************)
(* A committed register write puts the raw value the client sent into its  *)
(* register and changes no other target, for any number of clients, for    *)
(* every register and every raw value, whatever else writes the targets    *)
(* meanwhile, as long as a register's step is not finer than the hundredth *)
(* that round2 keeps (apply_modbus_register_write, encode_modbus_raw).     *)
(***************************************************************************)
THEOREM WritesChangeTheirRegister ==
  ASSUME StepsAreOnTheGrid
  PROVE  ServerSpec => WriteChangesItsRegister
<1>1. ASSUME ServerInv, [ServerNext]_serverVars
      PROVE  [\A c \in Clients :
                conns[c].pc = "commit" /\ conns'[c].pc = "respond" /\ regs' # regs =>
                  /\ encode_modbus_raw(conns[c].register, regs'[conns[c].register]) = conns[c].raw
                  /\ \A r \in Registers \ {conns[c].register} : regs'[r] = regs[r]]_serverVars
  <2>0. SUFFICES ASSUME NEW c \in Clients, conns[c].pc = "commit", conns'[c].pc = "respond",
                        regs' # regs
                 PROVE  /\ encode_modbus_raw(conns[c].register, regs'[conns[c].register]) = conns[c].raw
                        /\ \A r \in Registers \ {conns[c].register} : regs'[r] = regs[r]
    OBVIOUS
  <2>1. PICK d \in Clients : CommitWrite(d)
    <3>1. ~UNCHANGED conns /\ ~UNCHANGED regs
      BY <2>0
    <3> QED
      BY <1>1, <3>1
         DEF ServerNext, serverVars, WriteStep, KeepTargets, Connect, Accept, CompleteHandshake,
             Drop, ReadHeader, ReadPdu, Respond, GoSilent, ApplyWrite, AuditRegisterWrite,
             AcquireSlot, OthersWrite, Barrier
  <2>2. d = c
    <3>1. d # c => conns'[c] = conns[c]
      BY <1>1, <2>1, StepFacts DEF CommitWrite, ServerInv, ServerPcs
    <3> QED
      BY <2>0, <3>1
  <2>3. /\ regs = conns[c].seen
        /\ regs' = [conns[c].seen EXCEPT ![conns[c].register] = Requested(c)]
    BY <2>0, <2>1, <2>2 DEF CommitWrite
  <2>4. regs \in [Registers -> Nat] /\ conns[c].register \in Registers /\ conns[c].raw \in Raws
    BY <1>1, <2>0 DEF ServerInv, ServerTypes, WritesAreChecked
  <2>5. regs'[conns[c].register] = RoundToCents(Decoded(conns[c].register, conns[c].raw))
    BY <2>3, <2>4 DEF Requested
  <2>6. encode_modbus_raw(conns[c].register, regs'[conns[c].register]) = conns[c].raw
    BY <2>4, <2>5, RawSurvives
  <2> QED
    BY <2>3, <2>4, <2>6
<1> QED
  BY <1>1, ServerInvariant, PTL DEF ServerSpec, WriteChangesItsRegister
\* Connections that hold a slot.
InSlots == {c \in Clients : InSlot(c)}

\* No step but AcquireSlot takes a slot.
LEMMA OnlyAcquireTakesASlot ==
  ASSUME ServerInv, ServerNext, ~AcquireSlot
  PROVE  InSlots' \subseteq InSlots
<1>0. ServerTypes /\ conns \in [Clients -> ServerCalls]
  BY DEF ServerInv, ServerTypes
<1>1. CASE UNCHANGED conns
  BY <1>1 DEF InSlots, InSlot
<1>2. ASSUME NEW c \in Clients, \A d \in Clients : d # c => conns'[d] = conns[d],
             InSlot(c)' => InSlot(c)
      PROVE  InSlots' \subseteq InSlots
  <2>1. ASSUME NEW d \in Clients, InSlot(d)'
        PROVE  InSlot(d)
    <3>1. CASE d = c
      BY <1>2, <2>1, <3>1
    <3>2. CASE d # c
      BY <1>2, <2>1, <3>2 DEF InSlot
    <3> QED
      BY <3>1, <3>2
  <2> QED
    BY <2>1 DEF InSlots
<1>3. ASSUME NEW c \in Clients, NEW pc \in ServerPcs, Step(c, pc),
             pc \in {"away", "backlog", "accepted"} \/ InSlot(c)
      PROVE  InSlots' \subseteq InSlots
  <2>1. conns'[c].pc = pc /\ \A d \in Clients : d # c => conns'[d] = conns[d]
    BY <1>0, <1>3, StepFacts
  <2> QED
    BY <1>2, <1>3, <2>1 DEF InSlot
<1>4. ASSUME NEW c \in Clients, InSlot(c), \E call : conns' = [conns EXCEPT ![c] = call]
      PROVE  InSlots' \subseteq InSlots
  <2>1. \A d \in Clients : d # c => conns'[d] = conns[d]
    BY <1>0, <1>4
  <2> QED
    BY <1>2, <1>4, <2>1
<1>5. ASSUME NEW c \in Clients, Connect(c) \/ Accept(c)
      PROVE  InSlots' \subseteq InSlots
  BY <1>3, <1>5 DEF Connect, Accept, ServerPcs
<1>6. ASSUME NEW c \in Clients,
             CompleteHandshake(c) \/ ReadHeader(c) \/ AuditRegisterWrite(c) \/ CommitWrite(c)
      PROVE  InSlots' \subseteq InSlots
  <2>1. InSlot(c)
    BY <1>6 DEF CompleteHandshake, ReadHeader, AuditRegisterWrite, CommitWrite, InSlot
  <2> QED
    BY <1>3, <1>6, <2>1
       DEF CompleteHandshake, ReadHeader, AuditRegisterWrite, CommitWrite, ServerPcs
<1>7. ASSUME NEW c \in Clients, Drop(c) \/ ReadPdu(c) \/ Respond(c)
      PROVE  InSlots' \subseteq InSlots
  <2>1. InSlot(c)
    BY <1>7 DEF Drop, ReadPdu, Respond, InSlot
  <2>2. CASE Step(c, "respond")
    BY <1>3, <2>1, <2>2 DEF ServerPcs
  <2>3. CASE ~Step(c, "respond")
    <3>1. \E call : conns' = [conns EXCEPT ![c] = call]
      BY <1>7, <2>3 DEF Drop, ReadPdu, Respond
    <3> QED
      BY <1>4, <2>1, <3>1
  <2> QED
    BY <2>2, <2>3
<1>8. ASSUME NEW c \in Clients, ApplyWrite(c)
      PROVE  InSlots' \subseteq InSlots
  <2>1. InSlot(c)
    BY <1>8 DEF ApplyWrite, InSlot
  <2>2. \A d \in Clients : d # c => conns'[d] = conns[d]
    BY <1>0, <1>8 DEF ApplyWrite, Step
  <2> QED
    BY <1>2, <2>1, <2>2
<1> QED
  BY <1>1, <1>5, <1>6, <1>7, <1>8 DEF ServerNext, WriteStep, GoSilent, OthersWrite, Barrier

(***************************************************************************)
(* The server's state is well typed, and no more connections are served    *)
(* than there are permits, for any number of clients that connect, stall   *)
(* and leave (serve: the semaphore of MAX_MODBUS_TCP_CONNECTIONS).         *)
(***************************************************************************)
THEOREM ServerTypeCorrect ==
  ASSUME StepsAreOnTheGrid, IsFiniteSet(Clients)
  PROVE  ServerSpec => []ServerTypeOK
<1> DEFINE Slots == FreeSlots >= 0
<1>0. /\ MaxConnections \in Nat
      /\ InSlots \subseteq Clients /\ IsFiniteSet(InSlots) /\ Cardinality(InSlots) \in Nat
      /\ FreeSlots = MaxConnections - Cardinality(InSlots)
  BY ServerConstants, FS_Subset, FS_CardinalityType DEF InSlots, FreeSlots
<1>0a. /\ InSlots' \subseteq Clients /\ IsFiniteSet(InSlots') /\ Cardinality(InSlots') \in Nat
       /\ FreeSlots' = MaxConnections - Cardinality(InSlots')
  <2>1. InSlots' \subseteq Clients
    BY DEF InSlots
  <2>2. FreeSlots' = MaxConnections - Cardinality(InSlots')
    BY DEF InSlots, FreeSlots
  <2> QED
    BY <2>1, <2>2, FS_Subset, FS_CardinalityType
<1>1. ServerInit => Slots
  <2>1. ServerInit => InSlots = {}
    BY AwayFacts DEF ServerInit, InSlots, InSlot
  <2> QED
    BY <1>0, <2>1, FS_EmptySet
<1>2. ASSUME ServerInv, Slots, [ServerNext]_serverVars
      PROVE  Slots'
  <2>1. CASE InSlots' \subseteq InSlots
    <3>1. Cardinality(InSlots') <= Cardinality(InSlots)
      BY <1>0, <2>1, FS_Subset
    <3> QED
      BY <1>0, <1>0a, <1>2, <3>1
  <2>2. CASE AcquireSlot
    <3>1. accepted \in Clients /\ FreeSlots > 0
      BY <1>2, <2>2 DEF AcquireSlot, ServerInv, ServerTypes
    <3>2. \A d \in Clients : d # accepted => conns'[d] = conns[d]
      BY <1>2, <2>2 DEF AcquireSlot, Step, ServerInv, ServerTypes
    <3>3. InSlots' \subseteq InSlots \cup {accepted}
      BY <3>2 DEF InSlots, InSlot
    <3>4. /\ IsFiniteSet(InSlots \cup {accepted})
          /\ Cardinality(InSlots \cup {accepted}) <= Cardinality(InSlots) + 1
      BY <1>0, FS_AddElement
    <3>5. /\ Cardinality(InSlots') <= Cardinality(InSlots \cup {accepted})
          /\ Cardinality(InSlots \cup {accepted}) \in Nat
      BY <3>3, <3>4, FS_Subset, FS_CardinalityType
    <3>6. Cardinality(InSlots') <= Cardinality(InSlots) + 1
      BY <1>0, <1>0a, <3>4, <3>5
    <3> QED
      BY <1>0, <1>0a, <3>1, <3>6
  <2>3. CASE UNCHANGED serverVars
    <3>1. InSlots' = InSlots
      BY <2>3 DEF serverVars, InSlots, InSlot
    <3> QED
      BY <2>1, <3>1
  <2> QED
    BY <1>2, <2>1, <2>2, <2>3, OnlyAcquireTakesASlot
<1>3. ServerInv /\ Slots => ServerTypeOK
  BY DEF ServerInv, ServerTypes, ServerCalls, ServerPcs, ServerTypeOK
<1> QED
  BY <1>1, <1>2, <1>3, ServerInvariant, PTL DEF ServerSpec
(***************************************************************************)
(* The RTU driver's state is well typed: what is written to a register     *)
(* fits it, and a call is at one of its steps with the command it was      *)
(* given (ModbusRtuDevice).                                                *)
(***************************************************************************)
THEOREM RtuTypeCorrect == ModbusSpec => []ModbusTypeOK
<1>1. RtuTypes => ModbusTypeOK
  <2> SUFFICES ASSUME RtuTypes
               PROVE  ModbusTypeOK
    OBVIOUS
  <2>1. \A x \in Seen : x \in [Axes -> 0 .. RawMax]
    BY DEF Seen, Axes
  <2>2. \A call \in RtuCalls :
           call \in [pc : {"idle", "temp", "stir", "readTemp", "readStir", "compare"},
                     cmd : Commands \cup {NoCommand}, seen : [Axes -> 0 .. RawMax]]
    BY <2>1 DEF RtuCalls
  <2> QED
    BY <2>1, <2>2 DEF RtuTypes, ModbusTypeOK, Sayings
<1> QED
  BY <1>1, RtuInvariant, PTL DEF RtuInv

(***************************************************************************)
(* The serial driver's state is well typed and its wires hold no more than *)
(* MaxLines lines each.                                                    *)
(***************************************************************************)
THEOREM SerialTypeCorrect == SerialSpec => []SerialTypeOK
<1>1. SerialInv => SerialTypeOK
  BY DEF SerialInv, SerialTypes, SerialTypeOK, Waits, Frames, Lines
<1> QED
  BY <1>1, SerialInvariant, PTL

-----------------------------------------------------------------------------
(* The contract of acknowledged commands: Modbus RTU.                      *)

\* Of a call that ended the loop has the answer and waits no longer.
LEMMA RtuAnswers ==
  ASSUME RtuInv, clients["loop"].pc # "idle",
         NEW status \in {"error", "confirmed", "rejected"}, NEW acc \in Pairs,
         Over("loop", status, acc),
         status = "confirmed" => RtuFate = "applied",
         status = "rejected" => RtuFate = "rejected"
  PROVE  RtuAck!Next
<1>1. clients'["loop"].pc = "idle" /\ confirmed'.status = status
  <2>1. RtuTypes /\ OneClient /\ "loop" \in RtuClients
    BY RtuFacts DEF RtuInv
  <2> QED
    BY <2>1, CallOver
<1>2. RtuFate' = "none"
  BY <1>1 DEF RtuFate
<1>3. RtuAck!Answer(status)
  BY <1>1, <1>2 DEF RtuAck!Answer, Waiting
<1> QED
  BY <1>3 DEF RtuAck!Next

\* Nothing happens to the loop's call.
LEMMA RtuLoopRests ==
  ASSUME clients'["loop"] = clients["loop"], confirmed' = confirmed,
         registers' = registers \/ clients["loop"].pc = "idle"
  PROVE  UNCHANGED RtuAck!ack
<1>1. RtuFate' = RtuFate
  BY DEF RtuFate, Raw
<1> QED
  BY <1>1 DEF RtuAck!ack, Waiting

\* A call begins.
LEMMA RtuBeginsAck ==
  ASSUME RtuInv, NEW c \in Commands, BeginAcknowledged(c) \/ BeginPlain(c)
  PROVE  [RtuAck!Next]_(RtuAck!ack)
<1>0. RtuTypes /\ "loop" \in RtuClients /\ "http" \in RtuClients /\ "loop" # "http"
  BY RtuFacts DEF RtuInv
<1>1. CASE BeginAcknowledged(c) /\ Encodable(c)
  <2> DEFINE r == [NoCall EXCEPT !.pc = "temp", !.cmd = c]
  <2>1. r \in RtuCalls /\ r.pc = "temp"
    BY RtuFacts DEF NoCall, RtuCalls
  <2>2. clients' = [clients EXCEPT !["loop"] = r] /\ clients["loop"].pc = "idle"
    BY <1>1 DEF BeginAcknowledged
  <2> HIDE DEF r
  <2>3. clients'["loop"].pc = "temp"
    BY <1>0, <2>1, <2>2, ClientChanges
  <2>4. RtuFate' = "none"
    BY <2>3 DEF RtuFate
  <2>5. RtuAck!Issue
    BY <2>2, <2>3, <2>4 DEF RtuAck!Issue, Waiting
  <2> QED
    BY <2>5 DEF RtuAck!Next
<1>2. CASE BeginAcknowledged(c) /\ ~Encodable(c)
  <2>1. /\ clients' = clients /\ registers' = registers /\ clients["loop"].pc = "idle"
        /\ confirmed' = [NothingSaid EXCEPT !.status = "error", !.cmd = c]
    BY <1>2 DEF BeginAcknowledged
  <2>2. confirmed'.status = "error"
    BY <2>1 DEF NothingSaid
  <2>3. RtuFate' = RtuFate
    BY <2>1 DEF RtuFate, Raw
  <2>4. RtuAck!AnswerAtOnce("error")
    BY <2>1, <2>2, <2>3 DEF RtuAck!AnswerAtOnce, Waiting
  <2> QED
    BY <2>4 DEF RtuAck!Next
<1>3. CASE BeginPlain(c)
  <2>1. clients'["loop"] = clients["loop"] /\ UNCHANGED <<registers, confirmed>>
    BY <1>0, <1>3 DEF BeginPlain, RtuTypes
  <2> QED
    BY <2>1, RtuLoopRests
<1> QED
  BY <1>1, <1>2, <1>3

\* A register is written: the second write decides what became of the loop's command.
LEMMA RtuWritesAck ==
  ASSUME RtuInv, NEW w \in RtuClients, NEW axis \in Axes, WriteRegister(w, axis)
  PROVE  [RtuAck!Next]_(RtuAck!ack)
<1>0. /\ RtuTypes /\ OneClient /\ RtuClients = {"loop", "http"} /\ "loop" # "http"
      /\ Axes = {"temp", "stir"} /\ NoCommand \in Pairs
      /\ clients \in [RtuClients -> RtuCalls] /\ clients[w] \in RtuCalls
  BY RtuFacts DEF RtuInv, RtuTypes
<1>1. /\ clients[w].pc = axis /\ client_lock(w) /\ clients[w].pc # "idle"
  BY RtuFacts DEF WriteRegister
<1>2. \/ Over(w, "error", NoCommand)
      \/ Over(w, "written", NoCommand) /\ axis = "stir" /\ w = "http"
      \/ /\ confirmed' = confirmed
         /\ \/ axis = "temp" /\ clients' = [clients EXCEPT ![w].pc = "stir"]
            \/ axis = "stir" /\ w = "loop" /\ clients' = [clients EXCEPT ![w].pc = "readTemp"]
  BY <1>0 DEF WriteRegister
<1>3. CASE w = "http"
  <2>1. clients["loop"].pc = "idle" /\ clients'["loop"] = clients["loop"]
    BY <1>0, <1>1, <1>2, <1>3 DEF client_lock, Over
  <2>2. CASE confirmed' = confirmed
    BY <2>1, <2>2, RtuLoopRests
  <2>3. ASSUME NEW a \in {"error", "written"}, Over(w, a, NoCommand)
        PROVE  RtuAck!Next
    <3>1. confirmed'.status = a
      BY <2>3 DEF Over
    <3>2. RtuFate' = RtuFate
      BY <2>1 DEF RtuFate
    <3>3. RtuAck!AnswerAtOnce(a)
      BY <2>1, <3>1, <3>2 DEF RtuAck!AnswerAtOnce, Waiting
    <3> QED
      BY <3>3 DEF RtuAck!Next
  <2> QED
    BY <1>2, <2>2, <2>3
<1>4. CASE w = "loop"
  <2>1. CASE Over("loop", "error", NoCommand)
    BY <1>0, <1>1, <1>4, <2>1, RtuAnswers
  <2>2. CASE axis = "temp" /\ clients' = [clients EXCEPT ![w].pc = "stir"]
    <3>1. clients["loop"].pc = "temp" /\ clients'["loop"].pc = "stir"
      BY <1>0, <1>1, <1>4, <2>2 DEF RtuCalls
    <3>2. RtuFate = "none" /\ RtuFate' = "none"
      BY <3>1 DEF RtuFate
    <3> QED
      BY <3>1, <3>2 DEF RtuAck!ack, Waiting
  <2>3. CASE axis = "stir" /\ clients' = [clients EXCEPT ![w].pc = "readTemp"]
    <3>1. clients["loop"].pc = "stir" /\ clients'["loop"].pc = "readTemp"
      BY <1>0, <1>1, <1>4, <2>3 DEF RtuCalls
    <3>2. RtuFate = "none" /\ RtuFate' \in {"applied", "rejected"}
      BY <3>1 DEF RtuFate
    <3>3. RtuAck!Decide(RtuFate')
      BY <3>1, <3>2 DEF RtuAck!Decide, Waiting
    <3> QED
      BY <3>2, <3>3 DEF RtuAck!Next
  <2> QED
    BY <1>0, <1>2, <1>4, <2>1, <2>2, <2>3
<1> QED
  BY <1>0, <1>3, <1>4

\* Reading back changes neither the registers nor the fate.
LEMMA RtuReadsAck ==
  ASSUME RtuInv, NEW axis \in Axes, ReadBack(axis)
  PROVE  [RtuAck!Next]_(RtuAck!ack)
<1>0. /\ RtuTypes /\ "loop" \in RtuClients /\ clients["loop"] \in RtuCalls /\ NoCommand \in Pairs
      /\ clients \in [RtuClients -> RtuCalls]
  BY RtuFacts DEF RtuInv, RtuTypes
<1>1. clients["loop"].pc \in {"readTemp", "readStir"} /\ registers' = registers
  BY DEF ReadBack
<1>2. CASE Over("loop", "error", NoCommand)
  BY <1>0, <1>1, <1>2, RtuAnswers
<1>3. CASE /\ clients' = [clients EXCEPT !["loop"].seen[axis] = registers[axis],
                             !["loop"].pc = IF axis = "temp" THEN "readStir" ELSE "compare"]
           /\ UNCHANGED confirmed
  <2> DEFINE after == IF axis = "temp" THEN "readStir" ELSE "compare"
             one == [clients EXCEPT !["loop"].seen[axis] = registers[axis]]
             half == [clients["loop"] EXCEPT !.seen[axis] = registers[axis]]
  <2>1. clients' = [one EXCEPT !["loop"].pc = after] /\ after \in {"readStir", "compare"}
    BY <1>3
  <2>2. one = [clients EXCEPT !["loop"] = half]
    BY <1>0
  <2>3. DOMAIN half = DOMAIN clients["loop"] /\ half.cmd = clients["loop"].cmd
    BY <1>0 DEF RtuCalls
  <2>4. DOMAIN clients["loop"] = {"pc", "cmd", "seen"}
    BY <1>0 DEF RtuCalls
  <2> HIDE DEF after, half, one
  <2>5. clients'["loop"] = [half EXCEPT !.pc = after]
    BY <1>0, <2>1, <2>2
  <2>6. clients'["loop"].pc = after /\ clients'["loop"].cmd = clients["loop"].cmd
    BY <2>3, <2>4, <2>5
  <2>7. RtuFate' = RtuFate
    BY <1>1, <2>1, <2>6 DEF RtuFate, Raw
  <2>8. clients["loop"].pc # "idle" /\ clients'["loop"].pc # "idle"
    BY <1>1, <2>1, <2>6
  <2> QED
    BY <2>7, <2>8 DEF RtuAck!ack, Waiting
<1> QED
  BY <1>2, <1>3 DEF ReadBack

\* What the loop compares is what the registers hold.
LEMMA RtuComparesAck ==
  ASSUME RtuInv, Compare
  PROVE  RtuAck!Next
<1> DEFINE call == clients["loop"]
           same == \A axis \in Axes : call.seen[axis] = Raw(call.cmd, axis)
           held == [axis \in Axes |-> decode_write_register(call.seen[axis], RegOf[axis])]
<1>0. RtuTypes /\ ReadsAreFresh /\ call \in RtuCalls /\ call.pc = "compare"
  BY RtuFacts DEF RtuInv, RtuTypes, Compare
<1>1. /\ call.seen \in Seen
      /\ call.seen["temp"] = registers["temp"] /\ call.seen["stir"] = registers["stir"]
  BY <1>0 DEF ReadsAreFresh, RtuCalls
<1>2. \A axis \in Axes : call.seen[axis] = registers[axis]
  BY <1>1, RtuFacts
<1>3. RtuFate = IF same THEN "applied" ELSE "rejected"
  BY <1>0, <1>2 DEF RtuFate
<1>4. held \in Pairs
  <2>1. ASSUME NEW axis \in Axes
        PROVE  held[axis] \in Int
    <3>1. call.seen[axis] \in Int /\ RegOf[axis].scale \in Int /\ RegOf[axis].offset \in Int
      BY <1>1, RtuFacts
    <3>2. call.seen[axis] * RegOf[axis].scale \in Int
      BY <3>1
    <3> QED
      BY <3>1, <3>2 DEF decode_write_register
  <2>2. held \in [Axes -> Int]
    BY <2>1
  <2> HIDE DEF held
  <2> QED
    BY <2>2 DEF Pairs, Axes
<1>5. Over("loop", IF same THEN "confirmed" ELSE "rejected", IF same THEN held ELSE NoCommand)
  BY DEF Compare
<1> HIDE DEF held, same
<1>6. call.pc # "idle" /\ NoCommand \in Pairs
  BY <1>0, RtuFacts
<1>7. CASE same
  BY <1>3, <1>4, <1>5, <1>6, <1>7, RtuAnswers
<1>8. CASE ~same
  BY <1>3, <1>5, <1>6, <1>8, RtuAnswers
<1> QED
  BY <1>7, <1>8

\* The RTU driver keeps the contract.
LEMMA RtuImplementsAck == ModbusSpec => RtuAck!Spec
<1>1. ASSUME ModbusInit
      PROVE  RtuAck!Init
  <2>1. clients["loop"].pc = "idle" /\ confirmed.status = "none"
    BY <1>1, RtuFacts DEF ModbusInit
  <2>2. RtuFate = "none"
    BY <2>1 DEF RtuFate
  <2> QED
    BY <2>1, <2>2 DEF RtuAck!Init, Waiting
<1>2. RtuInv /\ [ModbusNext]_modbusVars => [RtuAck!Next]_(RtuAck!ack)
  <2>1. CASE UNCHANGED modbusVars
    BY <2>1, RtuLoopRests DEF modbusVars
  <2> QED
    BY <2>1, RtuBeginsAck, RtuWritesAck, RtuReadsAck, RtuComparesAck DEF ModbusNext
<1> QED
  BY <1>1, <1>2, RtuInvariant, PTL DEF ModbusSpec, RtuAck!Spec

-----------------------------------------------------------------------------
(* The contract of acknowledged commands: the JSON bridge.                 *)

\* A call at rest has no fate, one under way no answer, and the loop's command, unseen, no fate.
BridgeWaits ==
    LET call == writers["loop"] IN
    /\ call.pc # "polling" => call.fate = "none"
    /\ call.pc # "idle" => call.ack = "none"
    /\ call.pc = "polling" /\ control.unseen /\ control.rid = "mine" => call.fate = "none"

\* The loop works out its command, and is told at once or waits.
LEMMA BridgeBeginsAck ==
  ASSUME BridgeInv, BridgeWaits, NEW target, Compute("loop", target)
  PROVE  BridgeWaits' /\ BridgeAck!Next
<1>0. BridgeShapes /\ "loop" \in BridgeWriters /\ writers["loop"].pc = "idle"
  BY WriterFacts DEF BridgeInv, Compute
<1>1. CASE \E p \in {"confirmed", "error"} :
              writers' = [writers EXCEPT !["loop"] = [NoWrite EXCEPT !.ack = p]]
  <2>1. PICK p \in {"confirmed", "error"} :
              writers' = [writers EXCEPT !["loop"] = [NoWrite EXCEPT !.ack = p]]
    BY <1>1
  <2>2. writers'["loop"].pc = "idle" /\ writers'["loop"].fate = "none" /\ writers'["loop"].ack = p
    <3>1. writers'["loop"] = [NoWrite EXCEPT !.ack = p]
      BY <1>0, <2>1, WriterFacts, WriterChanges
    <3> QED
      BY <3>1 DEF NoWrite
  <2>3. BridgeAck!AnswerAtOnce(p)
    BY <1>0, <2>2 DEF BridgeAck!AnswerAtOnce, Waiting, BridgeWaits
  <2> QED
    BY <2>2, <2>3 DEF BridgeWaits, BridgeAck!Next
<1>2. CASE \E q : writers' = [writers EXCEPT !["loop"] =
                                 [NoWrite EXCEPT !.pc = "computed", !.pending = q]]
  <2>1. PICK q : writers' = [writers EXCEPT !["loop"] =
                                [NoWrite EXCEPT !.pc = "computed", !.pending = q]]
    BY <1>2
  <2>2. /\ writers'["loop"].pc = "computed" /\ writers'["loop"].fate = "none"
        /\ writers'["loop"].ack = "none"
    <3>1. writers'["loop"] = [NoWrite EXCEPT !.pc = "computed", !.pending = q]
      BY <1>0, <2>1, WriterFacts, WriterChanges
    <3> QED
      BY <3>1 DEF NoWrite
  <2>3. BridgeAck!Issue
    BY <1>0, <2>2 DEF BridgeAck!Issue, Waiting
  <2> QED
    BY <2>2, <2>3 DEF BridgeWaits, BridgeAck!Next
<1> QED
  BY <1>1, <1>2, CallShapes DEF Compute

\* Nothing happens to the loop's call.
LEMMA BridgeLoopRests ==
  ASSUME BridgeWaits, writers'["loop"] = writers["loop"],
         control' = control \/ control'.rid = "other"
  PROVE  BridgeWaits' /\ UNCHANGED BridgeAck!ack
  BY DEF BridgeWaits, BridgeAck!ack, Waiting

\* HTTP handlers' calls are not the loop's.
LEMMA BridgeHttpRests ==
  ASSUME BridgeInv, BridgeWaits,
         \/ HttpCompute \/ EmergencyStopCompute \/ write_json_bridge_control("http")
         \/ \E c \in DirectControls : write_component(c)
  PROVE  BridgeWaits' /\ UNCHANGED BridgeAck!ack
<1>0. /\ BridgeShapes /\ BridgeWriters = {"loop", "http"} /\ "loop" # "http"
      /\ writers = [w \in BridgeWriters |-> writers[w]]
  BY WriterFacts DEF BridgeInv, BridgeShapes
<1>1. \E r : writers' = [writers EXCEPT !["http"] = r]
  <2>1. ASSUME NEW target, Compute("http", target)
        PROVE  \E r : writers' = [writers EXCEPT !["http"] = r]
    BY <2>1, CallShapes DEF Compute
  <2>2. CASE HttpCompute \/ EmergencyStopCompute
    BY <2>1, <2>2 DEF HttpCompute, EmergencyStopCompute
  <2>3. CASE write_json_bridge_control("http")
    BY <2>3, CallShapes DEF write_json_bridge_control
  <2>4. CASE \E c \in DirectControls : write_component(c)
    BY <2>4, CallShapes DEF write_component
  <2> QED
    BY <2>2, <2>3, <2>4
<1>2. writers'["loop"] = writers["loop"]
  BY <1>0, <1>1
<1>3. control' = control \/ control'.rid = "other"
  <2>1. CASE write_json_bridge_control("http")
    BY <1>0, <2>1, RenameFacts DEF write_json_bridge_control
  <2>2. CASE HttpCompute \/ EmergencyStopCompute
    BY <2>2 DEF HttpCompute, EmergencyStopCompute, Compute
  <2>3. CASE \E c \in DirectControls : write_component(c)
    BY <2>3 DEF write_component
  <2> QED
    BY <2>1, <2>2, <2>3
<1> QED
  BY <1>2, <1>3, BridgeLoopRests

\* The loop's command goes to control.json, not seen by anybody yet, or its write fails.
LEMMA BridgeWritesAck ==
  ASSUME BridgeInv, BridgeWaits, write_json_bridge_control("loop")
  PROVE  BridgeWaits' /\ [BridgeAck!Next]_(BridgeAck!ack)
<1>0. BridgeShapes /\ "loop" \in BridgeWriters /\ writers["loop"].pc = "computed"
  BY WriterFacts DEF BridgeInv, write_json_bridge_control
<1>1. CASE writers' = [writers EXCEPT !["loop"] = [NoWrite EXCEPT !.pc = "polling"]]
  <2>1. writers'["loop"] = [NoWrite EXCEPT !.pc = "polling"]
    BY <1>0, <1>1, WriterFacts, WriterChanges
  <2>2. /\ writers'["loop"].pc = "polling" /\ writers'["loop"].fate = "none"
        /\ writers'["loop"].ack = "none"
    BY <2>1 DEF NoWrite
  <2> QED
    BY <1>0, <2>2 DEF BridgeWaits, BridgeAck!ack, Waiting
<1>2. CASE Ends("loop", "error")
  <2>1. writers' = [writers EXCEPT !["loop"] = [NoWrite EXCEPT !.ack = "error"]]
    BY <1>2, CallShapes
  <2>2. writers'["loop"] = [NoWrite EXCEPT !.ack = "error"]
    BY <1>0, <2>1, WriterFacts, WriterChanges
  <2>3. /\ writers'["loop"].pc = "idle" /\ writers'["loop"].fate = "none"
        /\ writers'["loop"].ack = "error"
    BY <2>2 DEF NoWrite
  <2>4. BridgeAck!Answer("error")
    BY <1>0, <2>3 DEF BridgeAck!Answer, Waiting
  <2> QED
    BY <2>3, <2>4 DEF BridgeWaits, BridgeAck!Next
<1> QED
  BY <1>1, <1>2 DEF write_json_bridge_control

\* The bridge process decides the fate of the loop's command, once.
LEMMA BridgeTakesAck ==
  ASSUME BridgeInv, BridgeWaits, NEW ok \in BOOLEAN, TakeControl(ok)
  PROVE  BridgeWaits' /\ [BridgeAck!Next]_(BridgeAck!ack)
<1>0. /\ BridgeShapes /\ "loop" \in BridgeWriters /\ WriterOK(writers["loop"])
      /\ writers = [w \in BridgeWriters |-> writers[w]]
  BY WriterFacts DEF BridgeInv, BridgeShapes
<1>1. control.unseen /\ control'.rid = control.rid /\ ~control'.unseen
  BY <1>0 DEF TakeControl, BridgeShapes
<1>2. CASE control.rid = "mine" /\ writers["loop"].pc = "polling"
  <2>1. writers' = [writers EXCEPT !["loop"].fate = FateOf(ok)]
    BY <1>2 DEF TakeControl, FateOf
  <2>2. /\ writers'["loop"].pc = "polling" /\ writers'["loop"].ack = writers["loop"].ack
        /\ writers'["loop"].fate = FateOf(ok)
    <3>1. writers'["loop"] = [writers["loop"] EXCEPT !.fate = FateOf(ok)]
      BY <1>0, <2>1
    <3> QED
      BY <1>0, <1>2, <3>1 DEF WriterOK
  <2>3. FateOf(ok) \in {"applied", "rejected"} /\ writers["loop"].fate = "none"
    BY <1>1, <1>2 DEF FateOf, BridgeWaits
  <2>4. BridgeAck!Decide(FateOf(ok))
    BY <1>2, <2>2, <2>3 DEF BridgeAck!Decide, Waiting
  <2>5. BridgeWaits'
    BY <1>1, <1>2, <2>2 DEF BridgeWaits
  <2> QED
    BY <2>3, <2>4, <2>5 DEF BridgeAck!Next
<1>3. CASE ~(control.rid = "mine" /\ writers["loop"].pc = "polling")
  <2>1. writers' = writers
    BY <1>3 DEF TakeControl
  <2> QED
    BY <1>1, <2>1 DEF BridgeWaits, BridgeAck!ack, Waiting
<1> QED
  BY <1>2, <1>3

\* The loop's wait ends with what became of its command, or without an answer.
LEMMA BridgePollsAck ==
  ASSUME BridgeInv, BridgeWaits, PollState
  PROVE  BridgeWaits' /\ BridgeAck!Next
<1>0. BridgeShapes /\ "loop" \in BridgeWriters /\ writers["loop"].pc = "polling"
  BY WriterFacts DEF BridgeInv, PollState
<1>1. PICK p \in {"confirmed", "rejected", "timeout"} :
         writers' = [writers EXCEPT !["loop"] = [NoWrite EXCEPT !.ack = p]]
  BY CallShapes DEF PollState, LoopHears
<1>2. writers'["loop"] = [NoWrite EXCEPT !.ack = p]
  BY <1>0, <1>1, WriterFacts, WriterChanges
<1>3. writers'["loop"].pc = "idle" /\ writers'["loop"].fate = "none" /\ writers'["loop"].ack = p
  BY <1>2 DEF NoWrite
<1>4. /\ p = "confirmed" => writers["loop"].fate = "applied"
      /\ p = "rejected" => writers["loop"].fate = "rejected"
  BY <1>3, BridgePolls
<1>5. BridgeAck!Answer(p)
  BY <1>0, <1>3, <1>4 DEF BridgeAck!Answer, Waiting
<1> QED
  BY <1>3, <1>5 DEF BridgeWaits, BridgeAck!Next

\* Every step of the bridge is one of the contract, or one that it does not see.
LEMMA BridgeAckStep ==
  ASSUME BridgeInv, BridgeWaits, [BridgeNext]_bridgeVars
  PROVE  BridgeWaits' /\ [BridgeAck!Next]_(BridgeAck!ack)
<1>1. CASE LoopCompute
  BY <1>1, BridgeBeginsAck DEF LoopCompute
<1>2. CASE \/ HttpCompute \/ EmergencyStopCompute \/ write_json_bridge_control("http")
           \/ \E c \in DirectControls : write_component(c)
  BY <1>2, BridgeHttpRests
<1>3. CASE write_json_bridge_control("loop")
  BY <1>3, BridgeWritesAck
<1>4. CASE \E ok \in BOOLEAN : TakeControl(ok)
  BY <1>4, BridgeTakesAck
<1>5. CASE PollState
  BY <1>5, BridgePollsAck
<1>6. CASE \/ PublishState \/ StateGoesBad \/ TemperatureDrifts \/ LoopSenses \/ ResetAndEnable
           \/ UNCHANGED bridgeVars
  <2>1. writers' = writers /\ control' = control
    BY <1>6 DEF PublishState, StateGoesBad, TemperatureDrifts, LoopSenses, ResetAndEnable,
                DownstreamSame, bridgeVars
  <2> QED
    BY <2>1, BridgeLoopRests
<1> QED
  BY <1>1, <1>2, <1>3, <1>4, <1>5, <1>6, WriterFacts DEF BridgeNext

\* The JSON bridge keeps the contract.
LEMMA BridgeImplementsAck == BridgeSpec => BridgeAck!Spec
<1>1. ASSUME BridgeInit
      PROVE  BridgeWaits /\ BridgeAck!Init
  <2>1. writers["loop"] = NoWrite
    BY <1>1, WriterFacts DEF BridgeInit
  <2>2. writers["loop"].pc = "idle" /\ writers["loop"].fate = "none" /\ writers["loop"].ack = "none"
    BY <2>1 DEF NoWrite
  <2> QED
    BY <2>2 DEF BridgeWaits, BridgeAck!Init, Waiting
<1>2. BridgeInv /\ BridgeWaits /\ [BridgeNext]_bridgeVars
         => BridgeWaits' /\ [BridgeAck!Next]_(BridgeAck!ack)
  BY BridgeAckStep
<1> QED
  BY <1>1, <1>2, BridgeInvariant, PTL DEF BridgeSpec, BridgeAck!Spec

-----------------------------------------------------------------------------
(* The contract of acknowledged commands: the serial line.                 *)

\* A frame under way has met no fate yet, and frames meet theirs in the order they were sent.
FramesAreNew ==
    /\ heldFrame <= sent /\ heldFrame \notin refused /\ \A n \in refused : n <= sent
    /\ \A f \in Holds(toDevice) : heldFrame < f.frame /\ f.frame \notin refused

\* Frames that a step leaves under way, with the fates of frames as they were.
LEMMA FramesStayNew ==
  ASSUME SerialInv, FramesAreNew, UNCHANGED <<sent, heldFrame, refused>>,
         Holds(toDevice') \subseteq Holds(toDevice)
  PROVE  FramesAreNew'
  BY DEF FramesAreNew

\* A frame that is sent is newer than any whose fate is known.
LEMMA FramesAreSentNew ==
  ASSUME SerialInv, FramesAreNew, SendWithRid \/ SendPlain
  PROVE  FramesAreNew'
<1>0. /\ toDevice \in Seq(Frames) /\ sent \in Nat /\ heldFrame \in Nat /\ refused \subseteq Nat
  BY SerialFacts DEF SerialInv, SerialTypes
<1>1. sent' = sent + 1 /\ heldFrame' = heldFrame /\ refused' = refused
  BY DEF SendWithRid, SendPlain
<1>2. PICK rid : toDevice' = Append(toDevice, CommandFrame(rid, sent + 1))
  BY DEF SendWithRid, SendPlain
<1>x. PICK x : x = CommandFrame(rid, sent + 1)
  OBVIOUS
<1>3. x.frame = sent + 1
  BY <1>x DEF CommandFrame
<1>4. Holds(toDevice') \subseteq Holds(toDevice) \cup {x}
  <2>1. toDevice' = Append(toDevice, x)
    BY <1>2, <1>x
  <2>2. Len(toDevice) \in Nat /\ DOMAIN toDevice = 1 .. Len(toDevice)
    BY <1>0
  <2>3. /\ DOMAIN toDevice' = 1 .. Len(toDevice) + 1
        /\ \A i \in 1 .. Len(toDevice) : toDevice'[i] = toDevice[i]
        /\ toDevice'[Len(toDevice) + 1] = x
    BY <1>0, <2>1, <2>2
  <2>4. ASSUME NEW i \in 1 .. Len(toDevice) + 1
        PROVE  toDevice'[i] \in Holds(toDevice) \cup {x}
    <3>1. CASE i \in 1 .. Len(toDevice)
      BY <2>2, <2>3, <3>1 DEF Holds
    <3>2. CASE i = Len(toDevice) + 1
      BY <2>3, <3>2
    <3> QED
      BY <2>2, <3>1, <3>2
  <2> QED
    BY <2>3, <2>4 DEF Holds
<1>5. ASSUME NEW f \in Holds(toDevice')
      PROVE  heldFrame' < f.frame /\ f.frame \notin refused'
  <2>1. CASE f \in Holds(toDevice)
    BY <1>1, <2>1 DEF FramesAreNew
  <2>2. CASE f = x
    BY <1>0, <1>1, <1>3, <2>2 DEF FramesAreNew
  <2> QED
    BY <1>4, <2>1, <2>2
<1>6. heldFrame' <= sent' /\ heldFrame' \notin refused' /\ \A n \in refused' : n <= sent'
  BY <1>0, <1>1 DEF FramesAreNew
<1> QED
  BY <1>5, <1>6 DEF FramesAreNew

\* The frame the device takes is the oldest under way.
LEMMA TakenFrameIsOldest ==
  ASSUME SerialInv, toDevice # <<>>, toDevice' = Tail(toDevice)
  PROVE  \A g \in Holds(toDevice') : Head(toDevice).frame < g.frame
<1>0. toDevice \in Seq(Frames) /\ Len(toDevice) \in Nat /\ FramesInOrder
  BY DEF SerialInv, SerialTypes
<1>1. /\ Len(toDevice) > 0 /\ Head(toDevice) = toDevice[1]
      /\ Len(Tail(toDevice)) = Len(toDevice) - 1
      /\ \A i \in 1 .. Len(toDevice) - 1 : Tail(toDevice)[i] = toDevice[i + 1]
      /\ DOMAIN Tail(toDevice) = 1 .. Len(toDevice) - 1
  BY <1>0
<1>2. ASSUME NEW i \in DOMAIN toDevice'
      PROVE  Head(toDevice).frame < toDevice'[i].frame
  <2>1. i \in 1 .. Len(toDevice) - 1 /\ 1 \in 1 .. Len(toDevice) /\ i + 1 \in 1 .. Len(toDevice)
        /\ 1 < i + 1
    BY <1>0, <1>1
  <2>2. toDevice[1].frame < toDevice[i + 1].frame
    BY <1>0, <2>1 DEF FramesInOrder
  <2> QED
    BY <1>1, <2>1, <2>2
<1> QED
  BY <1>2 DEF Holds

\* The device takes a frame: if the loop waits for it, its fate is decided.
LEMMA DeviceTakesAck ==
  ASSUME SerialInv, FramesAreNew, NEW ok \in BOOLEAN, DeviceTakesCommand(ok)
  PROVE  FramesAreNew' /\ [SerialAck!Next]_(SerialAck!ack)
<1>f. PICK f : f = Head(toDevice)
  OBVIOUS
<1>1. /\ toDevice # <<>> /\ toDevice' = Tail(toDevice) /\ loopCall' = loopCall /\ sent' = sent
      /\ heldFrame' = IF ok THEN f.frame ELSE heldFrame
      /\ refused' = IF ok THEN refused ELSE refused \cup {f.frame}
  BY <1>f DEF DeviceTakesCommand
<1>2. /\ f \in Frames /\ f \in Holds(toDevice) /\ Holds(toDevice') \subseteq Holds(toDevice)
      /\ \A g \in Holds(toDevice') : f.frame < g.frame
  BY <1>f, <1>1, QueueMoves, TakenFrameIsOldest
<1>3. /\ f.frame \in Nat /\ f.frame <= sent /\ sent \in Nat /\ heldFrame \in Nat
      /\ heldFrame < f.frame /\ f.frame \notin refused
      /\ \A g \in Holds(toDevice) : g.frame \in Nat
  <2>1. f.frame \in Nat /\ sent \in Nat /\ heldFrame \in Nat
    BY <1>2, SerialFacts DEF SerialInv, SerialTypes, Frames
  <2>2. f.frame <= sent /\ heldFrame < f.frame /\ f.frame \notin refused
    BY <1>2 DEF SerialInv, IdsAreGiven, FramesAreNew
  <2>3. \A g \in Holds(toDevice) : g.frame \in Nat
    <3>1. toDevice \in Seq(Frames) /\ MaxFrames \in Nat
      BY SerialFacts DEF SerialInv, SerialTypes
    <3>2. Holds(toDevice) \subseteq Frames
      BY <1>1, <3>1, QueueFacts
    <3> QED
      BY <3>1, <3>2 DEF Frames
  <2> QED
    BY <2>1, <2>2, <2>3
<1>4. FramesAreNew'
  <2>1. heldFrame' <= sent' /\ heldFrame' \notin refused' /\ \A n \in refused' : n <= sent'
    BY <1>1, <1>3 DEF FramesAreNew
  <2>2. ASSUME NEW g \in Holds(toDevice')
        PROVE  heldFrame' < g.frame /\ g.frame \notin refused'
    <3>1. g \in Holds(toDevice) /\ f.frame < g.frame /\ g.frame \in Nat
      BY <1>2, <1>3
    <3>2. heldFrame < g.frame /\ g.frame \notin refused
      BY <3>1 DEF FramesAreNew
    <3> QED
      BY <1>1, <1>3, <3>1, <3>2
  <2> QED
    BY <2>1, <2>2 DEF FramesAreNew
<1>5. CASE loopCall.pc # "reading"
  <2>1. SerialFate = "none" /\ SerialFate' = "none"
    BY <1>1, <1>5 DEF SerialFate
  <2> QED
    BY <1>1, <1>4, <1>5, <2>1 DEF SerialAck!ack, Waiting
<1>6. CASE loopCall.pc = "reading" /\ f.frame # sent
  <2>1. loopCall.frame = sent
    BY <1>6 DEF SerialInv, WaitIsForLast
  <2>2. heldFrame # sent
    BY <1>3, <1>6
  <2>3. SerialFate' = SerialFate
    BY <1>1, <1>6, <2>1, <2>2 DEF SerialFate
  <2> QED
    BY <1>1, <1>4, <1>6, <2>3 DEF SerialAck!ack, Waiting
<1>7. CASE loopCall.pc = "reading" /\ f.frame = sent
  <2>1. loopCall.frame = sent
    BY <1>7 DEF SerialInv, WaitIsForLast
  <2>2. heldFrame # sent /\ sent \notin refused
    BY <1>3, <1>7
  <2>3. SerialFate = "none"
    BY <2>1, <2>2 DEF SerialFate
  <2>4. SerialFate' \in {"applied", "rejected"}
    BY <1>1, <1>7, <2>1 DEF SerialFate
  <2>5. SerialAck!Decide(SerialFate')
    BY <1>1, <1>7, <2>3, <2>4 DEF SerialAck!Decide, Waiting
  <2> QED
    BY <1>4, <2>4, <2>5 DEF SerialAck!Next
<1> QED
  BY <1>5, <1>6, <1>7

\* A turn of the loop's wait: an answer, or a line that is somebody else's.
LEMMA HandshakeAck ==
  ASSUME SerialInv, FramesAreNew, Handshake
  PROVE  [SerialAck!Next]_(SerialAck!ack)
<1>0. /\ loopCall.pc = "reading" /\ loopCall \in Waits /\ toHost \in Seq(Lines)
      /\ UNCHANGED <<sent, toDevice, heldFrame, refused>>
  BY DEF Handshake, KeepRest, SerialInv, SerialTypes
<1>1. ASSUME NEW status \in {"confirmed", "rejected", "timeout"}, NEW rest, Finish(status, rest),
             status = "confirmed" => SerialFate = "applied",
             status = "rejected" => SerialFate = "rejected"
      PROVE  SerialAck!Next
  <2>1. loopCall'.pc = "idle" /\ loopCall'.status = status
    BY <1>0, <1>1 DEF Finish, Waits
  <2>2. SerialFate' = "none"
    BY <2>1 DEF SerialFate
  <2>3. SerialAck!Answer(status)
    BY <1>0, <1>1, <2>1, <2>2 DEF SerialAck!Answer, Waiting
  <2> QED
    BY <2>3 DEF SerialAck!Next
<1>2. CASE loopCall.expired
  BY <1>1, <1>2 DEF Handshake
<1>3. CASE ~loopCall.expired /\ loopCall' = loopCall
  <2>1. SerialFate' = SerialFate
    BY <1>0, <1>3 DEF SerialFate
  <2> QED
    BY <1>3, <2>1 DEF SerialAck!ack, Waiting
<1>4. CASE ~loopCall.expired /\ loopCall' # loopCall
  <2>l. PICK l : l = Head(toHost)
    OBVIOUS
  <2>1. /\ toHost # <<>> /\ l.kind = "ack" /\ l.rid = loopCall.rid
        /\ Finish(IF l.ok THEN "confirmed" ELSE "rejected", Tail(toHost))
    BY <1>4, <2>l DEF Handshake, TakeLine
  <2>2. l \in Holds(toHost)
    BY <1>0, <2>l, <2>1, QueueFacts
  <2>3. loopCall.frame = sent /\ toDevice = <<>> /\ IF l.ok THEN heldFrame = sent ELSE sent \in refused
    BY <1>0, <2>1, <2>2 DEF SerialInv, WaitIsForLast
  <2>4. ~(heldFrame = sent /\ sent \in refused)
    BY DEF FramesAreNew
  <2>5. SerialFate = IF l.ok THEN "applied" ELSE "rejected"
    BY <1>0, <2>3, <2>4 DEF SerialFate
  <2> QED
    BY <1>1, <2>1, <2>5
<1> QED
  BY <1>2, <1>3, <1>4

\* The loop sends its command, and waits.
LEMMA SendAck ==
  ASSUME SerialInv, FramesAreNew, SendWithRid
  PROVE  SerialAck!Next
<1>0. sent \in Nat /\ heldFrame \in Nat
  BY SerialFacts DEF SerialInv, SerialTypes
<1>1. /\ loopCall.pc = "idle" /\ heldFrame' = heldFrame /\ refused' = refused
      /\ \E rid : loopCall' = [NotCalling EXCEPT !.pc = "reading", !.rid = rid, !.frame = sent + 1]
  BY DEF SendWithRid, CanSend, PortFree
<1>2. loopCall'.pc = "reading" /\ loopCall'.frame = sent + 1
  BY <1>1 DEF NotCalling
<1>3. heldFrame # sent + 1 /\ sent + 1 \notin refused
  BY <1>0 DEF FramesAreNew
<1>4. SerialFate' = "none"
  BY <1>1, <1>2, <1>3 DEF SerialFate
<1>5. SerialAck!Issue
  BY <1>1, <1>2, <1>4 DEF SerialAck!Issue, Waiting
<1> QED
  BY <1>5 DEF SerialAck!Next

\* Every step of the serial line is one of the contract, or one that it does not see.
LEMMA SerialAckStep ==
  ASSUME SerialInv, FramesAreNew, [SerialNext]_serialVars
  PROVE  FramesAreNew' /\ [SerialAck!Next]_(SerialAck!ack)
<1>1. CASE SendWithRid
  BY <1>1, FramesAreSentNew, SendAck
<1>2. CASE SendPlain
  <2>1. loopCall.pc = "idle" /\ loopCall' = loopCall
    BY <1>2 DEF SendPlain, CanSend, PortFree
  <2>2. SerialFate = "none" /\ SerialFate' = "none"
    BY <2>1 DEF SerialFate
  <2>3. UNCHANGED SerialAck!ack
    BY <2>1, <2>2 DEF SerialAck!ack, Waiting
  <2> QED
    BY <1>2, <2>3, FramesAreSentNew
<1>3. CASE \E ok \in BOOLEAN : DeviceTakesCommand(ok)
  BY <1>3, DeviceTakesAck
<1>4. CASE Handshake
  <2>1. UNCHANGED <<sent, heldFrame, refused, toDevice>>
    BY <1>4 DEF Handshake, KeepRest
  <2> QED
    BY <1>4, <2>1, FramesStayNew, HandshakeAck
<1>5. CASE WindowCloses
  <2>1. UNCHANGED <<sent, heldFrame, refused, toDevice>>
    BY <1>5 DEF WindowCloses, KeepRest
  <2>2. /\ loopCall.pc = "reading" /\ loopCall'.pc = "reading" /\ loopCall'.frame = loopCall.frame
    BY <1>5 DEF WindowCloses, SerialInv, SerialTypes, Waits
  <2>3. SerialFate' = SerialFate
    BY <2>1, <2>2 DEF SerialFate
  <2>4. UNCHANGED SerialAck!ack
    BY <2>2, <2>3 DEF SerialAck!ack, Waiting
  <2> QED
    BY <2>1, <2>4, FramesStayNew
<1>6. CASE Reboot
  <2>1. UNCHANGED <<sent, heldFrame, refused, toDevice>> /\ loopCall' = NotCalling
    BY <1>6 DEF Reboot
  <2>2. loopCall'.pc = "idle" /\ loopCall'.status = "none"
    BY <2>1 DEF NotCalling
  <2>3. SerialFate' = "none"
    BY <2>2 DEF SerialFate
  <2>4. SerialAck!Restart
    BY <2>2, <2>3 DEF SerialAck!Restart, Waiting
  <2> QED
    BY <2>1, <2>4, FramesStayNew DEF SerialAck!Next
<1>7. CASE UNCHANGED <<loopCall, sent, heldFrame, refused>> /\ Holds(toDevice') \subseteq Holds(toDevice)
  <2>1. SerialFate' = SerialFate
    BY <1>7 DEF SerialFate
  <2>2. UNCHANGED SerialAck!ack
    BY <1>7, <2>1 DEF SerialAck!ack, Waiting
  <2> QED
    BY <1>7, <2>2, FramesStayNew
<1>8. CASE WireLosesCommand
  <2>1. UNCHANGED <<loopCall, sent, heldFrame, refused>>
    BY <1>8 DEF WireLosesCommand
  <2>2. Holds(toDevice') \subseteq Holds(toDevice)
    BY <1>8, QueueMoves DEF WireLosesCommand
  <2> QED
    BY <1>7, <2>1, <2>2
<1>9. CASE \/ read_sample \/ WireHurtsAck \/ ClockAdvances \/ UNCHANGED serialVars
           \/ \E kind \in {"sample", "noise"} : DeviceTalks(kind)
  <2>1. UNCHANGED <<loopCall, sent, heldFrame, refused, toDevice>>
    BY <1>9 DEF read_sample, WireHurtsAck, ClockAdvances, serialVars, DeviceTalks, KeepRest
  <2> QED
    BY <1>7, <2>1
<1> QED
  BY <1>1, <1>2, <1>3, <1>4, <1>5, <1>6, <1>8, <1>9 DEF SerialNext

\* The serial driver keeps the contract.
LEMMA SerialImplementsAck == SerialSpec => SerialAck!Spec
<1>1. ASSUME SerialInit
      PROVE  FramesAreNew /\ SerialAck!Init
  <2>1. loopCall.pc = "idle" /\ loopCall.status = "none"
    BY <1>1 DEF SerialInit, NotCalling
  <2>2. SerialFate = "none"
    BY <2>1 DEF SerialFate
  <2>3. SerialAck!Init
    BY <2>1, <2>2 DEF SerialAck!Init, Waiting
  <2>4. Holds(<<>>) = {}
    BY DEF Holds
  <2> QED
    BY <1>1, <2>3, <2>4 DEF SerialInit, FramesAreNew
<1>2. SerialInv /\ FramesAreNew /\ [SerialNext]_serialVars
         => FramesAreNew' /\ [SerialAck!Next]_(SerialAck!ack)
  BY SerialAckStep
<1> QED
  BY <1>1, <1>2, SerialInvariant, PTL DEF SerialSpec, SerialAck!Spec

(***************************************************************************)
(* Every driver that acknowledges commands keeps the contract the control  *)
(* loop has with it: "confirmed" and "rejected" are about the command just *)
(* sent and tell what the device did with it, for any registers, frames,   *)
(* targets, interleaved writers, faults and restarts                       *)
(* (write_targets_acknowledged of the three devices).                      *)
(***************************************************************************)
THEOREM DriversKeepAck == SerialSpec /\ ModbusSpec /\ BridgeSpec => DriversImplementAck
  BY SerialImplementsAck, RtuImplementsAck, BridgeImplementsAck DEF DriversImplementAck
-----------------------------------------------------------------------------
(* The JSON bridge: its types.                                             *)

Echoes == {"none", "mine", "other"}
Plants == [motor : 0 .. 1, speed : MinSpeed .. MaxSpeed, relay : 0 .. 1, stir : 0 .. 1, temp : 0 .. MaxTemp]
StateFiles == [motor : 0 .. 1, relay : 0 .. 1, stir : 0 .. 1, temp : NoValue .. MaxTemp,
               speed : Int, delay : Int, rid : Echoes, ok : BOOLEAN, usable : BOOLEAN]
Caches == [speed : Int, stir : Int]
BridgeTargets == [shake : Nat, temp : Nat, stir : 0 .. 1]
Budgets == [http : Nat, mishaps : Nat, resets : Nat]

\* What may be written to control.json: a switch, a step of the speed, or nothing.
Controls == [command : {"motor", "relay", "stir_speed"}, value : 0 .. 1]
            \cup [command : {"speed"}, value : {-1, 1}] \cup {NoControl}
Answers == {"none", "confirmed", "rejected", "timeout", "error"}
Conversations == [pc : {"idle", "computed", "polling"}, pending : [control : Controls, cache : Caches],
                  fate : {"none", "applied", "rejected"}, ack : Answers]

BridgeTypes ==
    /\ plant \in Plants
    /\ lastTaken \in [rid : Echoes, ok : BOOLEAN]
    /\ stateFile \in StateFiles
    /\ control \in [do : Controls, rid : Echoes, unseen : BOOLEAN]
    /\ writers \in [BridgeWriters -> Conversations]
    /\ cache \in Caches
    /\ budget \in Budgets
    /\ stopping \in {"no", "engaged", "delivered"}
    /\ halted \in BOOLEAN /\ setup \in Setups

\* The values at rest.
LEMMA BridgeRest ==
  /\ NoControl \in Controls /\ EmptyCache \in Caches /\ NoWrite \in Conversations
  /\ BridgeWriters = {"loop", "http"}
<1>1. NoControl \in Controls
  BY DEF Controls
<1>2. EmptyCache \in Caches
  BY DEF EmptyCache, NoValue, Caches
<1>3. NoWrite \in Conversations
  BY <1>1, <1>2 DEF NoWrite, Conversations, Answers
<1> QED
  BY <1>1, <1>2, <1>3 DEF BridgeWriters

\* A call that is over, or that goes on to write, is a conversation again.
LEMMA CallTypes ==
  ASSUME writers \in [BridgeWriters -> Conversations], NEW w \in BridgeWriters
  PROVE  /\ \A a \in Answers : Ends(w, a) => writers' \in [BridgeWriters -> Conversations]
         /\ \A n \in Controls, c \in Caches : Sends(w, n, c) => writers' \in [BridgeWriters -> Conversations]
<1>1. ASSUME NEW a \in Answers, Ends(w, a)
      PROVE  writers' \in [BridgeWriters -> Conversations]
  <2>1. PICK p \in Answers : writers' = [writers EXCEPT ![w] = [NoWrite EXCEPT !.ack = p]]
    <3>1. NoWrite.ack \in Answers
      BY DEF NoWrite, Answers
    <3>2. writers' = [writers EXCEPT ![w] = [NoWrite EXCEPT !.ack = IF w = "loop" THEN a ELSE NoWrite.ack]]
      BY <1>1 DEF Ends
    <3> QED
      BY <3>1, <3>2
  <2>2. [NoWrite EXCEPT !.ack = p] \in Conversations
    BY <2>1, BridgeRest DEF Conversations
  <2> QED
    BY <2>1, <2>2
<1>2. ASSUME NEW n \in Controls, NEW c \in Caches, Sends(w, n, c)
      PROVE  writers' \in [BridgeWriters -> Conversations]
  <2>1. [NoWrite EXCEPT !.pc = "computed", !.pending = [control |-> n, cache |-> c]] \in Conversations
    BY BridgeRest DEF Conversations
  <2> QED
    BY <1>2, <2>1 DEF Sends
<1> QED
  BY <1>1, <1>2

\* What next_json_bridge_control picks is one of the commands the bridge knows, or an error.
LEMMA NextIsAControl ==
  ASSUME NEW s \in StateFiles, NEW c \in Caches, NEW target \in BridgeTargets
  PROVE  next_json_bridge_control(s, c, target) \in Controls \cup {Unanswerable}
<1> DEFINE wanted == IF target.shake > 0 THEN 1 ELSE 0
           speed == CurrentSpeed(s, c)
<1>1. Send("motor", wanted) \in Controls
  BY DEF Send, Controls
<1>2. \A n \in {-1, 1} : Send("speed", n) \in Controls
  BY DEF Send, Controls
<1>3. DesiredRelay(s, target) \in 0 .. 1
  BY DEF DesiredRelay, StateFiles
<1>4. Send("relay", DesiredRelay(s, target)) \in Controls
  BY <1>3 DEF Send, Controls
<1>5. Send("stir_speed", target.stir) \in Controls
  BY DEF Send, Controls, BridgeTargets
<1>6. Send("speed", IF target.shake > speed THEN 1 ELSE -1) \in Controls
  BY <1>2
<1> HIDE DEF wanted, speed
<1>7. next_json_bridge_control(s, c, target) \in
         {Send("motor", wanted), Send("speed", IF target.shake > speed THEN 1 ELSE -1), Unanswerable,
          Send("relay", DesiredRelay(s, target)), Send("stir_speed", target.stir), NoControl}
  BY DEF next_json_bridge_control, wanted, speed
<1> QED
  BY <1>1, <1>4, <1>5, <1>6, <1>7, BridgeRest

\* A cache stays a cache.
LEMMA CacheStays ==
  ASSUME NEW c \in Caches, NEW do, NEW target \in BridgeTargets
  PROVE  CacheAfter(c, do, target) \in Caches
<1>1. target.shake \in Int /\ target.stir \in Int
  BY DEF BridgeTargets
<1>2. [c EXCEPT !.speed = target.shake] \in Caches /\ [c EXCEPT !.stir = target.stir] \in Caches
  BY <1>1 DEF Caches
<1>3. CacheAfter(c, do, target) \in {[c EXCEPT !.speed = target.shake], [c EXCEPT !.stir = target.stir], c}
  BY DEF CacheAfter
<1> QED
  BY <1>2, <1>3

\* A control moves one actuator of the plant, within its range.
LEMMA AppliedIsAPlant ==
  ASSUME NEW p \in Plants, NEW c \in Controls
  PROVE  Applied(p, c) \in Plants
<1>1. CASE c \in [command : {"motor", "relay", "stir_speed"}, value : 0 .. 1]
  <2>1. c.value \in 0 .. 1 /\ c.command \in {"motor", "relay", "stir_speed"}
    BY <1>1
  <2>2. [p EXCEPT !.motor = c.value] \in Plants /\ [p EXCEPT !.relay = c.value] \in Plants
        /\ [p EXCEPT !.stir = c.value] \in Plants
    BY <2>1 DEF Plants
  <2> QED
    BY <2>1, <2>2 DEF Applied
<1>2. CASE c \in [command : {"speed"}, value : {-1, 1}]
  <2>1. c.command = "speed"
    BY <1>2
  <2>2. p.speed + c.value \in MinSpeed .. MaxSpeed => [p EXCEPT !.speed = @ + c.value] \in Plants
    BY DEF Plants
  <2> QED
    BY <2>1, <2>2 DEF Applied
<1>3. CASE c = NoControl
  BY <1>3 DEF Applied, NoControl
<1> QED
  BY <1>1, <1>2, <1>3 DEF Controls

\* What the controller reports of itself fits state.json: it has a speed, so its delay is defined.
LEMMA ReportIsAStateFile ==
  ASSUME NEW p \in Plants, NEW last \in [rid : Echoes, ok : BOOLEAN]
  PROVE  Report(p, last) \in StateFiles
<1>1. p.speed \in Int /\ p.speed > 0 /\ CpmDelay \in Int
  BY BridgeConstants DEF Plants
<1>2. CpmDelay \div p.speed \in Int
  BY <1>1
<1> DEFINE speed == IF setup.speed = "cpm" THEN p.speed ELSE NoValue
           delay == IF setup.speed = "delay" THEN CpmDelay \div p.speed ELSE NoValue
<1>3. speed \in Int /\ delay \in Int
  BY <1>1, <1>2 DEF NoValue
<1>4. p.temp \in NoValue .. MaxTemp
  BY DEF Plants, NoValue
<1> HIDE DEF speed, delay
<1>5. Report(p, last) = [motor |-> p.motor, relay |-> p.relay, stir |-> p.stir, temp |-> p.temp,
                         speed |-> speed, delay |-> delay, rid |-> last.rid, ok |-> last.ok, usable |-> TRUE]
  BY DEF Report, speed, delay
<1> QED
  BY <1>3, <1>4, <1>5 DEF Plants, StateFiles

\* Startup.
LEMMA BridgeTypesInit == BridgeInit => BridgeTypes
<1> SUFFICES ASSUME BridgeInit
             PROVE  BridgeTypes
  OBVIOUS
<1>1. PICK on \in {0, 1} :
         plant = [motor |-> on, speed |-> IF on = 1 THEN MaxSpeed ELSE MinSpeed,
                  relay |-> on, stir |-> 1, temp |-> MaxTemp - 1]
  BY DEF BridgeInit
<1>2. /\ (IF on = 1 THEN MaxSpeed ELSE MinSpeed) \in MinSpeed .. MaxSpeed
      /\ MaxTemp - 1 \in 0 .. MaxTemp /\ on \in 0 .. 1
  BY BridgeConstants
<1>3. plant \in Plants
  BY <1>1, <1>2 DEF Plants
<1>4. lastTaken \in [rid : Echoes, ok : BOOLEAN]
  BY DEF BridgeInit, Echoes
<1>5. stateFile \in StateFiles
  BY <1>3, <1>4, ReportIsAStateFile DEF BridgeInit
<1>6. control \in [do : Controls, rid : Echoes, unseen : BOOLEAN]
  BY BridgeRest DEF BridgeInit, Echoes
<1>7. writers \in [BridgeWriters -> Conversations] /\ cache \in Caches
  BY BridgeRest DEF BridgeInit
<1>8. budget \in Budgets
  BY BridgeConstants DEF BridgeInit, Budgets
<1>9. stopping \in {"no", "engaged", "delivered"} /\ halted \in BOOLEAN /\ setup \in Setups
  BY DEF BridgeInit
<1> QED
  BY <1>3, <1>4, <1>5, <1>6, <1>7, <1>8, <1>9 DEF BridgeTypes

\* A call that begins: it keeps at most what it worked out.
LEMMA BridgeBeginTypes ==
  ASSUME BridgeTypes,
         \/ LoopCompute \/ HttpCompute \/ EmergencyStopCompute
         \/ \E c \in DirectControls : write_component(c)
  PROVE  BridgeTypes'
<1>0. /\ writers \in [BridgeWriters -> Conversations] /\ cache \in Caches /\ stateFile \in StateFiles
      /\ budget \in Budgets /\ halted \in BOOLEAN
  BY DEF BridgeTypes
<1>1. ASSUME NEW w \in BridgeWriters, NEW target \in BridgeTargets, Compute(w, target)
      PROVE  /\ writers' \in [BridgeWriters -> Conversations] /\ halted' \in BOOLEAN
             /\ UNCHANGED <<plant, stateFile, lastTaken, control, cache, setup>>
  <2> DEFINE next == next_json_bridge_control(stateFile, cache, target)
  <2>1. next \in Controls \cup {Unanswerable} /\ CacheAfter(cache, next, target) \in Caches
    BY <1>0, NextIsAControl, CacheStays
  <2>2. \/ Ends(w, "error") /\ halted' = TRUE
        \/ Ends(w, "confirmed") /\ halted' = halted
        \/ next # Unanswerable /\ Sends(w, next, CacheAfter(cache, next, target)) /\ halted' = halted
    BY <1>1 DEF Compute
  <2> HIDE DEF next
  <2>3. "error" \in Answers /\ "confirmed" \in Answers
    BY DEF Answers
  <2>4. writers' \in [BridgeWriters -> Conversations] /\ halted' \in BOOLEAN
    BY <1>0, <2>1, <2>2, <2>3, CallTypes
  <2> QED
    BY <1>1, <2>4 DEF Compute, DownstreamSame
<1>2. "loop" \in BridgeWriters /\ "http" \in BridgeWriters
  BY BridgeRest
<1>3. /\ LoopTargets \subseteq BridgeTargets /\ HttpTargets \subseteq BridgeTargets
      /\ StopTargets \subseteq BridgeTargets
  BY BridgeConstants DEF BridgeTargets
<1>4. budget.http > 0 => [budget EXCEPT !.http = @ - 1] \in Budgets
  BY <1>0 DEF Budgets
<1>5. CASE LoopCompute
  BY <1>1, <1>2, <1>3, <1>5 DEF LoopCompute, BridgeTypes
<1>6. CASE HttpCompute
  BY <1>1, <1>2, <1>3, <1>4, <1>6 DEF HttpCompute, BridgeTypes
<1>7. CASE EmergencyStopCompute
  BY <1>1, <1>2, <1>3, <1>4, <1>7 DEF EmergencyStopCompute, BridgeTypes
<1>8. ASSUME NEW c \in DirectControls, write_component(c)
      PROVE  BridgeTypes'
  <2>1. c \in Controls /\ (c.command = "stir_speed" => c.value \in Int)
    BY DEF DirectControls, Send, Controls
  <2> DEFINE after == [cache EXCEPT !.stir = IF c.command = "stir_speed" THEN c.value ELSE @]
  <2>2. after \in Caches
    BY <1>0, <2>1 DEF Caches
  <2>3. Ends("http", "error") \/ Ends("http", "confirmed") \/ Sends("http", c, after)
    BY <1>8 DEF write_component
  <2> HIDE DEF after
  <2>4. "error" \in Answers /\ "confirmed" \in Answers
    BY DEF Answers
  <2>5. writers' \in [BridgeWriters -> Conversations]
    BY <1>0, <1>2, <2>1, <2>2, <2>3, <2>4, CallTypes
  <2>6. halted' \in BOOLEAN
    <3>1. halted' = (halted \/ ~json_bridge_direct_control_is_risk_reducing(c))
      BY <1>8 DEF write_component
    <3> QED
      BY <3>1
  <2> QED
    BY <1>4, <1>8, <2>5, <2>6 DEF write_component, DownstreamSame, BridgeTypes
<1> QED
  BY <1>5, <1>6, <1>7, <1>8

\* The rename: control.json holds what was worked out, and the caches follow; or it fails.
LEMMA BridgeWriteTypes ==
  ASSUME BridgeTypes, NEW w \in BridgeWriters, write_json_bridge_control(w)
  PROVE  BridgeTypes'
<1>0. /\ writers \in [BridgeWriters -> Conversations] /\ stateFile \in StateFiles /\ cache \in Caches
      /\ control \in [do : Controls, rid : Echoes, unseen : BOOLEAN] /\ budget \in Budgets
      /\ lastTaken \in [rid : Echoes, ok : BOOLEAN] /\ stopping \in {"no", "engaged", "delivered"}
      /\ halted \in BOOLEAN
  BY DEF BridgeTypes
<1>1. writers[w].pending.control \in Controls /\ writers[w].pending.cache \in Caches
  BY <1>0 DEF Conversations
<1>2. Renamed(w) \/ UNCHANGED <<control, lastTaken, stateFile>>
  BY DEF write_json_bridge_control
<1>3. control' \in [do : Controls, rid : Echoes, unseen : BOOLEAN]
  <2>1. CASE Renamed(w)
    <3>1. control' = [do |-> writers[w].pending.control, rid |-> IF w = "loop" THEN "mine" ELSE "other",
                      unseen |-> TRUE]
      BY <2>1 DEF Renamed
    <3>2. (IF w = "loop" THEN "mine" ELSE "other") \in Echoes
      BY DEF Echoes
    <3> QED
      BY <1>1, <3>1, <3>2
  <2>2. CASE UNCHANGED <<control, lastTaken, stateFile>>
    BY <1>0, <2>2
  <2> QED
    BY <1>2, <2>1, <2>2
<1>4. lastTaken' \in [rid : Echoes, ok : BOOLEAN] /\ stateFile' \in StateFiles
  <2>1. Older(lastTaken) \in [rid : Echoes, ok : BOOLEAN]
    BY <1>0 DEF Older, Echoes
  <2>2. Older(stateFile) \in StateFiles
    BY <1>0 DEF Older, Echoes, StateFiles
  <2> QED
    BY <1>0, <1>2, <2>1, <2>2 DEF Renamed
<1>5. cache' \in Caches /\ stopping' \in {"no", "engaged", "delivered"} /\ halted' \in BOOLEAN
  BY <1>0, <1>1 DEF write_json_bridge_control
<1>6. writers' \in [BridgeWriters -> Conversations]
  <2>1. \A p \in {"polling", "idle"} : [NoWrite EXCEPT !.pc = p] \in Conversations
    BY BridgeRest DEF Conversations
  <2>2. "error" \in Answers
    BY DEF Answers
  <2>3. \/ \E p \in {"polling", "idle"} : writers' = [writers EXCEPT ![w] = [NoWrite EXCEPT !.pc = p]]
        \/ Ends(w, "error")
    BY DEF write_json_bridge_control
  <2> QED
    BY <1>0, <2>1, <2>2, <2>3, CallTypes
<1>7. budget' \in Budgets
  BY <1>0 DEF write_json_bridge_control, Budgets
<1> QED
  BY <1>3, <1>4, <1>5, <1>6, <1>7 DEF write_json_bridge_control, BridgeTypes

\* Downstream: the plant moves within its ranges, and reports itself.
LEMMA BridgeDownstreamTypes ==
  ASSUME BridgeTypes,
         \/ \E ok \in BOOLEAN : TakeControl(ok)
         \/ PublishState \/ StateGoesBad \/ TemperatureDrifts
  PROVE  BridgeTypes'
<1>0. /\ plant \in Plants /\ stateFile \in StateFiles /\ lastTaken \in [rid : Echoes, ok : BOOLEAN]
      /\ control \in [do : Controls, rid : Echoes, unseen : BOOLEAN]
      /\ writers \in [BridgeWriters -> Conversations]
      /\ budget \in Budgets
  BY DEF BridgeTypes
<1>1. budget.mishaps > 0 => [budget EXCEPT !.mishaps = @ - 1] \in Budgets
  BY <1>0 DEF Budgets
<1>2. ASSUME NEW ok \in BOOLEAN, TakeControl(ok)
      PROVE  BridgeTypes'
  <2>1. control' \in [do : Controls, rid : Echoes, unseen : BOOLEAN]
    BY <1>0, <1>2 DEF TakeControl
  <2>2. control.do \in Controls /\ control.rid \in Echoes
    BY <1>0
  <2>3. plant' \in Plants
    BY <1>0, <1>2, <2>2, AppliedIsAPlant DEF TakeControl
  <2>4. lastTaken' \in [rid : Echoes, ok : BOOLEAN]
    BY <1>2, <2>2 DEF TakeControl
  <2>5. writers' \in [BridgeWriters -> Conversations]
    <3>1. writers["loop"] \in Conversations
      BY <1>0, BridgeRest
    <3>2. \A f \in {"applied", "rejected"} :
             [writers["loop"] EXCEPT !.fate = f] \in Conversations
      BY <3>1 DEF Conversations
    <3>3. \A f \in {"applied", "rejected"} :
             [writers EXCEPT !["loop"].fate = f] = [writers EXCEPT !["loop"] = [writers["loop"] EXCEPT !.fate = f]]
      BY <1>0, BridgeRest
    <3>4. writers' = writers \/ \E f \in {"applied", "rejected"} : writers' = [writers EXCEPT !["loop"].fate = f]
      BY <1>2 DEF TakeControl
    <3> QED
      BY <1>0, <3>2, <3>3, <3>4, BridgeRest
  <2>6. budget' \in Budgets
    BY <1>0, <1>1, <1>2 DEF TakeControl
  <2> QED
    BY <1>2, <2>1, <2>3, <2>4, <2>5, <2>6 DEF TakeControl, BridgeTypes
<1>3. CASE PublishState
  <2>1. stateFile' \in StateFiles
    BY <1>0, <1>3, ReportIsAStateFile DEF PublishState
  <2> QED
    BY <1>3, <2>1 DEF PublishState, BridgeTypes
<1>4. CASE StateGoesBad
  <2>1. [stateFile EXCEPT !.usable = FALSE] \in StateFiles
    BY <1>0 DEF StateFiles
  <2>2. NoValue \in NoValue .. MaxTemp
    BY BridgeConstants DEF NoValue
  <2>3. [stateFile EXCEPT !.temp = NoValue] \in StateFiles
    BY <1>0, <2>2 DEF StateFiles
  <2>4. stateFile' \in StateFiles
    BY <1>4, <2>1, <2>3 DEF StateGoesBad
  <2> QED
    BY <1>1, <1>4, <2>4 DEF StateGoesBad, BridgeTypes
<1>5. CASE TemperatureDrifts
  <2>1. \A t \in 0 .. MaxTemp : [plant EXCEPT !.temp = t] \in Plants
    BY <1>0 DEF Plants
  <2>2. budget' \in Budgets
    BY <1>1, <1>5 DEF TemperatureDrifts
  <2>3. plant' \in Plants
    BY <1>5, <2>1 DEF TemperatureDrifts
  <2> QED
    BY <1>5, <2>2, <2>3 DEF TemperatureDrifts, BridgeTypes
<1> QED
  BY <1>2, <1>3, <1>4, <1>5

\* The loop's answers, what it senses, and an operator's reset.
LEMMA BridgePollTypes ==
  ASSUME BridgeTypes, PollState \/ LoopSenses \/ ResetAndEnable
  PROVE  BridgeTypes'
<1>0. /\ writers \in [BridgeWriters -> Conversations] /\ budget \in Budgets /\ halted \in BOOLEAN
      /\ "loop" \in BridgeWriters
  BY BridgeRest DEF BridgeTypes
<1>1. ASSUME NEW a \in Answers, LoopHears(a)
      PROVE  BridgeTypes'
  <2>1. writers' \in [BridgeWriters -> Conversations]
    BY <1>0, <1>1, CallTypes DEF LoopHears
  <2>2. halted' \in BOOLEAN
    <3>1. halted' = (halted \/ a # "confirmed")
      BY <1>1 DEF LoopHears
    <3> QED
      BY <3>1
  <2> QED
    BY <1>1, <2>1, <2>2 DEF LoopHears, DownstreamSame, BridgeTypes
<1>2. CASE PollState
  <2>1. \E a \in Answers : LoopHears(a)
    BY <1>2 DEF PollState, Answers
  <2> QED
    BY <1>1, <2>1
<1>3. CASE LoopSenses
  BY <1>3 DEF LoopSenses, DownstreamSame, BridgeTypes
<1>4. CASE ResetAndEnable
  <2>1. budget' \in Budgets
    BY <1>0, <1>4 DEF ResetAndEnable, Budgets
  <2> QED
    BY <1>4, <2>1 DEF ResetAndEnable, DownstreamSame, BridgeTypes
<1> QED
  BY <1>2, <1>3, <1>4

(***************************************************************************)
(* The types of the JSON bridge: whatever interleaving of writers,         *)
(* failures and resets, the controller's actuators stay in their ranges,   *)
(* so that the speed it reports by its step delay is always defined, and   *)
(* the calls stay in their phases (next_json_bridge_control,               *)
(* write_component, write_targets_acknowledged).                           *)
(***************************************************************************)
THEOREM BridgeTypeCorrect == BridgeSpec => []BridgeTypeOK
<1>1. ASSUME BridgeTypes, [BridgeNext]_bridgeVars
      PROVE  BridgeTypes'
  <2>1. CASE UNCHANGED bridgeVars
    BY <1>1, <2>1 DEF bridgeVars, BridgeTypes
  <2>2. CASE BridgeNext
    BY <1>1, <2>2, BridgeBeginTypes, BridgeWriteTypes, BridgePollTypes, BridgeDownstreamTypes
       DEF BridgeNext
  <2> QED
    BY <1>1, <2>1, <2>2
<1>2. ASSUME BridgeTypes
      PROVE  BridgeTypeOK
  <2>1. \A w \in BridgeWriters : writers[w].pc \in {"idle", "computed", "polling"}
    BY <1>2 DEF BridgeTypes, Conversations
  <2>2. \A b \in DOMAIN budget : budget[b] \in Nat
    BY <1>2 DEF BridgeTypes, Budgets
  <2> QED
    BY <1>2, <2>1, <2>2 DEF BridgeTypes, BridgeTypeOK, Plants, StateFiles, Echoes
<1> QED
  BY <1>1, <1>2, BridgeTypesInit, PTL DEF BridgeSpec
=============================================================================
