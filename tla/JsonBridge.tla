------------------------------ MODULE JsonBridge ------------------------------
(***************************************************************************)
(* The JSON file bridge.  The daemon writes one command at a time to       *)
(* control.json; the bridge process forwards it to the downstream          *)
(* controller and reports through state.json.  A command with seven        *)
(* targets is sent one atomic step at a time: motor, then speed, then      *)
(* heater relay, then stirrer.  Nothing orders the writers of              *)
(* control.json, and a later write replaces one nobody has read.           *)
(*                                                                         *)
(* Request ids are unique in the code, and one question is ever asked of   *)
(* them: is this the id the control loop is waiting for?  So an id here is *)
(* "mine", the loop's latest, or "other".  The bridge process and the      *)
(* plant are external.                                                     *)
(*                                                                         *)
(* A command of the loop's that is refused, fails or is not heard of       *)
(* latches a control fault and ends automatic control (main.rs), until an  *)
(* operator resets the one and enables the other again.  The calls run on  *)
(* blocking threads and outlive an HTTP client that goes away.             *)
(***************************************************************************)
EXTENDS Integers

CONSTANTS
    LoopTargets,        \* what the control loop drives to
    HttpTargets,        \* what process starts and component targets send
    StopTargets,        \* process_stop_targets
    MinSpeed, MaxSpeed, \* the controller's speed steps
    MaxTemp,
    CpmDelay,           \* speed times delay: what 60 s are to one shaker cycle
    Setups,             \* how speed is reported, and whether the relay controls temperature
    speed_deadband_cpm, temperature_deadband_c,
    MaxHttpWrites,      \* bound on writes of the HTTP handlers
    MaxMishaps,         \* bound on rejections, failed writes, bad state files and temperature changes
    MaxResets           \* bound on an operator's resets

ASSUME BridgeConstants ==
    /\ MaxHttpWrites \in Nat /\ MaxMishaps \in Nat /\ MaxResets \in Nat
    /\ MinSpeed \in Nat \ {0} /\ MaxSpeed \in Nat /\ MinSpeed <= MaxSpeed
    /\ MaxTemp \in Nat \ {0} /\ CpmDelay \in Nat
    /\ Setups \subseteq [speed : {"cpm", "delay"}, relay_temperature_control : BOOLEAN]
    /\ LoopTargets \cup HttpTargets \cup StopTargets \subseteq [shake : Nat, temp : Nat, stir : 0 .. 1]

VARIABLES
    plant,      \* the controller: motor, speed, relay, stirrer and temperature
    stateFile,  \* state.json
    control,    \* control.json: the command, its id, and whether the bridge has yet to see it
    lastTaken,  \* the bridge process's last request: [rid, ok]
    writers,    \* the daemon's calls
    cache,      \* last_commanded_shake_speed_cpm, last_stirrer_command
    halted,     \* a fault is latched, or automatic control is off: the loop writes nothing
    setup,      \* the configuration
    budget,     \* what is left of the bounds
    stopping    \* emergency_stop: "no", "engaged", "delivered"

bridgeVars ==
    <<plant, stateFile, control, lastTaken, writers, cache, halted, setup, budget, stopping>>

BridgeWriters == {"loop", "http"}
NoControl == [command |-> "none", value |-> 0]
NoValue == -1
EmptyCache == [speed |-> NoValue, stir |-> NoValue]
NoWrite == [pc |-> "idle", pending |-> [control |-> NoControl, cache |-> EmptyCache],
            fate |-> "none", ack |-> "none"]

-----------------------------------------------------------------------------
(* What to send next.                                                      *)

Far(a, b, d) == a - b > d \/ b - a > d

\* build_json_bridge_control and the cache update that goes with it.
Send(command, value) == [command |-> command, value |-> value]

\* Option::or
Or(a, b) == IF a # NoValue THEN a ELSE b

\* Cycles per minute of a delay between two motor steps; zero stands for no delay.
speed_delay_us_to_cpm(delay) == IF delay \in {0, NoValue} THEN NoValue ELSE CpmDelay \div delay

\* Mutant: what was last commanded is believed before what the controller reports.
SpeedFromCache(s, c) == IF c.speed # NoValue THEN c.speed ELSE s.speed

\* state.shake_speed_cpm, else the speed of state.speed_delay_us, else the cache, else zero.
CurrentSpeed(s, c) == Or(Or(Or(s.speed, speed_delay_us_to_cpm(s.delay)), c.speed), 0)

CurrentStirrer(s, c) == Or(s.stir, c.stir)

\* The relay the target asks for, kept inside the deadband and where it does not control.
DesiredRelay(s, target) ==
    IF ~setup.relay_temperature_control THEN s.relay
    ELSE IF target.temp > s.temp + temperature_deadband_c THEN 1
    ELSE IF target.temp < s.temp - temperature_deadband_c THEN 0
    ELSE s.relay

\* The relay's turn comes, and state.json has no temperature.
Unanswerable == Send("error", 0)

\* The one command next_json_bridge_control picks for a usable state, none, or an error.
next_json_bridge_control(s, c, target) ==
    LET wanted == IF target.shake > 0 THEN 1 ELSE 0
        speed == CurrentSpeed(s, c)
        moving == s.motor = wanted /\ ~Far(target.shake, speed, speed_deadband_cpm)
        blind == setup.relay_temperature_control /\ s.temp = NoValue
    IN  CASE s.motor # wanted -> Send("motor", wanted)
          [] s.motor = wanted /\ ~moving -> Send("speed", IF target.shake > speed THEN 1 ELSE -1)
          [] moving /\ blind -> Unanswerable
          [] moving /\ ~blind /\ DesiredRelay(s, target) # s.relay -> Send("relay", DesiredRelay(s, target))
          [] moving /\ ~blind /\ DesiredRelay(s, target) = s.relay /\ CurrentStirrer(s, c) # target.stir ->
                Send("stir_speed", target.stir)
          [] OTHER -> NoControl

\* apply_json_bridge_cache_update for a command sent on the way to a target.
CacheAfter(c, sentControl, target) ==
    CASE sentControl.command \in {"motor", "speed"} -> [c EXCEPT !.speed = target.shake]
      [] sentControl.command = "stir_speed" -> [c EXCEPT !.stir = target.stir]
      [] OTHER -> c

-----------------------------------------------------------------------------
BridgeTypeOK ==
    /\ setup \in Setups /\ halted \in BOOLEAN
    /\ plant \in [motor : 0 .. 1, speed : MinSpeed .. MaxSpeed, relay : 0 .. 1, stir : 0 .. 1, temp : 0 .. MaxTemp]
    /\ stateFile.usable \in BOOLEAN
    /\ \A w \in BridgeWriters : writers[w].pc \in {"idle", "computed", "polling"}
    /\ control.rid \in {"none", "mine", "other"} /\ control.unseen \in BOOLEAN
    /\ stopping \in {"no", "engaged", "delivered"}
    /\ \A b \in DOMAIN budget : budget[b] \in Nat

Report(p, last) ==
    [motor |-> p.motor, relay |-> p.relay, stir |-> p.stir, temp |-> p.temp,
     speed |-> IF setup.speed = "cpm" THEN p.speed ELSE NoValue,
     delay |-> IF setup.speed = "delay" THEN CpmDelay \div p.speed ELSE NoValue,
     rid |-> last.rid, ok |-> last.ok, usable |-> TRUE]

BridgeInit ==
    /\ setup \in Setups
    /\ \E on \in {0, 1} :    \* a plant at rest, or one that was left running
           plant = [motor |-> on, speed |-> IF on = 1 THEN MaxSpeed ELSE MinSpeed,
                    relay |-> on, stir |-> 1, temp |-> MaxTemp - 1]
    /\ lastTaken = [rid |-> "none", ok |-> FALSE]
    /\ stateFile = Report(plant, lastTaken)
    /\ control = [do |-> NoControl, rid |-> "none", unseen |-> FALSE]
    /\ writers = [w \in BridgeWriters |-> NoWrite]
    /\ cache = EmptyCache /\ halted = FALSE
    /\ budget = [http |-> MaxHttpWrites, mishaps |-> MaxMishaps, resets |-> MaxResets]
    /\ stopping = "no"

DownstreamSame == UNCHANGED <<plant, stateFile, lastTaken>>

\* validate_json_bridge_state: connected, last frame good, not stale.
validate_json_bridge_state == stateFile.usable

\* A call is over, the loop's with this answer, or goes on to write this command and this cache.
Ends(w, ack) ==
    writers' = [writers EXCEPT ![w] = [NoWrite EXCEPT !.ack = IF w = "loop" THEN ack ELSE @]]

Sends(w, next, newCache) ==
    writers' = [writers EXCEPT ![w] =
        [NoWrite EXCEPT !.pc = "computed", !.pending = [control |-> next, cache |-> newCache]]]

(***************************************************************************)
(* A call reads state.json and works out its command.  With nothing to     *)
(* send it is over: the loop's handshake counts as confirmed.  A state     *)
(* that is not usable is an error, and the caller latches a fault.         *)
(***************************************************************************)
Compute(w, target) ==
    LET next == next_json_bridge_control(stateFile, cache, target)
        fails == ~validate_json_bridge_state \/ next = Unanswerable
    IN  /\ writers[w].pc = "idle"
        /\ \/ fails /\ Ends(w, "error") /\ halted' = TRUE
           \/ ~fails /\ next = NoControl /\ Ends(w, "confirmed") /\ UNCHANGED halted
           \/ /\ ~fails /\ next # NoControl /\ Sends(w, next, CacheAfter(cache, next, target))
              /\ UNCHANGED halted
        /\ DownstreamSame /\ UNCHANGED <<control, cache, setup>>

LoopCompute ==
    /\ stopping = "no" /\ ~halted
    /\ \E t \in LoopTargets : Compute("loop", t)
    /\ UNCHANGED <<budget, stopping>>

\* Requests pass the fault interlock earlier, and it may have been latched since.
HttpCompute ==
    /\ stopping = "no" /\ budget.http > 0
    /\ \E t \in HttpTargets : Compute("http", t)
    /\ budget' = [budget EXCEPT !.http = @ - 1]
    /\ UNCHANGED stopping

\* Component commands that are translated one to one.  The driver also knows relay 1 and speed
\* up and down, but the zone check of the only caller refuses them.
DirectControls ==
    {Send("motor", 0), Send("motor", 1), Send("relay", 0)} \cup {Send("stir_speed", v) : v \in {0, 1}}

json_bridge_direct_control_is_risk_reducing(c) == c.command \in {"motor", "relay"} /\ c.value = 0

AlreadyStirs(c) == c.command = "stir_speed" /\ CurrentStirrer(stateFile, cache) = c.value

\* Stop and off are sent whatever state.json says.  Other commands end automatic control first.
write_component(c) ==
    LET reduces == json_bridge_direct_control_is_risk_reducing(c)
        fails == ~validate_json_bridge_state /\ ~reduces
    IN  /\ writers["http"].pc = "idle" /\ stopping = "no" /\ budget.http > 0
        /\ \/ fails /\ Ends("http", "error")
           \/ ~fails /\ AlreadyStirs(c) /\ Ends("http", "confirmed")
           \/ /\ ~fails /\ ~AlreadyStirs(c)
              /\ Sends("http", c, [cache EXCEPT !.stir = IF c.command = "stir_speed" THEN c.value ELSE @])
        /\ halted' = (halted \/ ~reduces)
        /\ budget' = [budget EXCEPT !.http = @ - 1]
        /\ DownstreamSame /\ UNCHANGED <<control, cache, setup, stopping>>

\* emergency_stop engages its latch, then writes the fail-safe targets with one call.
EmergencyStopCompute ==
    /\ stopping = "no" /\ budget.http > 0
    /\ \E t \in StopTargets : Compute("http", t)
    /\ stopping' = "engaged"
    /\ budget' = [budget EXCEPT !.http = @ - 1]

(***************************************************************************)
(* The rename, and the caches after it.  The loop goes on to poll for its  *)
(* request id; an HTTP call is over.  A write that fails may have renamed  *)
(* the file.                                                               *)
(***************************************************************************)
Older(answer) == IF answer.rid = "mine" THEN [answer EXCEPT !.rid = "other"] ELSE answer

Renamed(w) ==
    /\ control' = [do |-> writers[w].pending.control, rid |-> IF w = "loop" THEN "mine" ELSE "other",
                   unseen |-> TRUE]
    /\ IF w = "loop" THEN lastTaken' = Older(lastTaken) /\ stateFile' = Older(stateFile)
       ELSE UNCHANGED <<lastTaken, stateFile>>

write_json_bridge_control(w) ==
    /\ writers[w].pc = "computed"
    /\ \/ /\ Renamed(w) /\ cache' = writers[w].pending.cache
          /\ writers' = [writers EXCEPT ![w] =
                 [NoWrite EXCEPT !.pc = IF w = "loop" THEN "polling" ELSE "idle"]]
          /\ stopping' = IF w = "http" /\ stopping = "engaged" THEN "delivered" ELSE stopping
          /\ UNCHANGED <<halted, budget>>
       \/ /\ budget.mishaps > 0 /\ budget' = [budget EXCEPT !.mishaps = @ - 1]
          /\ Renamed(w) \/ UNCHANGED <<control, lastTaken, stateFile>>
          /\ Ends(w, "error") /\ halted' = TRUE
          /\ UNCHANGED <<cache, stopping>>
    /\ UNCHANGED <<plant, setup>>

\* The loop takes an answer; anything but a confirmation latches a fault.
LoopHears(ack) ==
    /\ Ends("loop", ack)
    /\ halted' = (halted \/ ack # "confirmed")
    /\ DownstreamSame /\ UNCHANGED <<control, cache, setup, budget, stopping>>

\* Mutant: any echo in state.json is taken for this command's.
PollAnyEcho ==
    /\ writers["loop"].pc = "polling"
    /\ \/ stateFile.rid # "none" /\ LoopHears(IF stateFile.ok THEN "confirmed" ELSE "rejected")
       \/ LoopHears("timeout")

\* The handshake: the echo of this request id decides, or the window closes.
PollState ==
    /\ writers["loop"].pc = "polling"
    /\ \/ stateFile.rid = "mine" /\ LoopHears(IF stateFile.ok THEN "confirmed" ELSE "rejected")
       \/ LoopHears("timeout")

\* A cycle that cannot read the sample ends automatic control, and one that finds the last
\* command failed, whoever sent it, latches a fault (downstream_command_fault_reason).
LoopSenses ==
    /\ ~halted /\ writers["loop"].pc = "idle"
    /\ ~validate_json_bridge_state \/ (stateFile.rid # "none" /\ ~stateFile.ok)
    /\ halted' = TRUE
    /\ DownstreamSame /\ UNCHANGED <<control, writers, cache, setup, budget, stopping>>

\* An operator resets the fault and enables automatic control.
ResetAndEnable ==
    /\ halted /\ stopping = "no" /\ budget.resets > 0
    /\ halted' = FALSE /\ budget' = [budget EXCEPT !.resets = @ - 1]
    /\ DownstreamSame /\ UNCHANGED <<control, writers, cache, setup, stopping>>

-----------------------------------------------------------------------------
(* Downstream.                                                             *)

Applied(p, c) ==
    CASE c.command = "motor" -> [p EXCEPT !.motor = c.value]
      [] c.command = "relay" -> [p EXCEPT !.relay = c.value]
      [] c.command = "stir_speed" -> [p EXCEPT !.stir = c.value]
      [] c.command = "speed" /\ p.speed + c.value \in MinSpeed .. MaxSpeed ->
            [p EXCEPT !.speed = @ + c.value]
      [] OTHER -> p

\* The bridge process finds a request it has not seen and applies or rejects it.
TakeControl(ok) ==
    /\ control.unseen
    /\ ok \/ budget.mishaps > 0
    /\ control' = [control EXCEPT !.unseen = FALSE]
    /\ plant' = IF ok THEN Applied(plant, control.do) ELSE plant
    /\ lastTaken' = [rid |-> control.rid, ok |-> ok]
    /\ writers' = IF control.rid = "mine" /\ writers["loop"].pc = "polling"
                  THEN [writers EXCEPT !["loop"].fate = IF ok THEN "applied" ELSE "rejected"]
                  ELSE writers
    /\ budget' = IF ok THEN budget ELSE [budget EXCEPT !.mishaps = @ - 1]
    /\ UNCHANGED <<stateFile, cache, halted, setup, stopping>>

PublishState ==
    /\ stateFile # Report(plant, lastTaken)
    /\ stateFile' = Report(plant, lastTaken)
    /\ UNCHANGED <<plant, control, lastTaken, writers, cache, halted, setup, budget, stopping>>

\* The controller disconnects, sends a bad frame or no temperature, or state.json grows stale.
StateGoesBad ==
    /\ stateFile.usable /\ budget.mishaps > 0
    /\ \/ stateFile' = [stateFile EXCEPT !.usable = FALSE]
       \/ stateFile' = [stateFile EXCEPT !.temp = NoValue]
    /\ budget' = [budget EXCEPT !.mishaps = @ - 1]
    /\ UNCHANGED <<plant, control, lastTaken, writers, cache, halted, setup, stopping>>

TemperatureDrifts ==
    /\ budget.mishaps > 0
    /\ LET t == plant.temp + (IF plant.relay = 1 THEN 1 ELSE -1) IN
       t \in 0 .. MaxTemp /\ plant' = [plant EXCEPT !.temp = t]
    /\ budget' = [budget EXCEPT !.mishaps = @ - 1]
    /\ UNCHANGED <<stateFile, control, lastTaken, writers, cache, halted, setup, stopping>>

BridgeNext ==
    \/ LoopCompute \/ HttpCompute \/ EmergencyStopCompute
    \/ \E c \in DirectControls : write_component(c)
    \/ \E w \in BridgeWriters : write_json_bridge_control(w)
    \/ PollState \/ LoopSenses \/ ResetAndEnable
    \/ \E ok \in BOOLEAN : TakeControl(ok)
    \/ PublishState \/ StateGoesBad \/ TemperatureDrifts

BridgeSpec == BridgeInit /\ [][BridgeNext]_bridgeVars

-----------------------------------------------------------------------------
(* Properties.                                                             *)

(***************************************************************************)
(* A command the loop sent and heard confirmed was applied by the          *)
(* controller, and one it heard rejected was rejected: no echo of an       *)
(* earlier command, and no command that replaced this one in control.json, *)
(* stands in for it (JsonBridgeDevice::write_targets_acknowledged).        *)
(***************************************************************************)
BridgeEchoIsOwn ==
    [][writers["loop"].pc = "polling" /\ writers'["loop"].pc = "idle" =>
          /\ writers'["loop"].ack = "confirmed" => writers["loop"].fate = "applied"
          /\ writers'["loop"].ack = "rejected" => writers["loop"].fate = "rejected"]_bridgeVars

(***************************************************************************)
(* One command per cycle is enough: with the loop driving to one target,   *)
(* after finitely many disturbances the controller ends with the motor,    *)
(* speed, relay and stirrer that target asks for, and stays there          *)
(* (next_json_bridge_control), unless the loop's part has ended: in an     *)
(* emergency stop, in a fault of an unconfirmed command, or because an     *)
(* operator's command ended automatic control.                             *)
(***************************************************************************)
BridgeConverges ==
    \A t \in LoopTargets :
        <>[](\/ stopping # "no" \/ halted
             \/ /\ plant.motor = IF t.shake > 0 THEN 1 ELSE 0
                /\ ~Far(plant.speed, t.shake, speed_deadband_cpm)
                /\ DesiredRelay(plant, t) = plant.relay
                /\ plant.stir = t.stir)

(***************************************************************************)
(* Once the emergency stop's write has succeeded and the bridge process    *)
(* has taken it, heater and shaker are off: "we must drive                 *)
(* temperature/stirrer down to safe values" (emergency_stop in api.rs).    *)
(***************************************************************************)
StopReachesEveryActuator ==
    stopping = "delivered" /\ ~control.unseen /\ lastTaken.ok
        => plant.motor = 0 /\ plant.relay = 0
=============================================================================
