# Verification of the ReactorOS control daemon

This directory holds TLA+ models of ReactorOS, the software that decides
whether a chemical reactor is driven automatically and what is written to it:
the daemon `reactor-edge-daemon` (Rust, `src/src/`) and the maintenance commands
of its operations tool `xingshu`. It holds the TLC configurations that check
them and the TLAPS proofs of what matters most.

    tlc -config MCSafetyLatches_latches.cfg MCSafetyLatches   # one run
    tlapm SafetyLatchesProofs.tla                             # the proofs

`PROJECT.json` lists components, runs, mutants, the map from definitions to
source lines, findings, hazards and theorems.

## 1. The system

One process, a Tokio runtime with two workers, one SQLite database, one device.
All tasks share one `RuntimeState` behind an `RwLock`.

| Part | State it keeps | Operations | Hard because |
| --- | --- | --- | --- |
| Runtime state (`state.rs`, `runtime_recovery.rs`) | latest sample, targets, `auto_enabled`, three latches (manual lock, emergency stop, control fault) with generation counters, active batch, device status | engage/clear a latch, accept/reject a sample, recover from the database | everybody writes it; latches live in memory only |
| Control requests (`api.rs`) | per request: a clone of the runtime, the generations it acknowledged, a merged target | automatic control on/off, lock/unlock, fault reset, emergency-stop reset, targets | check, database, audit and commit are separated by awaits with the lock released |
| Component and AI control (`api.rs`) | per request: the target set it started from | single-axis commands; AI: targets, start, stop, shaker in one request | the device is written before audit and commit |
| Control loop (`main.rs`) | last command written, backoff | sense, decide, two-phase final interlock, device write, acknowledgement, audit; a monitor if it dies | the guard process may take its time; the device acts before the audit row |
| Process and batch lifecycle (`api.rs`, `db.rs`) | batch rows, the active batch | process start, batch start, v1 `auto_start`, AINAS start; process stop, batch finish | five kinds of request on one device, no mutex, rollback that may fail, crashes |
| Emergency stop, data pipeline ingest (`api.rs`) | - | engage and write fail-safe targets; store a sample and apply alarms | races the loop for the device; two locks |
| Control decision and guard (`control.rs`, `safety_guard.rs`) | - | pure decision, the same one in a subprocess | numeric limits, process failure |
| Device drivers (`device.rs`) | serial line, Modbus client, JSON bridge files and caches | read, write, write with acknowledgement | late, lost and doubled answers, partial writes, one slot for commands |
| Integration tasks, AINAS, MQTT (`api_integrations.rs`, `mqtt.rs`, `db.rs`) | task table, MQTT client queue | accept, claim, execute, record, publish | at most once under retries, redelivery, crashes; a queue only its filler drains |
| Audit chain and recipes (`db.rs`) | hash-chained events, recipes, results, recommendations | append, change with audit, verify | concurrent transactions, some outside the locks; verification in two queries |
| Modbus TCP server (`modbus_tcp.rs`, `modbus_registers.rs`) | connections, slots | read, write | bounded slots, silent clients, 16-bit encoding of a merged target |
| Accounts (`api_auth.rs`, `bootstrap.rs`) | password overrides; sessions are stateless | login, permission, password change, startup check | change before audit, secrets that change |
| Operations tool (`bin/xingshu.rs`, `db.rs`) | database file, `-wal`, snapshot and digest, keys | backup, restore, wipe, delete, key generate, rekey | killed between any two file operations |
| A/B update scripts (`deploy/`) | slots, state file | switch, health check, roll back | power loss |
| Everything else | - | optimizer, AI providers, memory, reports, simulation, configuration, front ends | no effect on control of its own |

Interaction: requests, loop, ingest and monitor communicate through the runtime
record; requests and loop also through the batch rows; loop, emergency stop,
starts, stops and component commands all write to the same device, through one
driver. Integration tasks call the lifecycle and the target update; the Modbus
server and the AI call the same commits as an operator's request. Everything
that changes control leaves an event in the audit chain.

What makes the parts correct:

* automatic control is on only on a field that is proven safe, and a latch that
  was engaged while a request waited stops that request even if the latch has
  been cleared again; a reset clears what its operator acknowledged;
* the loop writes what the live state calls for, and a device action that is
  not on record or not committed leaves a fault, whoever took it;
* two productions never drive the device together, and a device that runs is
  always somebody's: an active batch, a latched fault, a start in flight, or, if
  that start was dropped with its client, an open row that blocks everything else;
* no sequence of single-axis commands reaches a forbidden pair of temperature
  and stirrer speed;
* a command counts as confirmed only by its own answer;
* an integration task acts at most once, and what acted shows;
* the audit chain verifies, and the rows say what it says;
* a restore loses nothing of what it replaces, and no key command strands a row,
  wherever they are cut off;
* whatever waits comes to an end: handshakes, calls, connections, starts,
  automatic control on a silent field.

## 2. Modules

| Module | Contents |
| --- | --- |
| `RuntimeState` | the record, its methods, the interlock predicates, the generations, recovery. No variables: each method is an operator from record to record. |
| `AutoGate` | abstract specification: what the rest of the plant may assume of `auto_enabled`, the latches and a dead loop |
| `CommandAck` | abstract specification: what the control loop may take the answer to a command for, whichever device it drives |
| `AuditLedger` | abstract specification: what the audited operations promise to a reader of the log, without transactions, locks or hashes |
| `SafetyLatches` | the control requests, any number in flight, against latch events, the field, production and restarts |
| `ControlLoop` | one control loop, the emergency-stop handler, the ingest, operators' commits |
| `ProcessLifecycle` | starts, stops and finishes, any number in flight, with failures and crashes |
| `ComponentControl` | component commands and AI master control on a device that takes whole target sets |
| `SerialHandshake` | the ESP32 driver: request ids and acknowledgements over a lossy line, plain writes, the sampler, restarts |
| `ModbusHandshake` | the Modbus RTU driver: two registers, read-back, scaling, a second client |
| `JsonBridge` | the JSON bridge driver: one command at a time through a one-slot file, echo, caches, the emergency stop's single call |
| `AckDrivers` | the three drivers side by side, with what each shows of `CommandAck` |
| `IntegrationTasks` | the task table, HTTP callers and the MQTT bridge with its queue, crashes, tables of older versions |
| `AuditStore` | audited transactions on the hash chain, recipes, results, recommendations; both verifications; damage |
| `ModbusServer` | connections and slots of the Modbus TCP server, register writes |
| `AuthSessions` | login, sessions, permissions, password changes, startup check |
| `Maintenance` | backup, restore, wipe, delete and key commands as file operations |
| `RuntimeStateProofs` | lemmas about the methods (typing, which latches they engage, generations) |
| `SafetyLatchesProofs` | invariants and action properties of `SafetyLatches`, for all constants |
| `SafetyLatchesRefinement` | `SafetyLatches` implements `AutoGate` |
| `ControlLoopProofs` | safety of `ControlLoop`, and that it implements `AutoGate` |
| `ProcessLifecycleProofs` | exclusion, ownership and record of productions, failed starts and stops, and that `ProcessLifecycle` implements `AutoGate` |
| `ServicesProofs` | safety of `IntegrationTasks`, `ComponentControl` and `AuthSessions` |
| `StoreProofs` | safety of `AuditStore` and `Maintenance`, and that `AuditStore` implements `AuditLedger` |
| `DeviceProofs` | safety of the three drivers and of `ModbusServer`, and that each driver implements `CommandAck` |
| `MCSafetyLatches`, `MCControlLoop`, `MCProcessLifecycle`, `MCIntegrationTasks`, `MCJsonBridge` | constants for TLC |
| `MCDevices`, `MCServices` | several modules side by side for TLC |

How code becomes actions. A stretch of a handler that holds the runtime lock is
one action; an await with the lock released ends it. Database statements are
atomic. Every database or device step may fail where the code handles failure.
What a handler carries over an await is a field of its record (`req[r]` in
`SafetyLatches`, `job[x]` in `ProcessLifecycle`, `loop` in `ControlLoop`,
`ctl[c]` in `ComponentControl`, `calls[c]` in `IntegrationTasks`, and so on).
In `Maintenance` a file operation is an action and the tool may be killed
between any two; overwriting and removing one file is one operation, since the
file is lost when the overwriting begins. Operators of the form `...Unguarded`, `...Logged`, `...Blind`
and so on, marked *Mutant*, are broken variants of the definition that follows
them; each is used to show that a property notices the bug and none is part of
a specification.

Requests that lose their client. The server (`api.rs:716-737`) polls a handler
inside its connection and spawns no task for it. When the client goes away the
handler is dropped at the await it has reached, and nothing it had still to do is
done: no commit, no rollback, no latch. `Disconnect` in `SafetyLatches` and
`ControlLoop` (emergency stop and ingest), `Disconnect` in `ProcessLifecycle`,
`DropCall` in `ComponentControl` and `ClientLeaves` in `IntegrationTasks` are that
step, possible at every await. A statement or a device write the handler was
waiting for counts as done or as not done by then: SQLite's and the drivers'
blocking threads outlive it. In `AuditStore` and `AuthSessions` a dropped handler
is what a rolled-back transaction or a failed write already is. The calls of the
MQTT bridge are not dropped, since the bridge is a task of its own
(`mqtt.rs:228`); nor are the control loop and its monitor. What a dropped request
leaves behind:

* a latch request, a target request: nothing;
* a start, at or after its device write: a device that may run, no fault, and an
  open row. The row refuses every other start, every enabling of automatic
  control and every reset, and a restart finds it and latches. This is what
  `RunHasAnOwner`, `StrayStartIsLatched` and `StartSettles` say of it. An
  emergency stop brings the device down; the row goes with a restart, after
  which the batch is active and its finish writes a stop, or with a finish by its
  id without one, and that writes no stop, since the batch is not the active one.
  The latter is excluded by `FinishDuringStart = FALSE` (below), like the finish
  of a start in flight;
* a stop: the device stands, the row stays open, or the batch stays active;
* a component or AI request, after its write: a device that holds a set, checked
  against the forbidden zones, that the runtime does not know, and no fault.
  `UncommittedWriteIsLatched` therefore speaks of requests that answer;
* an integration task: a row that stays "executing". No replay begins it again,
  and the list shows that it was begun (`EffectIsAccountedFor`);
* an emergency stop: its latch, with the device write done or not;
* an ingest: a stored sample whose alarms it has not applied.

The release profile is built with `panic = "abort"` (`Cargo.toml:53`), where a
panic in the loop ends the process. The monitor of a dead loop (`LoopPanics`,
`ControlLoopTerminates`) matters in builds that unwind, and when the task returns.

Data abstractions. An error string is whether it is `Some`. A sample is *none*,
*fresh*, *zone* (fresh, but the ramped command would enter a forbidden zone) or
*stale*. A device status is *none*, *healthy*, *field* (disconnected, bad frame,
old), *command* (`last_command_ok = false`) or *both*. Targets have one field
an operator request replaces and one it merges; in `ComponentControl` three axes
with two values each, in the two register modules fixed-point integers. A
digest is the sequence of everything it covers. A database file is which commit
it is, whether a batch is open and which keys encrypt its payloads. Time appears
as the event that a freshness window, a time limit or a backoff runs out.

Assume and guarantee between modules. `SafetyLatches` summarises production by
four actions; `ProcessLifecycle` has it in full and in turn replaces the
generation counters by the Boolean `overtaken`. That step is licensed by
`GenerationsRecordEngagements`, which is proved: below saturation a latch
engaged since the generations were taken always shows. `ControlLoop` shows
operators' requests only by their commits. `ComponentControl` takes a process
start or stop as one step and reduces the latches to one flag with a
generation; `IntegrationTasks` takes the action of a task as one step with
every result the handlers can return, a refusal that comes after the device has
acted among them (`ActionResults`; `api.rs:1338-1393`, `1518-1528`): in that case
the lifecycle has latched before it refuses. The driver modules give the outcomes that
`ControlLoop` and `ProcessLifecycle` take as choices: *confirmed* only for an
own answer that tells the truth (`DriversImplementAck`), an end of every
handshake (`HandshakeEnds`).

Abstract specifications. All writers of `auto_enabled` keep to `AutoGate`: the
requests of `SafetyLatches`, the loop, emergency stop and ingest of
`ControlLoop`, the starts, stops and finishes of `ProcessLifecycle`. So whatever
they do between them, automatic control opens only while no latch is engaged.
(`ComponentControl` and `IntegrationTasks` do not model `auto_enabled`; the
commits they call are those of the three modules.) Each driver keeps to
`CommandAck`: the loop need not know which device it drives. `AuditStore` keeps
to `AuditLedger`: a reader of the log need not know of transactions.

External, modelled from how the code uses it: SQLite in WAL mode with several
connections (a transaction that began with a read fails at its first write when
another connection has committed since), the MQTT client's bounded request
queue, the serial line, the Modbus slave, the bridge process and the
controller behind it, the service manager. The serial controller may refuse and
acknowledge commands, as the driver expects of it; the example firmware in
`firmware/esp32_reactor_bridge` only takes them, which is one of the behaviours
of `DeviceTakesCommand`.

The JSON bridge. `LoopCompute` is enabled only while automatic control is on. A
command of the loop's that is rejected, not confirmed in time or not written
latches a fault (`LoopHears`, `main.rs:765-834`), as does a `state.json` that
reports a failed command; the loop then writes nothing until an operator resets
the fault and enables automatic control (`ResetAndEnable`, which nobody owes).
The two set-ups are a controller that reports `speed_delay_us` and one that
reports cycles per minute and regulates its temperature itself. A state without
the stirrer's speed, or with neither form of shaker speed, is left out: then the
driver goes by its caches and there is nothing to converge to. While the target
stays the same the loop repeats it every `sensor_timeout_ms` only
(`LastWrittenCommand::matches_recent`, `main.rs:1176`).

Keys. No command and no file gives the daemon its key: the operator exports it
before each start, and no start compares it with the rows. `recordedKeys` is what
he can know: the new key of the last key command that reported success, or the
one under which the daemon has since listed every task; after a rekeying that
failed or was killed, the new key as well, since the error may have come from the
compaction after the commit. He may start the daemon with any of them. Under the
wrong one it writes its own rows beside unreadable ones, and a later rekeying
refuses the mixture. `RowsUnderRecordedKeys`, a part of `CommandsKeepData`, says
that throughout no row is under a key his records do not name.

The Modbus server. `ApplyWrite` may refuse a register write before it ends
automatic control (inherited targets, limits) and after (interlock, persisted
batch); neither is told apart from the other reasons for a refusal.

History variables (read by properties only): `fired` (latches engaged since a
request acknowledged the field), `inherited` (the batch a restart found open),
`unaudited`, `delivered`, `running` (the batch whose start write returned Ok,
until a stop write does or an operator resets the fault), `stray` (a start write
failed although the device took part of it), `vanished` (batches whose start was
dropped at or after its write), `sent`, `heldFrame` and `refused`
(frames of the serial line), `confirmed`, `acted`, `excused` and `abandoned` (what tasks did, for which a fault or a
crash answers, which lost their client),
`damage`, `changeLog`.

## 3. Runs

| Run | Shows |
| --- | --- |
| `latches` | a request of any kind, which may lose its client, a batch id, two recipes, a crash: `TypeOK`, `InheritedBatchHoldsFault`, `AutoOnlyOnSafeField`, `GenerationsRecordEngagements`, `OperatorTargetsKeepRecipe`, `ResetClearsAcknowledgedLatch`, refinement of `AutoGate` |
| `latches_unlock` | violated: `UnlockClearsAcknowledgedLock` |
| `loop_device` | all faults of a device the loop reads, or of samples pushed over the API, and clients that leave: `UnauditedWriteIsLatched`, `WriteStartsFromLiveState`, refinement of `AutoGate` |
| `loop_estop_race` | violated: `StoppedDeviceStaysStopped` |
| `loop_estop_error` | violated: `FailedStopWriteLatches` |
| `lifecycle_starts` | two requests of all five kinds, three batch ids, one lost client, one crash: `StartsExclude`, `RunHasAnOwner`, `RunIsOnRecord`, `StrayStartIsLatched`, `ClearedBatchIsStopped`, `FailedStopBlocksProduction`, refinement of `AutoGate` |
| `lifecycle_finish` | violated: `ClearedBatchIsStopped`, when a batch may be finished whose start has not returned |
| `lifecycle_failed_start` | violated: `FailedStartNeverCommanded` |
| `devices` | seven conversations, each on its own: refinement of `CommandAck` by all three drivers (`DriversImplementAck`), `ConfirmedPairIsHeld`, `WriteChangesItsRegister`, and liveness: `CallsReturn`, `HandshakeEnds`, `BridgeSettles`, `SilentClientsAreDropped`, `StaleFieldDisablesAuto`, `StartSettles` |
| `services` | six services, each on its own: `TaskActsAtMostOnce`, `EffectIsAccountedFor`, `ChainUnbroken`, `RowsMatchAudit`, `ChainStatusIsTrue`, refinement of `AuditLedger` (`ImplementsLedger`), `AccountsAreGuarded`, `BackupPairMatches`, `CommandsKeepData`, `NoForbiddenPair`, `UncommittedWriteIsLatched`, and with two overlapping requests at the gate `NoLatchSlipsPastACommit` |
| `tasks_replay` | violated: `TaskActsAtMostOnce`, when a `set_targets` task may be sent again before its first call has claimed it |
| `bridge_stop` | violated: `StopReachesEveryActuator` |

Bounds. Two requests, callers, writers or clients in flight are enough for every
race between two handlers; the third actor is always the environment, which has
all latch events, the field and the database failures at every state.
Generations go to 2 in `latches`, so that a latch can be engaged, cleared and
engaged again behind a request's back, and to 1 in `services`, where two
requests overlap; what these instances do not reach is proved for every number
of requests and every width (section 4). The guard `BelowLimit` stops a run at
the limit instead of saturating, since 2^64 engagements are out of reach. In
`ControlLoop` and `ProcessLifecycle` nobody reads a generation and the width is
0. Batch ids are recycled once nothing refers to them, so that
`ProcessLifecycle`'s behaviours are unbounded; at most one restart and one
request that loses its client (`MaxGone`; for any number see section 4). In
`devices` the lifecycle has one batch id and no restart. `ComponentControl` has
one lost client (`MaxDropped`) and two calls; requests of `SafetyLatches`,
`ControlLoop` and `IntegrationTasks` lose their clients without a bound. The JSON
bridge has one mishap (`MaxMishaps`), one reset (`MaxResets`) and one HTTP write,
which is enough for a fault in the middle of a sequence, its reset and the rest
of the sequence. Three frames
on the serial line give a late and a doubled answer to an earlier command and
one of an earlier run of the daemon. The registers have scales that do not
divide the targets, a target that does not fit, and a slave that clamps. One
connection slot and two clients make one wait for the other. The audit chain
has three events (damage counts as one) against a window of two, so that a window is truncated and one
moves between count and read. A queue of one is full after one message. One
account is the one two overlapping changes collide on; several accounts are left
to the proof. The
maintenance bounds (two commits, three commands, one kill, one damaged
snapshot) allow a backup over a backup, then a restore over a database with a
`-wal`, or a rekeying killed after its commit, a daemon started with the wrong
key and another key command.

`devices` and `services` put modules side by side whose states are disjoint at
this level of detail; the variable `part` names the one a behaviour is about,
the others rest in their initial state. Their type invariants are the
conjunction of the modules' own. Both may stop: a part that has used up its
bounds has nothing left to do.

Fairness, stated for each part in `MCDevices`, is weak fairness of steps that
are ready and that Tokio or the operating system will run: a polled future
(`CallStep`, `PublishReceipt`, `WriteStep`, `LoopStep`, the handlers of a
start), a blocking thread and its clock (`Handshake`, `WindowCloses`,
`write_json_bridge_control`, `PollState`), a timer that stays armed (`Drop` of
a silent client). A handler is polled only as long as its client stays: the fairness of
`R!HandlerStep`, `CallStep` and the others ends with `Disconnect` or
`ClientLeaves`, so that `StartSettles` ends in an open row then, and
`CallsReturn` in a call that is over. For `BridgeSettles` the loop also writes
again while it is not halted, and the bridge process takes commands and publishes
its state; mishaps, resets and HTTP writes are finite there, since a plant that
is disturbed for ever need not settle. A fault that nobody resets ends the loop's
part, and `BridgeConverges` says so. Nothing is assumed of lines, clients,
brokers, operators or the field.

Two constants separate what holds from what does not. `FinishDuringStart =
FALSE`: nobody finishes a batch by its id whose own start has not answered, be it
in flight or dropped with its client; without it `ClearedBatchIsStopped` and the
ownership properties fail (finding 4). `OverlappingReplays = FALSE`: nobody sends a task again before its first
call has claimed it; without it `TaskActsAtMostOnce` fails (finding 6).

### Findings

1. `set_manual_lock` compares generations under a read lock and clears under a
   later write lock; a manual lock engaged in between is erased.
2. The control loop releases the lock of its final interlock before it writes;
   its command can reach the device after the fail-safe targets of an emergency
   stop, and stays.
3. `emergency_stop` looks at the timeout's result only: a write that returned
   an error is audited as delivered and latches nothing.
4. `finish_batch` decides from a stale read whether to stop the device: the
   finish of a batch whose start is committing leaves the device running
   without active batch, open row or fault.
5. A start write that failed half-way is treated as one that never reached the
   field; no stop is written.
6. A claim of an integration task does not tell who holds it: of two overlapping
   posts of one external id, the second finds the row "executing" and executes
   as well.
7. An emergency stop over the JSON bridge sends one atomic command, the shaker's;
   heater relay and stirrer keep their state and the audit says delivered.

`PROJECT.json` quotes the lines of code, comment, test and document for each.

Seen while modelling, without a document to hold them against (the hazards say
more): a component stop commits the whole set it was computed from; the
component check always returns a temperature and rpm pair, so that
`heater_relay:on` and the shaker's `speed_up` and `speed_down` are refused as
unsupported although the bridge driver knows them; an AI request may start and
stop a process in one call; the audit hash covers neither actor nor role, and
the loss of the newest events cannot be seen; a register scale finer than 0.01
would not read back, since targets are rounded to hundredths; overridden
passwords are lost when the secret changes; a killed wipe cannot be repeated; the
row of a start that lost its client is closed after a restart only, or by a
finish by its id that writes no stop; a component or AI request that lost its client after its
write leaves a device and a runtime that disagree without a fault.

## 4. Proofs

Every safety property the passing runs check is also a theorem, except the two
composite type invariants of `MCDevices` and `MCServices` (below). The theorems
hold for every value of the constants under the named assumptions of the
modules: sets are of the right kind, flags are Booleans, bounds are natural
numbers. Three assumptions say a little more. `ModbusConstants` takes targets and
offsets as integers and scales as positive, since they are fixed-point numbers;
`LegacyAssumption` says that a table left by an older version is a sequence of
rows no longer than the table may get; `BridgeConstants` takes the targets sent
over the JSON bridge as natural numbers with a stirrer that is on or off.

| Theorem | States |
| --- | --- |
| `SafetyLatchesProofs`: `TypeCorrect` | `TypeOK` |
| `AutoIsSafe` | `AutoOnlyOnSafeField` |
| `DeadLoopIsLatched` | `DeadLoopStaysLatched` |
| `InheritedFaultIsHeld` | `InheritedBatchHoldsFault` |
| `EngagementsAreRecorded` | `GenerationsRecordEngagements` |
| `NoLatchSlips` | `NoLatchSlipsPastACommit` |
| `ResetsClearWhatWasAcknowledged` | `ResetClearsAcknowledgedLatch` |
| `MergedTargetsKeepRecipe` | `OperatorTargetsKeepRecipe` |
| `SafetyLatchesRefinement`: `LatchesImplementGate` | `ImplementsGate` |
| `ControlLoopProofs`: `TypeCorrect` | `TypeOK` |
| `UnauditedIsLatched` | `UnauditedWriteIsLatched` |
| `WritesStartLive` | `WriteStartsFromLiveState` |
| `LoopImplementsGate` | `ImplementsGate` |
| `ProcessLifecycleProofs`: `TypeCorrect` | `TypeOK` |
| `StrayLatched` (1) | `StrayStartIsLatched` |
| `GivingUpBlocksProduction` | `FailedStopBlocksProduction` |
| `LifecycleImplementsGate` | `ImplementsGate` |
| `StartsAreExclusive` (1) | `StartsExclude` |
| `RunIsOwned` (1) | `RunHasAnOwner` |
| `RunIsRecorded` (1) | `RunIsOnRecord` |
| `ClearedIsStopped` (1) | `ClearedBatchIsStopped` |
| `ServicesProofs`: `TasksTypeCorrect` | `TasksTypeOK` |
| `TasksActOnce` (2) | `TaskActsAtMostOnce` |
| `EffectsAreAccountedFor` (2) | `EffectIsAccountedFor` |
| `PairsStayAllowed` | `NoForbiddenPair` |
| `UncommittedIsLatched` | `UncommittedWriteIsLatched` |
| `CtlTypeCorrect` | `CtlTypeOK` |
| `AccountsStayGuarded` (3) | `AccountsAreGuarded` |
| `AuthTypeCorrect` (3) | `AuthTypeOK` |
| `StoreProofs`: `BackupPairsMatch` | `BackupPairMatches` |
| `CommandsLoseNothing` | `CommandsKeepData` |
| `MaintTypeCorrect` | `MaintTypeOK` |
| `StoreTypeCorrect` | `StoreTypeOK` |
| `ChainStaysUnbroken` | `ChainUnbroken` |
| `ChainStatusTold` | `ChainStatusIsTrue` |
| `RowsAlwaysMatch` | `RowsMatchAudit` |
| `StoreImplementsLedger` | `ImplementsLedger` |
| `DeviceProofs`: `ConfirmedPairsAreHeld` | `ConfirmedPairIsHeld` |
| `BridgeEchoesAreOwn` | `BridgeEchoIsOwn` |
| `AnswersAreAboutTheCommand` | `AnswerIsAboutThisCommand` |
| `DriversKeepAck` | `DriversImplementAck` |
| `WritesChangeTheirRegister` (4) | `WriteChangesItsRegister` |
| `ServerTypeCorrect` (4, 5) | `ServerTypeOK`, with the limit on connections |
| `RtuTypeCorrect` | `ModbusTypeOK` |
| `SerialTypeCorrect` | `SerialTypeOK` |
| `BridgeTypeCorrect` | `BridgeTypeOK` |

Hypotheses of single theorems:

1. `~FinishDuringStart`: no batch is finished by its id before its start has
   answered; one that was dropped with its client never does. Without it the statements are false: `lifecycle_finish` is the
   counterexample, finding 4.
2. `~OverlappingReplays`: no task is sent again before its first call has
   claimed it. Without it they are false: `tasks_replay`, finding 6.
3. `IsFiniteSet(ChangeCalls)`: finitely many password changes are in flight at
   once, so that they can be counted.
4. `StepsAreOnTheGrid`: a register's step is wider than 0.01, or is 0.01 with an
   offset of whole hundredths. The configuration only asks for a scale other
   than zero; its defaults (0.01, 0.1, 1.0) satisfy the hypothesis. `round2`
   keeps hundredths, so a finer step would not read back.
5. `IsFiniteSet(Clients)`, as in 3.

The arguments. None of the invariants is inductive alone.

* *Latches.* `Inv` adds three facts. *AcknowledgedInThePast*: the generations a
  request holds never exceed the current ones; without it an engagement could
  close a gap instead of opening one, and `fired` would not imply a difference.
  *ResetPredatesTermination*: a fault reset that is still in flight after the
  loop died acknowledged an older fault generation; this is why
  `ResetControlFaultCommit`, which does not look at `control_loop_terminated`,
  can nevertheless not clear the fault of a dead loop. *InheritedBatchIsOpen*:
  an inherited batch still has its row, so that it cannot be deactivated before
  it is closed. The action properties follow from `Inv` and the guards of the
  commits; the refinement maps every step to a step of `AutoGate` or a stutter.
* *Loop.* Between a device write and its audit row the loop *owes* a fault. Only
  the device write makes a debt (`OnlyDeviceWriteOwes`), every step of an owing
  loop keeps it or pays it by latching (`DebtIsPaid`), its death included, and
  only an operator's reset takes a latched fault back (`OnlyResetClearsFault`).
* *Lifecycle.* There is no mutex: a start inserts its row and then checks that no
  other row is open, in the manner of Dekker. `OwnBatch` and `RowIsHeld` say
  that a start's row stays open and nobody else refers to it; with the check
  this gives `StartsExclude` and, as nothing is active while a start is past its
  check (`NothingActive`), at most one writer. `RunIsKnown`, `RunHasARow`,
  `StopNotRunning` and `StoppedDeviceStands` follow the device through commits,
  rollbacks that fail and overlapping stops. `RunHasARow` is stronger than
  `RunIsOnRecord`: the excuse of a latched fault is never needed. A start that was
  dropped is answered for by its row (`VanishedIsHeld`): nobody else may close
  it, and while it is open and nothing is active, `recovery_required` holds. The
  refinement
  of `AutoGate` needs none of this: it follows from the types and from the
  interlock that a commit takes under the write lock, not from the one the start
  has checked before it wrote.
* *Tasks.* A claim excludes (`OneCallPerTask`), a row still to be claimed has had
  no effect (`ActedOnce`), and of the rows of one external id only the earliest
  is worked on (`EarliestActs`), which is what protects tables with duplicates
  from before the unique index. A claim is never given back, so a task whose
  client left stays claimed.
* *Component control.* A call past its check carries the whole set that was checked
  (`CheckedCalls`), and this set, not one axis of it, is what device and runtime
  are given, so an older set cannot combine with a newer one; what a dropped call
  may still bring to the device is such a set.
* *Accounts.* `AuthInv` counts: changes written equal those audited, those failed
  and those between the two. The types add that no session outlives the last
  hour by more than its lifetime (`AuthBounds`).
* *Maintenance.* One invariant per command says what its steps so far have left
  in the files: no digest beside a fresh snapshot (`BackupSteps`), copies of the
  files before they are replaced (`RestoreSteps`), what a wipe has come past
  (`WipeSteps`); a kill keeps the files, so each holds in between as well. `KeyInv`
  adds to the claim about the keys that a daemon runs under a recorded key
  (`DaemonKeyRecorded`) and that a rekeying that has committed left rows under its
  new key only (`RekeyedRows`), which licenses its report.
* *Audit store.* The locks give one transaction at a time (`OneTx`) whose reads
  are still true at its commit (`TxsCurrent`). From there the chain is linked
  until it is damaged. For the verifications the converse is needed, that
  damage cannot hide: every digest is longer than its index and grows
  (`DigestsGrow`), so that after a loss in the middle the last digest covers
  more than is left (`DamageShows`). `RowsReported` says of each table how it
  follows from the events by counting.
* *Ledger.* A transaction of several statements shows nothing until it commits,
  and its commit must then be one step of `AuditLedger` on the rows of that
  moment. It was prepared on the rows it read earlier: they are the same because
  it is the only transaction (`OneTx`) and what it holds is still current
  (`TxsCurrent`), and the row it found, a recipe with steps or a finished batch,
  is still as it found it (`TxRowsReady`). Damage is the only step that loses an
  entry.
* *Drivers.* RTU: the mutex (`OneClient`) keeps what was read back fresh
  (`ReadsAreFresh`); the rounding is bounded by `HalfAStep`. Bridge: whatever
  carries the id the loop waits for tells the fate of its command
  (`EchoesAreOwn`). Serial: ids given out grow with the clock and the sequence
  number across restarts (`IdsAreGiven`), frames reach the device in the order
  they were sent (`FramesInOrder`), so an acknowledgement with the id the loop
  waits for is about the last frame (`WaitIsForLast`).
* *Contract of the drivers.* `CommandAck` asks for more than an own answer: a
  command has one fate at most, and it does not change while the loop waits.
  RTU: nobody else writes the registers while the loop reads them back
  (`ReadsAreFresh`). Bridge: a command not yet taken has no fate (`BridgeWaits`).
  Serial: every frame under way is newer than the one the device holds and has
  not been refused (`FramesAreNew`), so the device decides each once.
* *Modbus server.* A write past its checks has a register and a value that is not
  negative (`WritesAreChecked`); `RawSurvives` is the arithmetic of scaling,
  rounding to hundredths and encoding.

TLC has checked the invariant of the latches on a small instance as well.

Only model-checked:

* liveness (`CallsReturn`, `HandshakeEnds`, `BridgeSettles`,
  `SilentClientsAreDropped`, `StaleFieldDisablesAuto`, `StartSettles`): the proof
  system handles neither fairness nor `ENABLED`;
* `DevicesTypeOK` and `ServicesTypeOK`, which put the modules' type invariants
  side by side. Each of their parts is a theorem of its module (the `...TypeOK`
  rows above); only the conjunctions are not stated, since the modules with the
  proofs share names and cannot all be extended by one.

## 5. Not modelled

See the components of `PROJECT.json` for each reason. In short: the numeric
decision with ramps and zones (reduced to the sample view *zone*), the
subprocess protocol of the safety guard, the decoding of sensor values, the
storage of samples and alarms and all queries and reports, coils and discrete
inputs of the Modbus server, A/B update scripts; front ends, simulators,
optimizer, providers, configuration (no control logic of their own). In the
lifecycle, the recovery paths for an active batch whose row has disappeared are
left out: nothing in the daemon deletes a batch row. At most 100 unfinished rows
exist (`unfinished_batches_sqlx(100)`). In `Maintenance` the operator is taken at
his word that the daemon is stopped where the service manager cannot be asked,
and does not start it while a command other than a backup runs.

## 6. Plan

Done: all modules of section 2 and the proofs of section 4.

Left to prove: that `ComponentControl` and the targets' part of `SafetyLatches`
refine one abstract target store.

Models to add: `ControlLoop` and `ProcessLifecycle` on one runtime, the A/B
update across power loss, the control decision as pure operators over small
grids.
