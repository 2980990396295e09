-------------------------- MODULE ProcessLifecycle --------------------------
(***************************************************************************)
(* Production: the handlers of api.rs that start a process (POST           *)
(* processes/:id/start and the AINAS task, POST batches/start, the v1      *)
(* control request with auto_start) and the ones that end it (process      *)
(* stop, POST batches/:id/finish), running concurrently on one device, one *)
(* runtime and one table of batches, with failures of the device and of    *)
(* the database and with crashes of the daemon.                            *)
(*                                                                         *)
(* There is no mutex around a start.  What keeps two of them apart is that *)
(* each first inserts its own row and then looks for rows of others.       *)
(*                                                                         *)
(* The server polls a handler inside its connection: when the client goes  *)
(* away the handler is dropped at the await it has reached, and nothing of *)
(* what it had still to do is done (Disconnect).                           *)
(*                                                                         *)
(* The generation counters a start compares at its commit appear here as   *)
(* the Boolean overtaken: was a latch engaged since the start took them?   *)
(* SafetyLatches!GenerationsRecordEngagements is the licence for that.     *)
(***************************************************************************)
EXTENDS RuntimeState

CONSTANTS
    Handlers,           \* requests in flight at the same time
    Kinds,              \* the kinds of request in this instance
    StartTargets,       \* targets a start writes
    StopTargets,        \* process_stop_targets: the safe minimum
    FinishDuringStart,  \* may a batch be finished whose start has not answered?
    MaxGone,            \* how many requests may lose their client
    MaxRestarts         \* how often the daemon may crash and restart

StartKinds == {"process", "batch", "v1"}
StopKinds == {"stop", "finish"}

ASSUME LifecycleKindAssumption == Kinds \subseteq StartKinds \cup StopKinds
ASSUME LifecycleTargetAssumption ==
    StartTargets \in ControlTargets /\ StopTargets \in ControlTargets
ASSUME LifecycleBoundAssumption ==
    FinishDuringStart \in BOOLEAN /\ MaxGone \in Nat /\ MaxRestarts \in Nat

VARIABLES
    rt,          \* the shared RuntimeState
    unfinished,  \* batch rows of the database without an end time
    job,         \* the handlers in flight
    running,     \* history: the batch whose start write returned Ok, until a stop does
    stray,       \* history: the batch whose start write failed half-way, until a stop does
    vanished,    \* history: batches whose start lost its client at or after its write
    gone,        \* how many requests have lost their client
    restarts     \* how often the daemon has restarted

vars == <<rt, unfinished, job, running, stray, vanished, gone, restarts>>

Phases ==
    {"idle",
     \* a start
     "v1_read", "v1_verified", "cloned", "verified", "created", "write", "start_failed",
     "abandon", "started", "recorded", "listed", "rollback", "rollback_failed",
     "rollback_stuck", "rollback_stopped", "rollback_close", "tail",
     \* a stop
     "row", "stop_write", "stop_failed", "stop_lock", "close", "reload", "stop_audit",
     "stop_commit"}

Jobs ==
    [kind : Kinds \cup {"none"},
     pc : Phases,
     batch : BatchIds,          \* the batch it starts or stops
     seen : BatchIds,           \* active_batch_id when it looked
     overtaken : BOOLEAN,       \* a latch was engaged since a start took its generations
     was_open : BOOLEAN,        \* a stop: the row had no end time when it was read
     listed : SUBSET Batches]   \* unfinished rows, read before the final interlock

Idle == [kind |-> "none", pc |-> "idle", batch |-> NoBatch, seen |-> NoBatch,
         overtaken |-> FALSE, was_open |-> FALSE, listed |-> {}]

TypeOK ==
    /\ rt \in RuntimeStates
    /\ unfinished \in SUBSET Batches
    /\ job \in [Handlers -> Jobs]
    /\ running \in BatchIds
    /\ stray \in BatchIds
    /\ vanished \in SUBSET BatchIds
    /\ gone \in 0..MaxGone
    /\ restarts \in 0..MaxRestarts

Init ==
    /\ rt = from_safety
    /\ unfinished = {}
    /\ job = [x \in Handlers |-> Idle]
    /\ running = NoBatch
    /\ stray = NoBatch
    /\ vanished = {}
    /\ gone = 0
    /\ restarts = 0

-----------------------------------------------------------------------------
(* Bookkeeping.                                                            *)

At(x, pc) == job[x].pc = pc

Goto(x, pc) == job' = [job EXCEPT ![x].pc = pc]

Return(x) == job' = [job EXCEPT ![x] = Idle]

\* Latches engaged now are noticed by every start that has taken its generations.
Overtake(jobs) ==
    [x \in Handlers |->
        IF jobs[x].kind \in StartKinds
           /\ jobs[x].pc \in {"cloned", "verified", "created", "write", "started",
                              "recorded", "listed"}
        THEN [jobs[x] EXCEPT !.overtaken = TRUE]
        ELSE jobs[x]]

\* latch_control_fault on record s, after which handler x goes on at pc.
LatchAndGoto(s, x, pc) ==
    /\ rt' = latch_control_fault(s)
    /\ job' = Overtake([job EXCEPT ![x].pc = pc])

LatchAndReturn(s, x) ==
    /\ rt' = latch_control_fault(s)
    /\ job' = Overtake([job EXCEPT ![x] = Idle])

\* An id no row, handler or history variable refers to: the next AUTOINCREMENT id.
Fresh(b) ==
    /\ b \notin unfinished \cup vanished \cup {rt.active_batch_id, running, stray}
    /\ \A x \in Handlers : job[x].batch # b

\* A start that has passed the check of start_process_on_device and still has its row.
InStart(x) ==
    job[x].pc \in {"write", "start_failed", "started", "recorded", "listed", "rollback",
                   "rollback_failed", "rollback_stuck", "rollback_stopped", "rollback_close"}

KeepField == UNCHANGED <<running, stray, vanished, gone, restarts>>
KeepRows == UNCHANGED <<unfinished, running, stray, vanished, gone, restarts>>

-----------------------------------------------------------------------------
(* Starting: checks.                                                       *)

\* v1_control looks at the runtime and at the database before it locks.
V1Read(x) ==
    /\ "v1" \in Kinds
    /\ At(x, "idle")
    /\ rt.active_batch_id = NoBatch
    /\ job' = [job EXCEPT ![x].kind = "v1", ![x].pc = "v1_read"]
    /\ UNCHANGED rt /\ KeepRows

V1Verify(x) ==
    /\ At(x, "v1_read")
    /\ IF unfinished = {} THEN Goto(x, "v1_verified") ELSE Return(x)
    /\ UNCHANGED rt /\ KeepRows

\* The first lock: automatic control is off from here on, the rest is checked on a clone.
StartCheck(x, kind) ==
    /\ kind \in Kinds \cap StartKinds
    /\ IF kind = "v1" THEN At(x, "v1_verified") ELSE At(x, "idle")
    /\ rt' = disable_auto(rt)
    /\ IF /\ ensure_target_update_interlock_clear(rt)
          /\ kind = "process" => rt.active_batch_id = NoBatch
       THEN job' = [job EXCEPT ![x].kind = kind,
                               ![x].pc = IF kind = "v1" THEN "verified" ELSE "cloned",
                               ![x].seen = rt.active_batch_id]
       ELSE Return(x)
    /\ KeepRows

\* ensure_no_unclosed_db_batch_for_new_production, on the clone.
StartVerify(x) ==
    /\ At(x, "cloned")
    /\ IF recovery_required(unfinished, job[x].seen) THEN Return(x) ELSE Goto(x, "verified")
    /\ UNCHANGED rt /\ KeepRows

CreateRow(x) ==
    /\ At(x, "verified")
    /\ \/ \E b \in Batches :
             /\ Fresh(b)
             /\ unfinished' = unfinished \cup {b}
             /\ job' = [job EXCEPT ![x].pc = "created", ![x].batch = b, ![x].seen = NoBatch]
       \/ Return(x) /\ UNCHANGED unfinished
    /\ UNCHANGED rt /\ KeepField

\* Mutant: the rows of other starts are not looked for again.
DeviceCheckRuntimeOnly(x) ==
    /\ At(x, "created")
    /\ Goto(x, IF rt.active_batch_id = NoBatch /\ ensure_target_update_interlock_clear(rt)
               THEN "write" ELSE "abandon")
    /\ UNCHANGED rt /\ KeepRows

\* start_process_on_device reads the database while it holds the read lock.
DeviceCheck(x) ==
    /\ At(x, "created")
    /\ Goto(x, IF /\ rt.active_batch_id = NoBatch
                  /\ ~recovery_required(unfinished, job[x].batch)
                  /\ ensure_target_update_interlock_clear(rt)
               THEN "write" ELSE "abandon")
    /\ UNCHANGED rt /\ KeepRows

-----------------------------------------------------------------------------
(* Starting: the device, the records, the commit.                          *)

DeviceStart(x) ==
    /\ At(x, "write")
    /\ \/ running' = job[x].batch /\ Goto(x, "started") /\ UNCHANGED stray
       \/ stray' \in {stray, job[x].batch} /\ Goto(x, "start_failed") /\ UNCHANGED running
    /\ UNCHANGED <<rt, unfinished, vanished, gone, restarts>>

\* Mutant: a failed start write is reported but not latched.
StartFailedUnlatched(x) ==
    /\ At(x, "start_failed")
    /\ Goto(x, "abandon")
    /\ UNCHANGED rt /\ KeepRows

StartFailed(x) ==
    /\ At(x, "start_failed")
    /\ LatchAndGoto(rt, x, "abandon")
    /\ KeepRows

\* The row of a start that never activated; its closing may fail and is only logged.
Abandon(x) ==
    /\ At(x, "abandon")
    /\ unfinished' \in {unfinished, unfinished \ {job[x].batch}}
    /\ Return(x)
    /\ UNCHANGED rt /\ KeepField

\* The audit row and, for a process, mark_process_applied.
StartRecord(x) ==
    /\ At(x, "started")
    /\ Goto(x, "recorded") \/ Goto(x, "rollback")
    /\ UNCHANGED rt /\ KeepRows

CommitList(x) ==
    /\ At(x, "recorded")
    /\ \/ job' = [job EXCEPT ![x].pc = "listed", ![x].listed = unfinished]
       \/ Goto(x, "rollback")
    /\ UNCHANGED rt /\ KeepRows

\* Mutant: a start that is refused at its commit returns without a rollback.
CommitWithoutRollback(x) ==
    /\ At(x, "listed")
    /\ rt' = IF /\ ensure_target_update_interlock_clear(rt) /\ ~job[x].overtaken
                /\ rt.active_batch_id = NoBatch
                /\ ~recovery_required(job[x].listed, job[x].batch)
             THEN [rt EXCEPT !.targets = StartTargets,
                             !.active_batch_id = job[x].batch,
                             !.auto_enabled = (job[x].kind # "batch")]
             ELSE rt
    /\ Return(x)
    /\ KeepRows

\* Mutant: the commit relies on the interlock the start has checked before it wrote.
CommitOnOldInterlock(x) ==
    /\ At(x, "listed")
    /\ IF rt.active_batch_id = NoBatch /\ ~recovery_required(job[x].listed, job[x].batch)
       THEN /\ rt' = [rt EXCEPT !.targets = StartTargets,
                                !.active_batch_id = job[x].batch,
                                !.auto_enabled = (job[x].kind # "batch")]
            /\ Return(x)
       ELSE /\ UNCHANGED rt
            /\ job' = [job EXCEPT ![x].pc = "rollback", ![x].listed = {}]
    /\ KeepRows

\* commit_process_activation_after_final_interlock, under the write lock.
Commit(x) ==
    /\ At(x, "listed")
    /\ LET clear == ensure_target_update_interlock_clear(rt)
           admitted == /\ clear /\ ~job[x].overtaken
                       /\ rt.active_batch_id = NoBatch
                       /\ ~recovery_required(job[x].listed, job[x].batch)
       IN  IF admitted
           THEN /\ rt' = [rt EXCEPT !.targets = StartTargets,
                                    !.active_batch_id = job[x].batch,
                                    !.auto_enabled = (job[x].kind # "batch")]
                /\ Return(x)
           ELSE /\ rt' = IF clear /\ job[x].overtaken THEN disable_auto(rt) ELSE rt
                /\ job' = [job EXCEPT ![x].pc = "rollback", ![x].listed = {}]
    /\ KeepRows

-----------------------------------------------------------------------------
(* rollback_failed_activation, and the fault that follows it.              *)

RollbackStop(x) ==
    /\ At(x, "rollback")
    /\ \/ Goto(x, "rollback_stopped") /\ running' = NoBatch /\ stray' = NoBatch
       \/ Goto(x, "rollback_failed") /\ UNCHANGED <<running, stray>>
    /\ UNCHANGED <<rt, unfinished, vanished, gone, restarts>>

\* Mutant: the batch the device may still be running is not put on record.
RollbackFailedForgetful(x) ==
    /\ At(x, "rollback_failed")
    /\ Goto(x, "rollback_close")
    /\ UNCHANGED rt /\ KeepRows

RollbackFailed(x) ==
    /\ At(x, "rollback_failed")
    /\ LatchAndGoto(rt, x, "rollback_stuck")
    /\ KeepRows

\* The stop failed as well: the batch is kept as the active one, under a fault.
RollbackStuck(x) ==
    /\ At(x, "rollback_stuck")
    /\ LatchAndGoto([rt EXCEPT !.active_batch_id = job[x].batch, !.targets = StartTargets],
                    x, "tail")
    /\ KeepRows

RollbackStopped(x) ==
    /\ At(x, "rollback_stopped")
    /\ LET own == rt.active_batch_id = job[x].batch
       IN  rt' = [rt EXCEPT !.active_batch_id = IF own THEN NoBatch ELSE @,
                            !.auto_enabled = @ /\ ~own,
                            !.targets = StopTargets]
    /\ Goto(x, "rollback_close")
    /\ KeepRows

RollbackClose(x) ==
    /\ At(x, "rollback_close")
    /\ unfinished' \in {unfinished, unfinished \ {job[x].batch}}
    /\ Goto(x, "tail")
    /\ UNCHANGED rt /\ KeepField

\* latch_tail_failure_after_device_action, for a start and for a stop.
TailLatch(x) ==
    /\ At(x, "tail")
    /\ LatchAndReturn(rt, x)
    /\ KeepRows

-----------------------------------------------------------------------------
(* Stopping the active process, and finishing a batch by its id.           *)

was_active(x) == job[x].seen = job[x].batch

StopBegin(x) ==
    /\ "stop" \in Kinds
    /\ At(x, "idle")
    /\ rt.active_batch_id # NoBatch
    /\ job' = [job EXCEPT ![x].kind = "stop", ![x].pc = "row",
                          ![x].batch = rt.active_batch_id, ![x].seen = rt.active_batch_id]
    /\ UNCHANGED rt /\ KeepRows

FinishBegin(x, b) ==
    /\ "finish" \in Kinds
    /\ At(x, "idle")
    /\ b \in (unfinished \cup {rt.active_batch_id}) \ {NoBatch}
    /\ FinishDuringStart
       \/ /\ b \notin vanished
          /\ \A y \in Handlers : ~(job[y].kind \in StartKinds /\ job[y].batch = b)
    /\ job' = [job EXCEPT ![x].kind = "finish", ![x].pc = "row",
                          ![x].batch = b, ![x].seen = rt.active_batch_id]
    /\ UNCHANGED rt /\ KeepRows

\* The batch row is read; an error, or another process than the expected one, ends it.
ReadRow(x) ==
    /\ At(x, "row")
    /\ LET open == job[x].batch \in unfinished
           refused == job[x].kind = "finish"
                      /\ ((~open /\ ~was_active(x)) \/ job[x].seen \notin {NoBatch, job[x].batch})
       IN  \/ /\ ~refused
              /\ job' = [job EXCEPT ![x].was_open = open,
                                    ![x].pc = IF was_active(x) THEN "stop_write" ELSE "stop_lock"]
           \/ Return(x)
    /\ UNCHANGED rt /\ KeepRows

\* Mutant: a stop command that failed is only logged.
StopWriteLogged(x) ==
    /\ At(x, "stop_write")
    /\ \/ running' = NoBatch /\ stray' = NoBatch
       \/ UNCHANGED <<running, stray>>
    /\ Goto(x, "stop_lock")
    /\ UNCHANGED <<rt, unfinished, vanished, gone, restarts>>

StopWrite(x) ==
    /\ At(x, "stop_write")
    /\ \/ running' = NoBatch /\ stray' = NoBatch /\ Goto(x, "stop_lock")
       \/ Goto(x, "stop_failed") /\ UNCHANGED <<running, stray>>
    /\ UNCHANGED <<rt, unfinished, vanished, gone, restarts>>

StopFailed(x) ==
    /\ At(x, "stop_failed")
    /\ LatchAndReturn(rt, x)
    /\ KeepRows

\* What a stop leaves in the runtime, at both of its locks.
Stopped(x) ==
    [rt EXCEPT !.auto_enabled = FALSE,
               !.targets = IF was_active(x) THEN StopTargets ELSE @]

StopLock(x) ==
    /\ At(x, "stop_lock")
    /\ IF was_active(x) /\ rt.active_batch_id # job[x].batch
       THEN LatchAndReturn(Stopped(x), x)
       ELSE rt' = Stopped(x) /\ Goto(x, IF job[x].was_open THEN "close" ELSE "reload")
    /\ KeepRows

\* Mutant: a failure after the device was stopped is only reported.
FailAfterStopReported(x) == Return(x)

\* Failures after the device was stopped latch; without a device action they do not.
FailAfterStop(x) == IF was_active(x) THEN Goto(x, "tail") ELSE Return(x)

CloseRow(x) ==
    /\ At(x, "close")
    /\ \/ unfinished' = unfinished \ {job[x].batch} /\ Goto(x, "reload")
       \/ FailAfterStop(x) /\ UNCHANGED unfinished
    /\ UNCHANGED rt /\ KeepField

(***************************************************************************)
(* The row is read back.  A stop skips this for a row that was closed      *)
(* before, and latches when it fails; a finish returns the error as it is. *)
(***************************************************************************)
ReloadRow(x) ==
    /\ At(x, "reload")
    /\ \/ Goto(x, "stop_audit")
       \/ job[x].kind = "stop" /\ job[x].was_open /\ Goto(x, "tail")
       \/ job[x].kind = "finish" /\ Return(x)
    /\ UNCHANGED rt /\ KeepRows

StopAudit(x) ==
    /\ At(x, "stop_audit")
    /\ Goto(x, "stop_commit") \/ FailAfterStop(x)
    /\ UNCHANGED rt /\ KeepRows

StopCommit(x) ==
    /\ At(x, "stop_commit")
    /\ rt' = [Stopped(x) EXCEPT !.active_batch_id = IF @ = job[x].batch THEN NoBatch ELSE @]
    /\ Return(x)
    /\ KeepRows

-----------------------------------------------------------------------------
(* What happens around the handlers.                                       *)

FieldReports ==
    /\ rt' = accept_sample(rt, "fresh", "healthy")
    /\ UNCHANGED job /\ KeepRows

SampleAges ==
    /\ rt.latest_sample = "fresh"
    /\ rt' = [rt EXCEPT !.latest_sample = "stale"]
    /\ UNCHANGED job /\ KeepRows

\* An emergency stop, a manual lock, or a fault of the control loop.
EngageLatch ==
    /\ rt' \in {engage_emergency_stop(rt), engage_manual_lock(rt), latch_control_fault(rt)}
    /\ job' = Overtake(job)
    /\ KeepRows

\* The commits of the requests that release a latch.
ResetEmergencyStop ==
    /\ rt.emergency_stop /\ ensure_reset_allowed(rt, unfinished)
    /\ rt' = clear_emergency_stop(rt)
    /\ UNCHANGED job /\ KeepRows

Unlock ==
    /\ rt.manual_lock /\ ensure_manual_unlock_interlock_clear(rt, unfinished)
    /\ rt' = clear_manual_lock(rt)
    /\ UNCHANGED job /\ KeepRows

\* The operator who resets the fault has verified the field.
ResetControlFault ==
    /\ rt.last_control_error /\ ensure_reset_allowed(rt, unfinished)
    /\ rt' = clear_control_fault(rt)
    /\ running' = NoBatch /\ stray' = NoBatch
    /\ UNCHANGED <<unfinished, job, vanished, gone, restarts>>

(***************************************************************************)
(* The client of a request goes away and its handler is dropped where it   *)
(* stands.  A device write that outlives its handler (the serial driver    *)
(* writes on a thread of its own) counts as done or not done by then.      *)
(***************************************************************************)
Disconnect(x) ==
    /\ ~At(x, "idle")
    /\ gone < MaxGone
    /\ gone' = gone + 1
    /\ vanished' = vanished \cup (IF InStart(x) THEN {job[x].batch} ELSE {})
    /\ Return(x)
    /\ UNCHANGED <<rt, unfinished, running, stray, restarts>>

Restart ==
    /\ restarts < MaxRestarts
    /\ restarts' = restarts + 1
    /\ \E first \in IF unfinished = {} THEN {NoBatch} ELSE unfinished :
          rt' = recover_runtime_from_db(first)
    /\ job' = [x \in Handlers |-> Idle]
    /\ vanished' = {}
    /\ UNCHANGED <<unfinished, running, stray, gone>>

-----------------------------------------------------------------------------
\* A handler that has begun goes on.
HandlerStep(x) ==
    \/ V1Verify(x) \/ StartCheck(x, "v1") \/ StartVerify(x) \/ CreateRow(x) \/ DeviceCheck(x)
    \/ DeviceStart(x) \/ StartFailed(x) \/ Abandon(x)
    \/ StartRecord(x) \/ CommitList(x) \/ Commit(x)
    \/ RollbackStop(x) \/ RollbackFailed(x) \/ RollbackStuck(x)
    \/ RollbackStopped(x) \/ RollbackClose(x) \/ TailLatch(x)
    \/ ReadRow(x) \/ StopWrite(x) \/ StopFailed(x) \/ StopLock(x)
    \/ CloseRow(x) \/ ReloadRow(x) \/ StopAudit(x) \/ StopCommit(x)

HandlerBegins(x) ==
    \/ V1Read(x) \/ StartCheck(x, "process") \/ StartCheck(x, "batch") \/ StopBegin(x)
    \/ \E b \in Batches : FinishBegin(x, b)

Environment ==
    \/ FieldReports \/ SampleAges
    \/ EngageLatch \/ ResetEmergencyStop \/ Unlock \/ ResetControlFault
    \/ Restart

Next ==
    \/ \E x \in Handlers : HandlerBegins(x) \/ HandlerStep(x) \/ Disconnect(x)
    \/ Environment

Spec == Init /\ [][Next]_vars

\* A request is polled until it returns or loses its client; nobody owes a new one.
FairSpec == Spec /\ \A x \in Handlers : WF_vars(HandlerStep(x))

-----------------------------------------------------------------------------
(* Properties.                                                             *)

(***************************************************************************)
(* Two starts never write to the device at the same time: whoever inserts  *)
(* its row second finds the other's row in start_process_on_device, and a  *)
(* start that is being rolled back keeps its row until the device stands   *)
(* still.                                                                  *)
(***************************************************************************)
StartsExclude == \A x, y \in Handlers : InStart(x) /\ InStart(y) => x = y

(***************************************************************************)
(* A device that was started always has someone who answers for it: it is  *)
(* the active batch, its start is still in flight and will commit or roll  *)
(* back, a control fault is latched, or, when the start lost its client,   *)
(* its row is still open, which refuses every further start and every      *)
(* reset and is what recovery goes by (commit, rollback_failed_activation, *)
(* the tail latches of stop_process_lifecycle and finish_batch, and        *)
(* runtime_recovery.rs for a start nobody finishes).                       *)
(***************************************************************************)
RunHasAnOwner ==
    running # NoBatch =>
        \/ rt.active_batch_id = running
        \/ rt.last_control_error
        \/ \E x \in Handlers : InStart(x) /\ job[x].batch = running
        \/ /\ running \in vanished
           /\ recovery_required(unfinished, rt.active_batch_id)

(***************************************************************************)
(* A crash never hides a running device: as long as it runs without a      *)
(* fault its row is open, so that recover_runtime_from_db finds it and     *)
(* latches; row before device at the start, device before row at the stop. *)
(***************************************************************************)
RunIsOnRecord ==
    running # NoBatch => running \in unfinished \/ rt.last_control_error

(***************************************************************************)
(* A start write that failed although the device took part of it leaves a  *)
(* latched fault behind, until a stop reaches the device or an operator    *)
(* resets the fault.  A start that lost its client before it latched       *)
(* leaves its open row instead.  The fault lives in memory: a restart is   *)
(* no part of this promise.                                                *)
(***************************************************************************)
StrayStartIsLatched ==
    stray # NoBatch =>
        \/ rt.last_control_error
        \/ restarts > 0
        \/ \E x \in Handlers : At(x, "start_failed") /\ job[x].batch = stray
        \/ stray \in vanished \cap unfinished

(***************************************************************************)
(* The active batch is only cleared once its device stands still:          *)
(* finish_batch and stop_process_lifecycle write the stop targets to the   *)
(* device first.                                                           *)
(***************************************************************************)
ClearedBatchIsStopped ==
    [][rt.active_batch_id # NoBatch /\ rt'.active_batch_id = NoBatch /\ restarts' = restarts
          => running # rt.active_batch_id]_vars

(***************************************************************************)
(* A start that reached the device comes to an end: the batch becomes the  *)
(* active one, the device is stopped again, a fault is latched, or the     *)
(* client went away and the open row stays behind for recovery.            *)
(***************************************************************************)
StartSettles ==
    \A b \in Batches :
        running = b ~>
            \/ running # b
            \/ rt.active_batch_id = b
            \/ rt.last_control_error
            \/ b \in vanished \cap unfinished

(***************************************************************************)
(* A start whose device write failed never commanded the field, so that    *)
(* closing its row is all that is left to do (v1_control).                 *)
(***************************************************************************)
FailedStartNeverCommanded == stray = NoBatch

(***************************************************************************)
(* A stop or finish of the active batch that gives up after the device was *)
(* stopped does not leave production open: a control fault is latched, or  *)
(* the batch that is still active has no open row and every commit demands *)
(* a repair (the tail latches of both handlers, and recovery_required for  *)
(* a finish that cannot read its row back and returns without latching).   *)
(* A stop that loses its client gives no answer and is no part of this.    *)
(***************************************************************************)
FailedStopBlocksProduction ==
    [][\A x \in Handlers :
          /\ job[x].kind \in StopKinds /\ was_active(x)
          /\ job[x].pc \in {"close", "reload", "stop_audit", "tail"}
          /\ job'[x].pc = "idle" /\ gone' = gone /\ restarts' = restarts
          => \/ rt'.last_control_error
             \/ rt'.active_batch_id # job[x].batch
             \/ recovery_required(unfinished', rt'.active_batch_id)]_vars

Gate == INSTANCE AutoGate WITH
    auto <- rt.auto_enabled,
    latched <- EngagedLatches(rt),
    dead <- rt.control_loop_terminated,
    epoch <- restarts

(***************************************************************************)
(* Starts and stops of production keep the same gate as the operator's     *)
(* requests and the loop: a start enables automatic control only with no   *)
(* latch engaged at its commit, however long its device write and its      *)
(* records took; every failure path closes the gate, and no stop, rollback *)
(* or restart opens it (commit_process_activation_after_final_interlock).  *)
(***************************************************************************)
ImplementsGate == Gate!Spec
=============================================================================
