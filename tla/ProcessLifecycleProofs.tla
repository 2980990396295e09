----------------------- MODULE ProcessLifecycleProofs -----------------------
(***************************************************************************)
(* Starts and stops of production, for every number of requests in flight, *)
(* of batches and of restarts.  The inductive invariant says what keeps    *)
(* the requests apart although no mutex does: who has inserted a row owns  *)
(* an id nobody else refers to and keeps the row until the device stands   *)
(* still, nothing is active while a start is past its check, a stop that   *)
(* is past its device command refers to no running batch, and the row of a *)
(* start that lost its client stays open and is nobody's.                  *)
(***************************************************************************)
EXTENDS ProcessLifecycle, RuntimeStateProofs

-----------------------------------------------------------------------------
(* Types.                                                                  *)

Table == [Handlers -> Jobs]

\* A handler that has nothing in flight.
LEMMA IdleTyping == Idle \in Jobs
  BY DEF Idle, Jobs, Phases, BatchIds

\* Noticing a latch keeps the table typed.
LEMMA OvertakeTyping ==
  ASSUME NEW jobs \in Table
  PROVE  Overtake(jobs) \in Table
<1>1. \A x \in Handlers : [jobs[x] EXCEPT !.overtaken = TRUE] \in Jobs
  BY DEF Jobs, Table
<1> QED
  BY <1>1 DEF Overtake, Table

\* Going on at another phase, and returning, keep the table typed.
LEMMA MoveTyping ==
  ASSUME job \in Table, NEW x \in Handlers
  PROVE  /\ \A pc \in Phases : [job EXCEPT ![x].pc = pc] \in Table
         /\ [job EXCEPT ![x] = Idle] \in Table
  BY IdleTyping DEF Jobs, Table

\* Writing several fields of one handler's record keeps the table typed.
LEMMA FieldsTyping ==
  ASSUME job \in Table, NEW x \in Handlers, NEW kind \in Kinds \cup {"none"}, NEW pc \in Phases,
         NEW batch \in BatchIds, NEW seen \in BatchIds, NEW open \in BOOLEAN
  PROVE  /\ [job EXCEPT ![x].kind = kind, ![x].pc = pc, ![x].seen = seen] \in Table
         /\ [job EXCEPT ![x].pc = pc, ![x].batch = batch, ![x].seen = seen] \in Table
         /\ [job EXCEPT ![x].kind = kind, ![x].pc = pc,
                        ![x].batch = batch, ![x].seen = seen] \in Table
         /\ [job EXCEPT ![x].was_open = open, ![x].pc = pc] \in Table
<1> DEFINE r1 == [job[x] EXCEPT !.kind = kind, !.pc = pc, !.seen = seen]
           r2 == [job[x] EXCEPT !.pc = pc, !.batch = batch, !.seen = seen]
           r3 == [job[x] EXCEPT !.kind = kind, !.pc = pc, !.batch = batch, !.seen = seen]
           r4 == [job[x] EXCEPT !.was_open = open, !.pc = pc]
<1>1. job[x] \in Jobs
  BY DEF Table
<1>2. r1 \in Jobs /\ r2 \in Jobs /\ r3 \in Jobs /\ r4 \in Jobs
  BY <1>1 DEF Jobs
<1>3. \A r \in Jobs : [job EXCEPT ![x] = r] \in Table
  BY DEF Table
<1>4. [job EXCEPT ![x].kind = kind, ![x].pc = pc, ![x].seen = seen] = [job EXCEPT ![x] = r1]
  BY DEF Table
<1>5. [job EXCEPT ![x].pc = pc, ![x].batch = batch, ![x].seen = seen] = [job EXCEPT ![x] = r2]
  BY DEF Table
<1>6. [job EXCEPT ![x].kind = kind, ![x].pc = pc, ![x].batch = batch, ![x].seen = seen]
        = [job EXCEPT ![x] = r3]
  BY DEF Table
<1>7. [job EXCEPT ![x].was_open = open, ![x].pc = pc] = [job EXCEPT ![x] = r4]
  BY DEF Table
<1> HIDE DEF r1, r2, r3, r4
<1> QED
  BY <1>2, <1>3, <1>4, <1>5, <1>6, <1>7

\* What the four ways to go on do to table and record.
LEMMA ControlTyping ==
  ASSUME job \in Table, NEW x \in Handlers
  PROVE  /\ \A pc \in Phases : Goto(x, pc) => job' \in Table
         /\ Return(x) => job' \in Table
         /\ \A s \in RuntimeStates, pc \in Phases :
              LatchAndGoto(s, x, pc) => job' \in Table /\ rt' \in RuntimeStates
         /\ \A s \in RuntimeStates :
              LatchAndReturn(s, x) => job' \in Table /\ rt' \in RuntimeStates
  BY MoveTyping, OvertakeTyping, LatchTyping DEF Goto, Return, LatchAndGoto, LatchAndReturn

\* The phases by name.
LEMMA PhaseNames ==
  /\ "v1_read" \in Phases /\ "v1_verified" \in Phases /\ "cloned" \in Phases
  /\ "verified" \in Phases /\ "created" \in Phases /\ "write" \in Phases
  /\ "start_failed" \in Phases /\ "abandon" \in Phases /\ "started" \in Phases
  /\ "recorded" \in Phases /\ "listed" \in Phases /\ "rollback" \in Phases
  /\ "rollback_failed" \in Phases /\ "rollback_stuck" \in Phases
  /\ "rollback_stopped" \in Phases /\ "rollback_close" \in Phases /\ "tail" \in Phases
  /\ "row" \in Phases /\ "stop_write" \in Phases /\ "stop_failed" \in Phases
  /\ "stop_lock" \in Phases /\ "close" \in Phases /\ "reload" \in Phases
  /\ "stop_audit" \in Phases /\ "stop_commit" \in Phases
  BY DEF Phases

\* A start that checks, inserts its row and writes keeps the state typed.
LEMMA StartTyping ==
  ASSUME TypeOK, NEW x \in Handlers,
         \/ V1Read(x) \/ V1Verify(x) \/ \E kind \in StartKinds : StartCheck(x, kind)
         \/ StartVerify(x) \/ CreateRow(x) \/ DeviceCheck(x) \/ DeviceStart(x)
         \/ StartFailed(x) \/ Abandon(x)
  PROVE  TypeOK'
<1>t. rt \in RuntimeStates /\ job \in Table /\ job[x].batch \in BatchIds
  BY DEF TypeOK, Table, Jobs
<1>1. CASE V1Read(x)
  <2>1. job' \in Table
    BY <1>1, <1>t, PhaseNames DEF V1Read, Table, Jobs
  <2> QED
    BY <1>1, <2>1 DEF V1Read, KeepRows, TypeOK, Table
<1>2. CASE V1Verify(x) \/ StartVerify(x) \/ DeviceCheck(x)
  <2>1. job' \in Table
    BY <1>2, <1>t, ControlTyping, PhaseNames DEF V1Verify, StartVerify, DeviceCheck
  <2> QED
    BY <1>2, <2>1 DEF V1Verify, StartVerify, DeviceCheck, KeepRows, TypeOK, Table
<1>3. ASSUME NEW kind \in StartKinds, StartCheck(x, kind)
      PROVE  TypeOK'
  <2>1. /\ kind \in Kinds
        /\ rt.active_batch_id \in BatchIds
        /\ (IF kind = "v1" THEN "verified" ELSE "cloned") \in Phases
    BY <1>3, <1>t, PhaseNames DEF StartCheck, RuntimeStates
  <2>2. [job EXCEPT ![x].kind = kind,
                    ![x].pc = IF kind = "v1" THEN "verified" ELSE "cloned",
                    ![x].seen = rt.active_batch_id] \in Table
    BY <1>t, <2>1, FieldsTyping
  <2>3. job' \in Table
    BY <1>3, <1>t, <2>2, ControlTyping DEF StartCheck
  <2> QED
    BY <1>3, <1>t, <2>3, ClearTyping DEF StartCheck, KeepRows, TypeOK, Table
<1>4. CASE CreateRow(x)
  <2>1. \A b \in Batches :
          [job EXCEPT ![x].pc = "created", ![x].batch = b, ![x].seen = NoBatch] \in Table
    <3> SUFFICES ASSUME NEW b \in Batches
                 PROVE  [job EXCEPT ![x].pc = "created", ![x].batch = b,
                                    ![x].seen = NoBatch] \in Table
      OBVIOUS
    <3>1. "none" \in Kinds \cup {"none"} /\ b \in BatchIds /\ NoBatch \in BatchIds
      BY DEF BatchIds
    <3>2. "created" \in Phases /\ FALSE \in BOOLEAN
      BY PhaseNames
    <3> QED
      BY <1>t, <3>1, <3>2, FieldsTyping
  <2>2. job' \in Table /\ unfinished' \in SUBSET Batches
    BY <1>4, <1>t, <2>1, ControlTyping DEF CreateRow, TypeOK
  <2> QED
    BY <1>4, <2>2 DEF CreateRow, KeepField, TypeOK, Table
<1>5. CASE DeviceStart(x)
  <2>1. job' \in Table
    BY <1>5, <1>t, ControlTyping, PhaseNames DEF DeviceStart
  <2> QED
    BY <1>5, <1>t, <2>1 DEF DeviceStart, TypeOK, Table
<1>6. CASE StartFailed(x)
  BY <1>6, <1>t, ControlTyping, PhaseNames DEF StartFailed, KeepRows, TypeOK, Table
<1>7. CASE Abandon(x)
  BY <1>7, <1>t, ControlTyping DEF Abandon, KeepField, TypeOK, Table
<1> QED
  BY <1>1, <1>2, <1>3, <1>4, <1>5, <1>6, <1>7

\* A start that records, commits or rolls back keeps the state typed.
LEMMA CommitTyping ==
  ASSUME TypeOK, NEW x \in Handlers,
         \/ StartRecord(x) \/ CommitList(x) \/ Commit(x)
         \/ RollbackStop(x) \/ RollbackFailed(x) \/ RollbackStuck(x)
         \/ RollbackStopped(x) \/ RollbackClose(x) \/ TailLatch(x)
  PROVE  TypeOK'
<1>t. rt \in RuntimeStates /\ job \in Table /\ job[x].batch \in BatchIds
  BY DEF TypeOK, Table, Jobs
<1>1. CASE StartRecord(x)
  BY <1>1, <1>t, ControlTyping, PhaseNames DEF StartRecord, KeepRows, TypeOK, Table
<1>2. CASE CommitList(x)
  <2>1. [job EXCEPT ![x].pc = "listed", ![x].listed = unfinished] \in Table
    BY <1>t, PhaseNames DEF Table, Jobs, TypeOK
  <2> QED
    BY <1>2, <1>t, <2>1, ControlTyping, PhaseNames DEF CommitList, KeepRows, TypeOK, Table
<1>3. CASE Commit(x)
  <2>1. [job EXCEPT ![x].pc = "rollback", ![x].listed = {}] \in Table
    BY <1>t, PhaseNames DEF Table, Jobs
  <2>2. [rt EXCEPT !.targets = StartTargets, !.active_batch_id = job[x].batch,
                   !.auto_enabled = (job[x].kind # "batch")] \in RuntimeStates
    BY <1>t, LifecycleTargetAssumption DEF RuntimeStates
  <2>3. job' \in Table
    BY <1>3, <1>t, <2>1, ControlTyping DEF Commit
  <2>4. rt' \in RuntimeStates
    BY <1>3, <1>t, <2>2, ClearTyping DEF Commit
  <2> QED
    BY <1>3, <2>3, <2>4 DEF Commit, KeepRows, TypeOK, Table
<1>4. CASE RollbackStop(x)
  <2>1. job' \in Table
    BY <1>4, <1>t, ControlTyping, PhaseNames DEF RollbackStop
  <2> QED
    BY <1>4, <2>1 DEF RollbackStop, TypeOK, Table, BatchIds
<1>5. CASE RollbackFailed(x) \/ TailLatch(x)
  BY <1>5, <1>t, ControlTyping, PhaseNames DEF RollbackFailed, TailLatch, KeepRows, TypeOK,
     Table
<1>6. CASE RollbackStuck(x)
  <2>1. [rt EXCEPT !.active_batch_id = job[x].batch, !.targets = StartTargets] \in RuntimeStates
    BY <1>t, LifecycleTargetAssumption DEF RuntimeStates
  <2> QED
    BY <1>6, <1>t, <2>1, ControlTyping, PhaseNames DEF RollbackStuck, KeepRows, TypeOK, Table
<1>7. CASE RollbackStopped(x)
  <2>1. NoBatch \in BatchIds
    BY DEF BatchIds
  <2>2. rt' \in RuntimeStates
    BY <1>7, <1>t, <2>1, LifecycleTargetAssumption DEF RollbackStopped, RuntimeStates
  <2>3. job' \in Table
    BY <1>7, <1>t, ControlTyping, PhaseNames DEF RollbackStopped
  <2> QED
    BY <1>7, <2>2, <2>3 DEF RollbackStopped, KeepRows, TypeOK, Table
<1>8. CASE RollbackClose(x)
  BY <1>8, <1>t, ControlTyping, PhaseNames DEF RollbackClose, KeepField, TypeOK, Table
<1> QED
  BY <1>1, <1>2, <1>3, <1>4, <1>5, <1>6, <1>7, <1>8

\* A stop or finish keeps the state typed.
LEMMA StopTypingStep ==
  ASSUME TypeOK, NEW x \in Handlers,
         \/ StopBegin(x) \/ \E b \in Batches : FinishBegin(x, b)
         \/ ReadRow(x) \/ StopWrite(x) \/ StopFailed(x) \/ StopLock(x)
         \/ CloseRow(x) \/ ReloadRow(x) \/ StopAudit(x) \/ StopCommit(x)
  PROVE  TypeOK'
<1>t. rt \in RuntimeStates /\ job \in Table /\ rt.active_batch_id \in BatchIds
  BY DEF TypeOK, Table, RuntimeStates
<1>b. Batches \subseteq BatchIds /\ NoBatch \in BatchIds
  BY DEF BatchIds
<1>s. Stopped(x) \in RuntimeStates
  BY <1>t, LifecycleTargetAssumption DEF Stopped, RuntimeStates
<1>1. CASE StopBegin(x)
  <2>1. job' \in Table
    BY <1>1, <1>t, FieldsTyping, PhaseNames DEF StopBegin
  <2> QED
    BY <1>1, <2>1 DEF StopBegin, KeepRows, TypeOK, Table
<1>2. ASSUME NEW b \in Batches, FinishBegin(x, b)
      PROVE  TypeOK'
  <2>1. job' \in Table
    BY <1>2, <1>t, <1>b, FieldsTyping, PhaseNames DEF FinishBegin
  <2> QED
    BY <1>2, <2>1 DEF FinishBegin, KeepRows, TypeOK, Table
<1>3. CASE ReadRow(x)
  <2> DEFINE open == job[x].batch \in unfinished
             next == IF was_active(x) THEN "stop_write" ELSE "stop_lock"
  <2>1. open \in BOOLEAN /\ next \in Phases /\ "none" \in Kinds \cup {"none"}
    BY PhaseNames
  <2>2. [job EXCEPT ![x].was_open = open, ![x].pc = next] \in Table
    <3> HIDE DEF open, next
    <3> QED
      BY <1>t, <1>b, <2>1, FieldsTyping
  <2>3. job' \in Table
    BY <1>3, <1>t, <2>2, ControlTyping DEF ReadRow
  <2> QED
    BY <1>3, <2>3 DEF ReadRow, KeepRows, TypeOK, Table
<1>4. CASE StopWrite(x)
  <2>1. job' \in Table
    BY <1>4, <1>t, ControlTyping, PhaseNames DEF StopWrite
  <2> QED
    BY <1>4, <1>b, <2>1 DEF StopWrite, TypeOK, Table
<1>5. CASE StopFailed(x)
  BY <1>5, <1>t, ControlTyping DEF StopFailed, KeepRows, TypeOK, Table
<1>6. CASE StopLock(x)
  <2>1. job' \in Table /\ rt' \in RuntimeStates
    BY <1>6, <1>t, <1>s, ControlTyping, PhaseNames DEF StopLock
  <2> QED
    BY <1>6, <2>1 DEF StopLock, KeepRows, TypeOK, Table
<1>7. CASE CloseRow(x) \/ ReloadRow(x) \/ StopAudit(x)
  <2>1. job' \in Table
    BY <1>7, <1>t, ControlTyping, PhaseNames DEF CloseRow, ReloadRow, StopAudit, FailAfterStop
  <2>2. unfinished' \in SUBSET Batches
    BY <1>7 DEF CloseRow, ReloadRow, StopAudit, KeepRows, TypeOK
  <2> QED
    BY <1>7, <2>1, <2>2 DEF CloseRow, ReloadRow, StopAudit, KeepRows, KeepField, TypeOK, Table
<1>8. CASE StopCommit(x)
  <2>1. rt' \in RuntimeStates
    BY <1>8, <1>b, <1>s DEF StopCommit, RuntimeStates
  <2> QED
    BY <1>8, <1>t, <2>1, ControlTyping DEF StopCommit, KeepRows, TypeOK, Table
<1> QED
  BY <1>1, <1>2, <1>3, <1>4, <1>5, <1>6, <1>7, <1>8

\* A request that loses its client keeps the state typed.
LEMMA DisconnectTyping ==
  ASSUME TypeOK, NEW x \in Handlers, Disconnect(x)
  PROVE  TypeOK'
<1>1. job' \in Table
  BY ControlTyping DEF Disconnect, TypeOK, Table
<1>2. gone' \in 0..MaxGone
  BY LifecycleBoundAssumption DEF Disconnect, TypeOK
<1>3. job[x].batch \in BatchIds
  BY DEF TypeOK, Jobs
<1> QED
  BY <1>1, <1>2, <1>3 DEF Disconnect, TypeOK, Table

\* The field, the latches, operators and a restart keep the state typed.
LEMMA EnvironmentTyping ==
  ASSUME TypeOK, Environment
  PROVE  TypeOK'
<1>t. rt \in RuntimeStates /\ job \in Table
  BY DEF TypeOK, Table
<1>1. CASE FieldReports
  <2>1. "fresh" \in SampleView /\ "healthy" \in StatusView
    BY DEF SampleView, StatusView
  <2> QED
    BY <1>1, <1>t, <2>1, AcceptTyping DEF FieldReports, KeepRows, TypeOK
<1>2. CASE SampleAges
  <2>1. rt' \in RuntimeStates
    BY <1>2, <1>t DEF SampleAges, RuntimeStates, SampleView
  <2> QED
    BY <1>2, <2>1 DEF SampleAges, KeepRows, TypeOK
<1>3. CASE EngageLatch
  <2>1. rt' \in RuntimeStates /\ job' \in Table
    BY <1>3, <1>t, StopTyping, LockTyping, LatchTyping, OvertakeTyping DEF EngageLatch
  <2> QED
    BY <1>3, <2>1 DEF EngageLatch, KeepRows, TypeOK, Table
<1>4. CASE ResetEmergencyStop \/ Unlock \/ ResetControlFault
  <2>1. rt' \in RuntimeStates
    BY <1>4, <1>t, ClearTyping DEF ResetEmergencyStop, Unlock, ResetControlFault
  <2> QED
    BY <1>4, <2>1 DEF ResetEmergencyStop, Unlock, ResetControlFault, KeepRows, TypeOK, BatchIds
<1>5. CASE Restart
  <2>1. rt' \in RuntimeStates
    BY <1>5, RecoverTyping DEF Restart, TypeOK, BatchIds
  <2>2. restarts' \in 0..MaxRestarts
    BY <1>5, LifecycleBoundAssumption DEF Restart, TypeOK
  <2>3. job' \in Table
    BY <1>5, IdleTyping DEF Restart, Table
  <2> QED
    BY <1>5, <2>1, <2>2, <2>3 DEF Restart, TypeOK, Table
<1> QED
  BY <1>1, <1>2, <1>3, <1>4, <1>5 DEF Environment

\* Every step keeps the state typed.
LEMMA StepTyping == TypeOK /\ [Next]_vars => TypeOK'
<1> SUFFICES ASSUME TypeOK, [Next]_vars PROVE TypeOK'
  OBVIOUS
<1>1. ASSUME NEW x \in Handlers, HandlerBegins(x) \/ HandlerStep(x)
      PROVE  TypeOK'
  BY <1>1, StartTyping, CommitTyping, StopTypingStep
  DEF HandlerBegins, HandlerStep, StartKinds
<1>2. CASE UNCHANGED vars
  BY <1>2 DEF vars, TypeOK
<1> QED
  BY <1>1, <1>2, DisconnectTyping, EnvironmentTyping DEF Next

(***************************************************************************)
(* Type correctness of the production handlers, of the rows and of the     *)
(* history, through every failure and restart.                             *)
(***************************************************************************)
THEOREM TypeCorrect == Spec => []TypeOK
<1>1. Init => TypeOK
  <2>1. 0 \in 0..MaxRestarts /\ 0 \in 0..MaxGone
    BY LifecycleBoundAssumption
  <2>2. Init => job \in [Handlers -> Jobs]
    BY IdleTyping DEF Init
  <2> QED
    BY <2>1, <2>2, FromSafetyTyping DEF Init, TypeOK, BatchIds
<1> QED
  BY <1>1, StepTyping, PTL DEF Spec

-----------------------------------------------------------------------------
(* The inductive invariant.                                                *)

\* The phases of a start before and after it has inserted its row, and of a stop.
Checking == {"v1_read", "v1_verified", "cloned", "verified"}
Writing == {"write", "start_failed", "started", "recorded", "listed", "rollback",
            "rollback_failed", "rollback_stuck", "rollback_stopped", "rollback_close"}
Holding == {"created", "abandon"} \cup Writing
Stopping == {"row", "stop_write", "stop_failed", "stop_lock", "close", "reload",
             "stop_audit", "stop_commit"}
PastStop == {"stop_lock", "close", "reload", "stop_audit", "stop_commit"}

\* A start whose batch the device does not run: before its write, after a stop or a failure.
NotRunning == {"created", "write", "start_failed", "abandon", "rollback_stopped",
               "rollback_close"}

Holds(x) == job[x].pc \in Holding
Stops(x) == job[x].kind \in StopKinds

\* What the record of one request looks like in each phase.
JobOK(j) ==
    /\ j.pc = "idle" <=> j.kind = "none"
    /\ j.pc = "idle" => j.batch = NoBatch
    /\ j.pc \in Checking => j.kind \in StartKinds /\ j.batch = NoBatch
    /\ j.pc \in Holding => j.kind \in StartKinds /\ j.batch \in Batches
    /\ j.pc \in Stopping => j.kind \in StopKinds
    /\ j.kind \in StopKinds => j.batch \in Batches
    /\ j.kind = "stop" => j.seen = j.batch
    /\ j.pc \in {"stop_write", "stop_failed"} => j.seen = j.batch

JobsOK == \A x \in Handlers : JobOK(job[x])

\* A stop that found its row closed, or has closed it.
StillClosed(x) ==
    /\ Stops(x)
    /\ \/ job[x].pc \in {"reload", "stop_audit", "stop_commit"}
       \/ job[x].pc \in {"stop_write", "stop_failed", "stop_lock", "close"} /\ ~job[x].was_open

\* That row stays closed.
ClosedStaysClosed == \A x \in Handlers : StillClosed(x) => job[x].batch \notin unfinished

\* Nobody else refers to the batch of a start that holds its row.
OwnBatch ==
    \A x, y \in Handlers : Holds(x) /\ x # y => job[y].batch # job[x].batch

\* A start keeps its row, and its batch is not the active one before it returns.
RowIsHeld ==
    \A x \in Handlers :
        Holds(x) => job[x].batch \in unfinished /\ rt.active_batch_id # job[x].batch

\* Nothing is active while a start is past the check of start_process_on_device.
NothingActive == \A x \in Handlers : InStart(x) => rt.active_batch_id = NoBatch

\* The device does not run the batch of a start that has not written, failed or stopped it.
StartNotRunning ==
    \A x \in Handlers : job[x].pc \in NotRunning => running # job[x].batch

\* A finish of a batch that was not active never meets it active.
InactiveStays ==
    \A x \in Handlers : Stops(x) /\ ~was_active(x) => rt.active_batch_id # job[x].batch

\* A stop past its device command, or a finish that needs none, refers to no running batch.
StopNotRunning ==
    \A x \in Handlers :
        Stops(x) /\ (job[x].pc \in PastStop \/ (job[x].pc = "row" /\ job[x].seen = NoBatch))
        => running # job[x].batch

\* A stop past its device command, of the batch that is active, has left the device standing.
StoppedDeviceStands ==
    \A x \in Handlers :
        Stops(x) /\ job[x].pc \in PastStop /\ rt.active_batch_id = job[x].batch
        => running = NoBatch

\* A device that runs is known: something is active, or its start is in flight or vanished.
RunIsKnown ==
    running # NoBatch =>
        \/ rt.active_batch_id # NoBatch
        \/ \E x \in Handlers : InStart(x) /\ job[x].batch = running
        \/ running \in vanished

\* RunHasAnOwner, but for what refuses production after a vanished start.
RunIsAnswered ==
    running # NoBatch =>
        \/ rt.active_batch_id = running
        \/ rt.last_control_error
        \/ \E x \in Handlers : InStart(x) /\ job[x].batch = running
        \/ running \in vanished

\* The row of a vanished start is open, not active, and no request refers to it.
VanishedIsHeld ==
    \A b \in vanished :
        /\ b \in unfinished /\ rt.active_batch_id # b
        /\ \A x \in Handlers : job[x].batch # b

\* RunIsOnRecord without the excuse of a fault.
RunHasARow == running # NoBatch => running \in unfinished

Inv ==
    /\ OwnBatch /\ RowIsHeld
    /\ StartsExclude /\ NothingActive
    /\ StartNotRunning /\ InactiveStays /\ StopNotRunning /\ StoppedDeviceStands
    /\ RunIsKnown /\ RunHasARow /\ RunIsAnswered /\ VanishedIsHeld

-----------------------------------------------------------------------------
(* What the steps do to the fields of the table the invariant speaks of.   *)

SameRest(y) ==
    /\ job'[y].kind = job[y].kind /\ job'[y].batch = job[y].batch
    /\ job'[y].seen = job[y].seen /\ job'[y].was_open = job[y].was_open

Same(y) == job'[y].pc = job[y].pc /\ SameRest(y)

Others(x) == \A y \in Handlers : y # x => Same(y)

Moves(x, pc) == Others(x) /\ SameRest(x) /\ job'[x].pc = pc

Leaves(x) ==
    Others(x) /\ job'[x].pc = "idle" /\ job'[x].kind = "none" /\ job'[x].batch = NoBatch

\* Noticing a latch changes none of these fields.
LEMMA OvertakeFields ==
  ASSUME NEW jobs \in Table, NEW y \in Handlers
  PROVE  /\ Overtake(jobs)[y].pc = jobs[y].pc /\ Overtake(jobs)[y].kind = jobs[y].kind
         /\ Overtake(jobs)[y].batch = jobs[y].batch /\ Overtake(jobs)[y].seen = jobs[y].seen
         /\ Overtake(jobs)[y].was_open = jobs[y].was_open
  BY DEF Overtake, Table, Jobs

\* The four ways to go on, and an engaged latch, in terms of these fields.
LEMMA ControlFields ==
  ASSUME TypeOK, NEW x \in Handlers, NEW pc \in Phases, NEW s
  PROVE  /\ Goto(x, pc) => Moves(x, pc)
         /\ LatchAndGoto(s, x, pc) => Moves(x, pc)
         /\ Return(x) => Leaves(x)
         /\ LatchAndReturn(s, x) => Leaves(x)
         /\ job' = Overtake(job) => \A y \in Handlers : Same(y)
<1>1. job \in Table
  BY DEF TypeOK, Table
<1>2. [job EXCEPT ![x].pc = pc] \in Table /\ [job EXCEPT ![x] = Idle] \in Table
  BY <1>1, MoveTyping
<1>3. /\ \A y \in Handlers : y # x => [job EXCEPT ![x].pc = pc][y] = job[y]
      /\ [job EXCEPT ![x].pc = pc][x] = [job[x] EXCEPT !.pc = pc]
      /\ \A y \in Handlers : y # x => [job EXCEPT ![x] = Idle][y] = job[y]
      /\ [job EXCEPT ![x] = Idle][x] = Idle
  BY <1>1 DEF Table
<1>4. [job[x] EXCEPT !.pc = pc].pc = pc
      /\ [job[x] EXCEPT !.pc = pc].kind = job[x].kind
      /\ [job[x] EXCEPT !.pc = pc].batch = job[x].batch
      /\ [job[x] EXCEPT !.pc = pc].seen = job[x].seen
      /\ [job[x] EXCEPT !.pc = pc].was_open = job[x].was_open
  BY <1>1 DEF Table, Jobs
<1>5. Idle.pc = "idle" /\ Idle.kind = "none" /\ Idle.batch = NoBatch
  BY DEF Idle
<1>6. Goto(x, pc) => Moves(x, pc)
  BY <1>3, <1>4 DEF Goto, Moves, Others, Same, SameRest
<1>7. Return(x) => Leaves(x)
  BY <1>3, <1>5 DEF Return, Leaves, Others, Same, SameRest
<1>8. LatchAndGoto(s, x, pc) => Moves(x, pc)
  <2> DEFINE moved == [job EXCEPT ![x].pc = pc]
  <2>1. LatchAndGoto(s, x, pc) => job' = Overtake(moved)
    BY DEF LatchAndGoto
  <2>2. /\ \A y \in Handlers : y # x => moved[y] = job[y]
        /\ moved[x] = [job[x] EXCEPT !.pc = pc]
        /\ moved \in Table
    BY <1>2, <1>3
  <2> HIDE DEF moved
  <2>3. LatchAndGoto(s, x, pc) => Others(x)
    BY <2>1, <2>2, OvertakeFields DEF Others, Same, SameRest
  <2>4. LatchAndGoto(s, x, pc) => SameRest(x) /\ job'[x].pc = pc
    <3>1. /\ Overtake(moved)[x].pc = moved[x].pc /\ Overtake(moved)[x].kind = moved[x].kind
          /\ Overtake(moved)[x].batch = moved[x].batch
          /\ Overtake(moved)[x].seen = moved[x].seen
          /\ Overtake(moved)[x].was_open = moved[x].was_open
      BY <2>2, OvertakeFields
    <3> QED
      BY <2>1, <2>2, <3>1, <1>4 DEF SameRest
  <2> QED
    BY <2>3, <2>4 DEF Moves
<1>9. LatchAndReturn(s, x) => Leaves(x)
  <2> DEFINE left == [job EXCEPT ![x] = Idle]
  <2>1. LatchAndReturn(s, x) => job' = Overtake(left)
    BY DEF LatchAndReturn
  <2>2. (\A y \in Handlers : y # x => left[y] = job[y]) /\ left[x] = Idle /\ left \in Table
    BY <1>2, <1>3
  <2> HIDE DEF left
  <2> QED
    BY <2>1, <2>2, <1>5, OvertakeFields DEF Leaves, Others, Same, SameRest
<1>10. job' = Overtake(job) => \A y \in Handlers : Same(y)
  BY <1>1, OvertakeFields DEF Same, SameRest
<1> QED
  BY <1>6, <1>7, <1>8, <1>9, <1>10

\* A request that loses its client leaves, and writes nothing.
LEMMA DisconnectFields ==
  ASSUME TypeOK, NEW x \in Handlers, Disconnect(x)
  PROVE  /\ Leaves(x)
         /\ rt' = rt /\ unfinished' = unfinished /\ running' = running /\ stray' = stray
         /\ restarts' = restarts /\ gone' # gone
         /\ vanished' = vanished \cup (IF InStart(x) THEN {job[x].batch} ELSE {})
  BY ControlFields, PhaseNames, LifecycleBoundAssumption DEF Disconnect, TypeOK

\* What the methods do to the two fields of the runtime the invariant speaks of.
LEMMA RuntimeFields ==
  ASSUME NEW s \in RuntimeStates
  PROVE  /\ latch_control_fault(s).last_control_error = TRUE
         /\ latch_control_fault(s).active_batch_id = s.active_batch_id
         /\ \A f \in {disable_auto(s), engage_emergency_stop(s), engage_manual_lock(s),
                      clear_emergency_stop(s), clear_manual_lock(s),
                      accept_sample(s, "fresh", "healthy")} :
              /\ f.last_control_error = s.last_control_error
              /\ f.active_batch_id = s.active_batch_id
         /\ clear_control_fault(s).active_batch_id = s.active_batch_id
  BY DEF latch_control_fault, disable_auto, engage_emergency_stop, engage_manual_lock,
         clear_emergency_stop, clear_manual_lock, clear_control_fault, accept_sample,
         device_status_field_fault, downstream_command_fault, RuntimeStates

\* After a restart the first open row, if any, is active and a fault is latched.
LEMMA RecoverFields ==
  ASSUME NEW first \in BatchIds
  PROVE  /\ recover_runtime_from_db(first).active_batch_id = first
         /\ first # NoBatch => recover_runtime_from_db(first).last_control_error
<1>1. [from_safety EXCEPT !.active_batch_id = first] \in RuntimeStates
      /\ [from_safety EXCEPT !.active_batch_id = first].active_batch_id = first
  BY FromSafetyTyping DEF RuntimeStates
<1>2. from_safety.active_batch_id = NoBatch
  BY DEF from_safety
<1> QED
  BY <1>1, <1>2, RuntimeFields DEF recover_runtime_from_db

\* A request writes several fields of its record at once.
Enters(x, kind, pc, batch, seen) ==
    /\ Others(x)
    /\ job'[x].kind = kind /\ job'[x].pc = pc
    /\ job'[x].batch = batch /\ job'[x].seen = seen

\* The actions that do.
LEMMA EnterFields ==
  ASSUME TypeOK, NEW x \in Handlers
  PROVE  /\ V1Read(x) => Enters(x, "v1", "v1_read", job[x].batch, job[x].seen)
         /\ \A kind : StartCheck(x, kind) =>
              \/ Leaves(x)
              \/ Enters(x, kind, IF kind = "v1" THEN "verified" ELSE "cloned",
                        job[x].batch, rt.active_batch_id)
         /\ CreateRow(x) =>
              \/ Leaves(x) /\ unfinished' = unfinished
              \/ \E b \in Batches :
                   /\ Fresh(b) /\ unfinished' = unfinished \cup {b}
                   /\ Enters(x, job[x].kind, "created", b, NoBatch)
         /\ CommitList(x) => Moves(x, "listed") \/ Moves(x, "rollback")
         /\ job' = [job EXCEPT ![x].pc = "rollback", ![x].listed = {}] => Moves(x, "rollback")
         /\ StopBegin(x) => Enters(x, "stop", "row", rt.active_batch_id, rt.active_batch_id)
         /\ \A b : FinishBegin(x, b) => Enters(x, "finish", "row", b, rt.active_batch_id)
         /\ ReadRow(x) =>
              \/ Leaves(x)
              \/ /\ Enters(x, job[x].kind,
                           IF was_active(x) THEN "stop_write" ELSE "stop_lock",
                           job[x].batch, job[x].seen)
                 /\ job'[x].was_open = (job[x].batch \in unfinished)
                 /\ job[x].kind = "finish" => job[x].seen \in {NoBatch, job[x].batch}
<1>1. job \in Table /\ job[x] \in Jobs
  BY DEF TypeOK, Table
<1>2. Return(x) => Leaves(x)
  BY ControlFields, PhaseNames
<1>3. CommitList(x) => Moves(x, "listed") \/ Moves(x, "rollback")
  <2>1. Goto(x, "rollback") => Moves(x, "rollback")
    BY ControlFields, PhaseNames
  <2>2. job' = [job EXCEPT ![x].pc = "listed", ![x].listed = unfinished] => Moves(x, "listed")
    BY <1>1 DEF Table, Jobs, Moves, Others, Same, SameRest
  <2> QED
    BY <2>1, <2>2 DEF CommitList
<1>4. job' = [job EXCEPT ![x].pc = "rollback", ![x].listed = {}] => Moves(x, "rollback")
  BY <1>1 DEF Table, Jobs, Moves, Others, Same, SameRest
<1>5. V1Read(x) => Enters(x, "v1", "v1_read", job[x].batch, job[x].seen)
  BY <1>1 DEF V1Read, Enters, Table, Jobs, Others, Same, SameRest
<1>6. ASSUME NEW kind, StartCheck(x, kind)
      PROVE  \/ Leaves(x)
             \/ Enters(x, kind, IF kind = "v1" THEN "verified" ELSE "cloned",
                       job[x].batch, rt.active_batch_id)
  BY <1>1, <1>2, <1>6 DEF StartCheck, Enters, Table, Jobs, Others, Same, SameRest
<1>7. CreateRow(x) =>
        \/ Leaves(x) /\ unfinished' = unfinished
        \/ \E b \in Batches :
             /\ Fresh(b) /\ unfinished' = unfinished \cup {b}
             /\ Enters(x, job[x].kind, "created", b, NoBatch)
  <2>1. ASSUME NEW b \in Batches,
               job' = [job EXCEPT ![x].pc = "created", ![x].batch = b, ![x].seen = NoBatch]
        PROVE  Enters(x, job[x].kind, "created", b, NoBatch)
    BY <1>1, <2>1 DEF Enters, Table, Jobs, Others, Same, SameRest
  <2> QED
    BY <1>2, <2>1 DEF CreateRow
<1>8. StopBegin(x) => Enters(x, "stop", "row", rt.active_batch_id, rt.active_batch_id)
  BY <1>1 DEF StopBegin, Enters, Table, Jobs, Others, Same, SameRest
<1>9. ASSUME NEW b, FinishBegin(x, b)
      PROVE  Enters(x, "finish", "row", b, rt.active_batch_id)
  BY <1>1, <1>9 DEF FinishBegin, Enters, Table, Jobs, Others, Same, SameRest
<1>10. ReadRow(x) =>
         \/ Leaves(x)
         \/ /\ Enters(x, job[x].kind, IF was_active(x) THEN "stop_write" ELSE "stop_lock",
                      job[x].batch, job[x].seen)
            /\ job'[x].was_open = (job[x].batch \in unfinished)
            /\ job[x].kind = "finish" => job[x].seen \in {NoBatch, job[x].batch}
  BY <1>1, <1>2 DEF ReadRow, Enters, Table, Jobs, Others, Same, SameRest
<1> QED
  BY <1>3, <1>4, <1>5, <1>6, <1>7, <1>8, <1>9, <1>10

-----------------------------------------------------------------------------
(* The records of the requests.                                            *)

\* It is enough to look at the record of the request that steps.
LEMMA OneRecord ==
  ASSUME JobsOK, NEW x \in Handlers, Others(x), JobOK(job'[x])
  PROVE  JobsOK'
  BY DEF JobsOK, JobOK, Others, Same, SameRest

\* A handler that returns leaves well-formed records.
LEMMA LeavingRecord ==
  ASSUME JobsOK, NEW x \in Handlers, Leaves(x)
  PROVE  JobsOK'
<1>1. JobOK(job'[x])
  BY DEF Leaves, JobOK, Checking, Holding, Writing, Stopping, StopKinds
<1> QED
  BY <1>1, OneRecord DEF Leaves

\* A start that checks and inserts its row.
LEMMA CheckingRecord ==
  ASSUME TypeOK, JobsOK, NEW x \in Handlers,
         \/ V1Read(x) \/ V1Verify(x) \/ \E kind \in StartKinds : StartCheck(x, kind)
         \/ StartVerify(x) \/ CreateRow(x)
  PROVE  JobsOK'
<1>j. JobOK(job[x])
  BY DEF JobsOK
<1> USE DEF JobOK, Checking, Holding, Writing, Stopping, StopKinds, StartKinds
<1>1. CASE V1Read(x)
  <2>1. Enters(x, "v1", "v1_read", job[x].batch, job[x].seen) /\ job[x].pc = "idle"
    BY <1>1, EnterFields DEF V1Read, At
  <2>2. JobOK(job'[x])
    BY <2>1, <1>j DEF Enters
  <2> QED
    BY <2>1, <2>2, OneRecord DEF Enters
<1>2. CASE V1Verify(x) \/ StartVerify(x)
  <2>1. job[x].pc \in {"v1_read", "cloned"}
    BY <1>2 DEF V1Verify, StartVerify, At
  <2>2. Leaves(x) \/ Moves(x, "v1_verified") \/ Moves(x, "verified")
    BY <1>2, ControlFields, PhaseNames DEF V1Verify, StartVerify
  <2>3. CASE Moves(x, "v1_verified") \/ Moves(x, "verified")
    <3>1. JobOK(job'[x])
      BY <2>1, <2>3, <1>j DEF Moves, SameRest
    <3> QED
      BY <2>3, <3>1, OneRecord DEF Moves
  <2> QED
    BY <2>2, <2>3, LeavingRecord
<1>3. ASSUME NEW kind \in StartKinds, StartCheck(x, kind)
      PROVE  JobsOK'
  <2> DEFINE pc == IF kind = "v1" THEN "verified" ELSE "cloned"
  <2>1. job[x].pc \in {"idle", "v1_verified"}
    BY <1>3 DEF StartCheck, At
  <2>2. Leaves(x) \/ Enters(x, kind, pc, job[x].batch, rt.active_batch_id)
    BY <1>3, EnterFields
  <2>3. CASE Enters(x, kind, pc, job[x].batch, rt.active_batch_id)
    <3>1. JobOK(job'[x])
      BY <2>1, <2>3, <1>j DEF Enters
    <3> QED
      BY <2>3, <3>1, OneRecord DEF Enters
  <2> QED
    BY <2>2, <2>3, LeavingRecord
<1>4. CASE CreateRow(x)
  <2>1. job[x].pc = "verified"
    BY <1>4 DEF CreateRow, At
  <2>2. ASSUME NEW b \in Batches, Enters(x, job[x].kind, "created", b, NoBatch)
        PROVE  JobsOK'
    <3>1. JobOK(job'[x])
      BY <2>1, <2>2, <1>j DEF Enters
    <3> QED
      BY <2>2, <3>1, OneRecord DEF Enters
  <2> QED
    BY <1>4, <2>2, EnterFields, LeavingRecord
<1> QED
  BY <1>1, <1>2, <1>3, <1>4

\* A start that has its row goes on with it, or returns.
HoldingStep(x) ==
    \/ DeviceCheck(x) \/ DeviceStart(x) \/ StartFailed(x) \/ Abandon(x)
    \/ StartRecord(x) \/ CommitList(x) \/ Commit(x)
    \/ RollbackStop(x) \/ RollbackFailed(x) \/ RollbackStuck(x)
    \/ RollbackStopped(x) \/ RollbackClose(x)

\* A handler that holds its row keeps it, moves on or returns.
LEMMA HoldingFields ==
  ASSUME TypeOK, NEW x \in Handlers, HoldingStep(x)
  PROVE  /\ Holds(x)
         /\ Leaves(x) \/ \E pc \in Holding \cup {"tail"} : Moves(x, pc)
<1> USE ControlFields, PhaseNames DEF Holds, Holding, Writing, At
<1>1. CASE DeviceCheck(x)
  BY <1>1 DEF DeviceCheck
<1>2. CASE DeviceStart(x)
  BY <1>2 DEF DeviceStart
<1>3. CASE StartFailed(x)
  BY <1>3 DEF StartFailed
<1>4. CASE Abandon(x)
  BY <1>4 DEF Abandon
<1>5. CASE StartRecord(x)
  BY <1>5 DEF StartRecord
<1>6. CASE CommitList(x)
  <2>1. At(x, "recorded")
    BY <1>6 DEF CommitList
  <2> QED
    BY <1>6, <2>1, EnterFields
<1>7. CASE Commit(x)
  <2>1. At(x, "listed")
        /\ (Return(x) \/ job' = [job EXCEPT ![x].pc = "rollback", ![x].listed = {}])
    BY <1>7 DEF Commit
  <2> QED
    BY <2>1, EnterFields
<1>8. CASE RollbackStop(x)
  BY <1>8 DEF RollbackStop
<1>9. CASE RollbackFailed(x)
  BY <1>9 DEF RollbackFailed
<1>10. CASE RollbackStuck(x)
  BY <1>10 DEF RollbackStuck
<1>11. CASE RollbackStopped(x)
  BY <1>11 DEF RollbackStopped
<1>12. CASE RollbackClose(x)
  BY <1>12 DEF RollbackClose
<1> QED
  BY <1>1, <1>2, <1>3, <1>4, <1>5, <1>6, <1>7, <1>8, <1>9, <1>10, <1>11, <1>12
  DEF HoldingStep

\* The steps of a start that holds its row keep the records well formed.
LEMMA HoldingRecord ==
  ASSUME TypeOK, JobsOK, NEW x \in Handlers, HoldingStep(x)
  PROVE  JobsOK'
<1>1. JobOK(job[x]) /\ Holds(x)
  BY HoldingFields DEF JobsOK
<1>2. ASSUME NEW pc \in Holding \cup {"tail"}, Moves(x, pc)
      PROVE  JobsOK'
  <2>1. JobOK(job'[x])
    BY <1>1, <1>2 DEF Moves, SameRest, Holds, JobOK, Checking, Holding, Writing, Stopping,
       StopKinds, StartKinds
  <2> QED
    BY <1>2, <2>1, OneRecord DEF Moves
<1> QED
  BY <1>2, HoldingFields, LeavingRecord

\* A stop that has read its row goes on with it, or returns.
StoppingStep(x) ==
    \/ StopWrite(x) \/ StopFailed(x) \/ StopLock(x) \/ CloseRow(x)
    \/ ReloadRow(x) \/ StopAudit(x) \/ StopCommit(x)

\* Where the steps of a stop can lead.
LEMMA StoppingFields ==
  ASSUME TypeOK, NEW x \in Handlers, StoppingStep(x)
  PROVE  /\ job[x].pc \in Stopping \ {"row"}
         /\ \/ Leaves(x)
            \/ Moves(x, "stop_failed") /\ At(x, "stop_write")
            \/ Moves(x, "stop_lock") /\ At(x, "stop_write")
            \/ \E pc \in {"close", "reload", "stop_audit", "stop_commit", "tail"} :
                 Moves(x, pc) /\ job[x].pc \in PastStop
<1> USE ControlFields, PhaseNames DEF Stopping, PastStop, At
<1>1. CASE StopWrite(x)
  BY <1>1 DEF StopWrite
<1>2. CASE StopFailed(x)
  BY <1>2 DEF StopFailed
<1>3. CASE StopLock(x)
  BY <1>3 DEF StopLock
<1>4. CASE CloseRow(x)
  BY <1>4 DEF CloseRow, FailAfterStop
<1>5. CASE ReloadRow(x)
  BY <1>5 DEF ReloadRow
<1>6. CASE StopAudit(x)
  BY <1>6 DEF StopAudit, FailAfterStop
<1>7. CASE StopCommit(x)
  BY <1>7 DEF StopCommit
<1> QED
  BY <1>1, <1>2, <1>3, <1>4, <1>5, <1>6, <1>7 DEF StoppingStep

\* The steps of a stop or finish keep the records well formed.
LEMMA StoppingRecord ==
  ASSUME TypeOK, JobsOK, NEW x \in Handlers,
         \/ StopBegin(x) \/ \E b \in Batches : FinishBegin(x, b)
         \/ ReadRow(x) \/ StoppingStep(x) \/ TailLatch(x)
  PROVE  JobsOK'
<1>j. JobOK(job[x])
  BY DEF JobsOK
<1> USE DEF JobOK, Checking, Holding, Writing, Stopping, StopKinds, StartKinds
<1>1. CASE StopBegin(x)
  <2>1. Enters(x, "stop", "row", rt.active_batch_id, rt.active_batch_id)
        /\ rt.active_batch_id \in Batches
    BY <1>1, EnterFields DEF StopBegin, TypeOK, RuntimeStates, BatchIds
  <2>2. JobOK(job'[x])
    BY <2>1 DEF Enters
  <2> QED
    BY <2>1, <2>2, OneRecord DEF Enters
<1>2. ASSUME NEW b \in Batches, FinishBegin(x, b)
      PROVE  JobsOK'
  <2>1. Enters(x, "finish", "row", b, rt.active_batch_id)
    BY <1>2, EnterFields
  <2>2. JobOK(job'[x])
    BY <2>1 DEF Enters
  <2> QED
    BY <2>1, <2>2, OneRecord DEF Enters
<1>3. CASE ReadRow(x)
  <2> DEFINE pc == IF was_active(x) THEN "stop_write" ELSE "stop_lock"
  <2>1. At(x, "row") /\ (Leaves(x) \/ Enters(x, job[x].kind, pc, job[x].batch, job[x].seen))
    BY <1>3, EnterFields DEF ReadRow
  <2>2. CASE Enters(x, job[x].kind, pc, job[x].batch, job[x].seen)
    <3>1. JobOK(job'[x])
      BY <1>j, <2>1, <2>2 DEF Enters, At, was_active
    <3> QED
      BY <2>2, <3>1, OneRecord DEF Enters
  <2> QED
    BY <2>1, <2>2, LeavingRecord
<1>4. CASE StoppingStep(x)
  <2>1. job[x].pc \in Stopping
    BY <1>4, StoppingFields
  <2>2. ASSUME Moves(x, "stop_failed"), At(x, "stop_write")
        PROVE  JobsOK'
    <3>1. JobOK(job'[x])
      BY <1>j, <2>2 DEF Moves, SameRest, At
    <3> QED
      BY <2>2, <3>1, OneRecord DEF Moves
  <2>3. ASSUME NEW pc \in {"stop_lock", "close", "reload", "stop_audit", "stop_commit", "tail"},
               Moves(x, pc)
        PROVE  JobsOK'
    <3>1. JobOK(job'[x])
      BY <1>j, <2>1, <2>3 DEF Moves, SameRest
    <3> QED
      BY <2>3, <3>1, OneRecord DEF Moves
  <2> QED
    BY <1>4, <2>2, <2>3, StoppingFields, LeavingRecord
<1>5. CASE TailLatch(x)
  BY <1>5, ControlFields, PhaseNames, LeavingRecord DEF TailLatch
<1> QED
  BY <1>1, <1>2, <1>3, <1>4, <1>5

\* The world around the handlers touches their records only by a restart.
LEMMA EnvironmentFields ==
  ASSUME TypeOK, Environment
  PROVE  (\A y \in Handlers : Same(y)) \/ Restart
<1>1. CASE EngageLatch
  <2>1. job' = Overtake(job)
    BY <1>1 DEF EngageLatch
  <2>2. ASSUME NEW y \in Handlers PROVE Same(y)
    BY <2>1, ControlFields, PhaseNames
  <2> QED
    BY <2>2
<1>2. CASE UNCHANGED job
  BY <1>2 DEF Same, SameRest
<1> QED
  BY <1>1, <1>2 DEF Environment, FieldReports, SampleAges, ResetEmergencyStop, Unlock,
     ResetControlFault

\* The kinds of steps, as the lemmas split them.
LEMMA StepKinds ==
  ASSUME Next
  PROVE  \/ \E x \in Handlers :
              \/ V1Read(x) \/ V1Verify(x) \/ \E kind \in StartKinds : StartCheck(x, kind)
              \/ StartVerify(x) \/ CreateRow(x)
         \/ \E x \in Handlers : HoldingStep(x)
         \/ \E x \in Handlers :
              \/ StopBegin(x) \/ \E b \in Batches : FinishBegin(x, b)
              \/ ReadRow(x) \/ StoppingStep(x) \/ TailLatch(x)
         \/ \E x \in Handlers : Disconnect(x)
         \/ Environment
  BY DEF Next, HandlerBegins, HandlerStep, StartKinds, HoldingStep, StoppingStep

\* Every step keeps the records in order.
LEMMA StepRecords == TypeOK /\ JobsOK /\ [Next]_vars => JobsOK'
<1> SUFFICES ASSUME TypeOK, JobsOK, [Next]_vars PROVE JobsOK'
  OBVIOUS
<1>1. CASE Environment
  <2>1. CASE Restart
    <3>1. \A y \in Handlers : job'[y] = Idle
      BY <2>1 DEF Restart
    <3>2. JobOK(Idle)
      BY DEF JobOK, Idle, Checking, Holding, Writing, Stopping, StopKinds
    <3> QED
      BY <3>1, <3>2 DEF JobsOK
  <2>2. CASE \A y \in Handlers : Same(y)
    BY <2>2 DEF JobsOK, JobOK, Same, SameRest
  <2> QED
    BY <1>1, <2>1, <2>2, EnvironmentFields
<1>2. CASE UNCHANGED vars
  BY <1>2 DEF vars, JobsOK
<1>3. ASSUME NEW x \in Handlers, Disconnect(x)
      PROVE  JobsOK'
  BY <1>3, DisconnectFields, LeavingRecord
<1> QED
  BY <1>1, <1>2, <1>3, StepKinds, CheckingRecord, HoldingRecord, StoppingRecord

\* At startup every handler is idle.
LEMMA InitialRecords == Init => JobsOK
  BY DEF Init, JobsOK, JobOK, Idle, Checking, Holding, Writing, Stopping, StopKinds

-----------------------------------------------------------------------------
(* The fault, and what a failed start or stop leaves behind.               *)

FaultKept == rt.last_control_error => rt'.last_control_error
ActiveKept == rt'.active_batch_id = rt.active_batch_id

\* Most steps of a request leave the runtime alone; these are the others.
LEMMA RuntimeWriters ==
  ASSUME NEW x \in Handlers, HandlerBegins(x) \/ HandlerStep(x)
  PROVE  \/ UNCHANGED rt \/ rt' = disable_auto(rt)
         \/ StartFailed(x) \/ Commit(x) \/ RollbackFailed(x) \/ RollbackStuck(x)
         \/ RollbackStopped(x) \/ TailLatch(x) \/ StopFailed(x) \/ StopLock(x) \/ StopCommit(x)
<1>r. \A kind : StartCheck(x, kind) => rt' = disable_auto(rt)
  BY DEF StartCheck
<1>1. CASE V1Read(x) \/ V1Verify(x) \/ StartVerify(x) \/ CreateRow(x) \/ DeviceCheck(x)
           \/ DeviceStart(x) \/ Abandon(x) \/ StartRecord(x) \/ CommitList(x)
  BY <1>1 DEF V1Read, V1Verify, StartVerify, CreateRow, DeviceCheck, DeviceStart, Abandon,
     StartRecord, CommitList
<1>2. CASE RollbackStop(x) \/ RollbackClose(x) \/ StopBegin(x)
           \/ (\E b \in Batches : FinishBegin(x, b)) \/ ReadRow(x) \/ StopWrite(x)
           \/ CloseRow(x) \/ ReloadRow(x) \/ StopAudit(x)
  BY <1>2 DEF RollbackStop, RollbackClose, StopBegin, FinishBegin, ReadRow, StopWrite,
     CloseRow, ReloadRow, StopAudit
<1> QED
  BY <1>r, <1>1, <1>2 DEF HandlerBegins, HandlerStep

\* No request releases the fault, and few steps change the active batch.
LEMMA RequestsKeepFault ==
  ASSUME TypeOK, NEW x \in Handlers, HandlerBegins(x) \/ HandlerStep(x)
  PROVE  /\ FaultKept
         /\ \/ ActiveKept
            \/ Commit(x) \/ RollbackStuck(x) \/ RollbackStopped(x) \/ StopCommit(x)
<1>t. rt \in RuntimeStates
  BY DEF TypeOK
<1>s. /\ Stopped(x) \in RuntimeStates
      /\ Stopped(x).active_batch_id = rt.active_batch_id
      /\ Stopped(x).last_control_error = rt.last_control_error
  BY <1>t, LifecycleTargetAssumption DEF Stopped, RuntimeStates
<1>1. CASE UNCHANGED rt \/ rt' = disable_auto(rt)
  BY <1>1, <1>t, RuntimeFields DEF FaultKept, ActiveKept
<1>2. CASE StartFailed(x) \/ RollbackFailed(x) \/ TailLatch(x) \/ StopFailed(x)
  <2>1. rt' = latch_control_fault(rt)
    BY <1>2 DEF StartFailed, RollbackFailed, TailLatch, StopFailed, LatchAndGoto, LatchAndReturn
  <2> QED
    BY <2>1, <1>t, RuntimeFields DEF FaultKept, ActiveKept
<1>3. CASE Commit(x)
  <2>1. \/ rt'.last_control_error = rt.last_control_error
        \/ rt' = disable_auto(rt)
    BY <1>3, <1>t DEF Commit, RuntimeStates
  <2> QED
    BY <1>3, <2>1, <1>t, RuntimeFields DEF FaultKept
<1>4. CASE RollbackStuck(x)
  <2>1. [rt EXCEPT !.active_batch_id = job[x].batch, !.targets = StartTargets] \in RuntimeStates
    BY <1>t, LifecycleTargetAssumption DEF RuntimeStates, TypeOK, Jobs
  <2> QED
    BY <1>4, <2>1, RuntimeFields DEF RollbackStuck, LatchAndGoto, FaultKept
<1>5. CASE RollbackStopped(x)
  BY <1>5, <1>t DEF RollbackStopped, FaultKept, RuntimeStates
<1>6. CASE StopLock(x)
  BY <1>6, <1>s, RuntimeFields DEF StopLock, LatchAndReturn, FaultKept, ActiveKept
<1>7. CASE StopCommit(x)
  BY <1>7, <1>s DEF StopCommit, FaultKept, RuntimeStates
<1> QED
  BY <1>1, <1>2, <1>3, <1>4, <1>5, <1>6, <1>7, RuntimeWriters

\* Around the handlers only a reset releases the fault, and only a restart changes the batch.
LEMMA EnvironmentKeepsFault ==
  ASSUME TypeOK, Environment
  PROVE  /\ FaultKept \/ ResetControlFault \/ Restart
         /\ ActiveKept \/ Restart
<1>t. rt \in RuntimeStates
  BY DEF TypeOK
<1>1. CASE SampleAges
  BY <1>1, <1>t DEF SampleAges, RuntimeStates, FaultKept, ActiveKept
<1>2. CASE FieldReports
  BY <1>2, <1>t, RuntimeFields DEF FieldReports, FaultKept, ActiveKept
<1>3. CASE EngageLatch
  BY <1>3, <1>t, RuntimeFields DEF EngageLatch, FaultKept, ActiveKept
<1>4. CASE ResetEmergencyStop \/ Unlock
  BY <1>4, <1>t, RuntimeFields DEF ResetEmergencyStop, Unlock, FaultKept, ActiveKept
<1>5. CASE ResetControlFault
  BY <1>5, <1>t, RuntimeFields DEF ResetControlFault, ActiveKept
<1> QED
  BY <1>1, <1>2, <1>3, <1>4, <1>5 DEF Environment

\* Which request a step belongs to, and that the other records stay.
LEMMA RequestFields ==
  ASSUME TypeOK, NEW x \in Handlers, HandlerBegins(x) \/ HandlerStep(x)
  PROVE  Others(x)
<1>1. CASE V1Read(x) \/ V1Verify(x) \/ (\E kind \in StartKinds : StartCheck(x, kind))
           \/ StartVerify(x) \/ CreateRow(x)
  <2>1. V1Verify(x) \/ StartVerify(x) => Others(x)
    BY ControlFields, PhaseNames DEF V1Verify, StartVerify, Moves, Leaves
  <2> QED
    BY <1>1, <2>1, EnterFields DEF Enters, Leaves
<1>2. CASE HoldingStep(x)
  BY <1>2, HoldingFields DEF Moves, Leaves
<1>3. CASE StopBegin(x) \/ (\E b \in Batches : FinishBegin(x, b)) \/ ReadRow(x)
  BY <1>3, EnterFields DEF Enters, Leaves
<1>4. CASE StoppingStep(x)
  BY <1>4, StoppingFields DEF Moves, Leaves
<1>5. CASE TailLatch(x)
  BY <1>5, ControlFields, PhaseNames DEF TailLatch, Leaves
<1> QED
  BY <1>1, <1>2, <1>3, <1>4, <1>5
  DEF HandlerBegins, HandlerStep, HoldingStep, StoppingStep, StartKinds

\* What a request does to the history of failed start writes.
LEMMA StrayFields ==
  ASSUME TypeOK, NEW x \in Handlers, HandlerBegins(x) \/ HandlerStep(x)
  PROVE  /\ restarts' = restarts /\ vanished' = vanished
         /\ \/ stray' \in {stray, NoBatch}
            \/ At(x, "start_failed")' /\ job'[x].batch = stray'
         /\ At(x, "start_failed") => rt'.last_control_error
<1>1. CASE V1Read(x) \/ V1Verify(x) \/ (\E kind \in StartKinds : StartCheck(x, kind))
           \/ StartVerify(x) \/ CreateRow(x) \/ DeviceCheck(x)
  BY <1>1 DEF V1Read, V1Verify, StartCheck, StartVerify, CreateRow, DeviceCheck, KeepRows,
     KeepField, At
<1>2. CASE DeviceStart(x)
  BY <1>2, ControlFields, PhaseNames DEF DeviceStart, At, Moves, SameRest
<1>3. CASE StartFailed(x)
  <2>1. rt' = latch_control_fault(rt) /\ rt \in RuntimeStates
    BY <1>3 DEF StartFailed, LatchAndGoto, TypeOK
  <2> QED
    BY <1>3, <2>1, RuntimeFields DEF StartFailed, KeepRows
<1>4. CASE Abandon(x) \/ StartRecord(x) \/ CommitList(x) \/ Commit(x) \/ RollbackStop(x)
           \/ RollbackFailed(x) \/ RollbackStuck(x) \/ RollbackStopped(x) \/ RollbackClose(x)
           \/ TailLatch(x)
  BY <1>4 DEF Abandon, StartRecord, CommitList, Commit, RollbackStop, RollbackFailed,
     RollbackStuck, RollbackStopped, RollbackClose, TailLatch, KeepRows, KeepField, At
<1>5. CASE StopBegin(x) \/ (\E b \in Batches : FinishBegin(x, b)) \/ ReadRow(x)
           \/ StopWrite(x) \/ StopFailed(x) \/ StopLock(x) \/ CloseRow(x) \/ ReloadRow(x)
           \/ StopAudit(x) \/ StopCommit(x)
  BY <1>5 DEF StopBegin, FinishBegin, ReadRow, StopWrite, StopFailed, StopLock, CloseRow,
     ReloadRow, StopAudit, StopCommit, KeepRows, KeepField, At
<1> QED
  BY <1>1, <1>2, <1>3, <1>4, <1>5 DEF HandlerBegins, HandlerStep, StartKinds

\* A failed start write is latched, about to be, or its request vanished.
StrayIsAnswered ==
    stray # NoBatch =>
        \/ rt.last_control_error
        \/ restarts > 0
        \/ \E x \in Handlers : At(x, "start_failed") /\ job[x].batch = stray
        \/ stray \in vanished

\* Every step keeps it so.
LEMMA StrayStep == TypeOK /\ StrayIsAnswered /\ [Next]_vars => StrayIsAnswered'
<1> SUFFICES ASSUME TypeOK, StrayIsAnswered, [Next]_vars, stray' # NoBatch
             PROVE  \/ rt'.last_control_error
                    \/ restarts' > 0
                    \/ \E x \in Handlers : At(x, "start_failed")' /\ job'[x].batch = stray'
                    \/ stray' \in vanished'
  BY DEF StrayIsAnswered
<1>1. ASSUME NEW x \in Handlers, HandlerBegins(x) \/ HandlerStep(x), stray' = stray
      PROVE  \/ rt'.last_control_error
             \/ restarts' > 0
             \/ \E y \in Handlers : At(y, "start_failed")' /\ job'[y].batch = stray'
             \/ stray' \in vanished'
  <2>1. FaultKept /\ Others(x)
    BY <1>1, RequestsKeepFault, RequestFields
  <2>2. restarts' = restarts /\ vanished' = vanished
        /\ (At(x, "start_failed") => rt'.last_control_error)
    BY <1>1, StrayFields
  <2>3. ASSUME NEW y \in Handlers, At(y, "start_failed"), job[y].batch = stray
        PROVE  rt'.last_control_error
               \/ (At(y, "start_failed")' /\ job'[y].batch = stray')
    BY <1>1, <2>1, <2>2, <2>3 DEF Others, Same, SameRest, At
  <2> QED
    BY <1>1, <2>1, <2>2, <2>3 DEF StrayIsAnswered, FaultKept
<1>2. CASE Restart
  <2>1. restarts \in Nat /\ restarts' = restarts + 1
    BY <1>2, LifecycleBoundAssumption DEF Restart, TypeOK
  <2> QED
    BY <2>1
<1>3. CASE Environment /\ ~Restart
  <2>1. stray' = stray /\ restarts' = restarts /\ vanished' = vanished /\ ~ResetControlFault
    BY <1>3 DEF Environment, FieldReports, SampleAges, EngageLatch, ResetEmergencyStop,
       Unlock, ResetControlFault, KeepRows
  <2>2. FaultKept /\ \A y \in Handlers : Same(y)
    BY <1>3, <2>1, EnvironmentFields, EnvironmentKeepsFault
  <2> QED
    BY <2>1, <2>2 DEF StrayIsAnswered, FaultKept, Same, SameRest, At
<1>4. ASSUME NEW x \in Handlers, Disconnect(x)
      PROVE  \/ rt'.last_control_error
             \/ restarts' > 0
             \/ \E y \in Handlers : At(y, "start_failed")' /\ job'[y].batch = stray'
             \/ stray' \in vanished'
  <2>1. /\ Leaves(x) /\ rt' = rt /\ stray' = stray /\ restarts' = restarts
        /\ vanished' = vanished \cup (IF InStart(x) THEN {job[x].batch} ELSE {})
    BY <1>4, DisconnectFields
  <2>2. ASSUME NEW y \in Handlers, At(y, "start_failed"), job[y].batch = stray
        PROVE  \/ stray' \in vanished'
               \/ At(y, "start_failed")' /\ job'[y].batch = stray'
    BY <2>1, <2>2 DEF Leaves, Others, Same, SameRest, At, InStart
  <2> QED
    BY <2>1, <2>2 DEF StrayIsAnswered
<1>5. CASE UNCHANGED vars
  BY <1>5 DEF vars, StrayIsAnswered, At
<1> QED
  BY <1>1, <1>2, <1>3, <1>4, <1>5, StrayFields DEF Next

-----------------------------------------------------------------------------
(* A stop that gives up.                                                   *)

\* A row is only ever added with an id no request refers to.
LEMMA RowsGrowFresh ==
  ASSUME TypeOK, NEW x \in Handlers, HandlerBegins(x) \/ HandlerStep(x)
  PROVE  \/ unfinished' \subseteq unfinished
         \/ /\ CreateRow(x)
            /\ \E b \in Batches : Fresh(b) /\ unfinished' = unfinished \cup {b}
<1>1. CASE V1Read(x) \/ V1Verify(x) \/ (\E kind \in StartKinds : StartCheck(x, kind))
           \/ StartVerify(x) \/ CreateRow(x) \/ DeviceCheck(x) \/ DeviceStart(x)
  BY <1>1 DEF V1Read, V1Verify, StartCheck, StartVerify, CreateRow, DeviceCheck, DeviceStart,
     KeepRows
<1>2. CASE StartFailed(x) \/ Abandon(x) \/ StartRecord(x) \/ CommitList(x) \/ Commit(x)
           \/ RollbackStop(x) \/ RollbackFailed(x) \/ RollbackStuck(x) \/ RollbackStopped(x)
           \/ RollbackClose(x) \/ TailLatch(x)
  BY <1>2 DEF StartFailed, Abandon, StartRecord, CommitList, Commit, RollbackStop,
     RollbackFailed, RollbackStuck, RollbackStopped, RollbackClose, TailLatch, KeepRows
<1>3. CASE StopBegin(x) \/ (\E b \in Batches : FinishBegin(x, b)) \/ ReadRow(x)
           \/ StopWrite(x) \/ StopFailed(x) \/ StopLock(x) \/ CloseRow(x) \/ ReloadRow(x)
           \/ StopAudit(x) \/ StopCommit(x)
  BY <1>3 DEF StopBegin, FinishBegin, ReadRow, StopWrite, StopFailed, StopLock, CloseRow,
     ReloadRow, StopAudit, StopCommit, KeepRows
<1> QED
  BY <1>1, <1>2, <1>3 DEF HandlerBegins, HandlerStep, StartKinds

\* The row of the request that steps.
LEMMA OwnRowStaysClosed ==
  ASSUME TypeOK, JobsOK, ClosedStaysClosed,
         NEW x \in Handlers, HandlerBegins(x) \/ HandlerStep(x), StillClosed(x)'
  PROVE  job'[x].batch \notin unfinished'
<1>j. JobOK(job[x])
  BY DEF JobsOK
<1>c. Stops(x)' /\ job'[x].pc \notin {"row", "tail", "idle"}
  BY DEF StillClosed
<1>1. ~(V1Read(x) \/ V1Verify(x) \/ (\E kind \in StartKinds : StartCheck(x, kind))
        \/ StartVerify(x) \/ CreateRow(x))
  <2>1. V1Verify(x) \/ StartVerify(x) => job'[x].kind \in StartKinds \cup {"none"}
    <3>1. V1Verify(x) \/ StartVerify(x) => job[x].kind \in StartKinds
      BY <1>j DEF V1Verify, StartVerify, At, JobOK, Checking
    <3> QED
      BY <3>1, ControlFields, PhaseNames DEF V1Verify, StartVerify, Moves, Leaves, SameRest
  <2>2. CreateRow(x) => job'[x].kind \in StartKinds \cup {"none"}
    <3>1. CreateRow(x) => job[x].kind \in StartKinds
      BY <1>j DEF CreateRow, At, JobOK, Checking
    <3> QED
      BY <3>1, EnterFields DEF Enters, Leaves
  <2>3. ASSUME V1Read(x) \/ \E kind \in StartKinds : StartCheck(x, kind)
        PROVE  job'[x].kind \in StartKinds \cup {"none"}
    BY <2>3, EnterFields DEF Enters, Leaves, StartKinds
  <2> QED
    BY <1>c, <2>1, <2>2, <2>3 DEF Stops, StopKinds, StartKinds
<1>2. ~HoldingStep(x)
  <2>1. HoldingStep(x) => job'[x].kind \in StartKinds \cup {"none"}
    BY <1>j, HoldingFields DEF Holds, JobOK, Moves, Leaves, SameRest
  <2> QED
    BY <1>c, <2>1 DEF Stops, StopKinds, StartKinds
<1>3. ~(StopBegin(x) \/ (\E b \in Batches : FinishBegin(x, b)) \/ TailLatch(x))
  BY <1>c, EnterFields, ControlFields, PhaseNames DEF Enters, Leaves, TailLatch
<1>4. CASE ReadRow(x)
  <2>1. unfinished' = unfinished
    BY <1>4 DEF ReadRow, KeepRows
  <2> QED
    BY <1>4, <1>c, <2>1, EnterFields DEF Enters, Leaves, StillClosed
<1>5. CASE StopWrite(x) \/ StopFailed(x) \/ StopLock(x)
  <2>1. unfinished' = unfinished
    BY <1>5 DEF StopWrite, StopFailed, StopLock, KeepRows
  <2>2. \/ Leaves(x)
        \/ \E pc \in {"stop_failed", "stop_lock", "close"} : Moves(x, pc)
        \/ Moves(x, "reload") /\ ~job[x].was_open
    BY <1>5, ControlFields, PhaseNames DEF StopWrite, StopFailed, StopLock
  <2>3. job[x].pc \in {"stop_write", "stop_failed", "stop_lock"}
    BY <1>5 DEF StopWrite, StopFailed, StopLock, At
  <2>4. SameRest(x) /\ ~job[x].was_open /\ Stops(x)
    BY <1>c, <2>2 DEF StillClosed, Stops, Moves, Leaves, SameRest
  <2> QED
    BY <2>1, <2>3, <2>4 DEF ClosedStaysClosed, StillClosed, SameRest
<1>6. CASE CloseRow(x)
  BY <1>6, <1>c, ControlFields, PhaseNames DEF CloseRow, FailAfterStop, Moves, Leaves, SameRest
<1>7. CASE ReloadRow(x) \/ StopAudit(x)
  <2>1. unfinished' = unfinished /\ job[x].pc \in {"reload", "stop_audit"}
    BY <1>7 DEF ReloadRow, StopAudit, KeepRows, At
  <2>2. SameRest(x)
    BY <1>7, <1>c, ControlFields, PhaseNames DEF ReloadRow, StopAudit, FailAfterStop, Moves,
       Leaves
  <2> QED
    BY <1>c, <2>1, <2>2 DEF ClosedStaysClosed, StillClosed, Stops, SameRest
<1>8. ~StopCommit(x)
  BY <1>c, ControlFields, PhaseNames DEF StopCommit, Leaves
<1> QED
  BY <1>1, <1>2, <1>3, <1>4, <1>5, <1>6, <1>7, <1>8
  DEF HandlerBegins, HandlerStep, HoldingStep, StartKinds

\* Every step keeps the closed rows closed.
LEMMA StepClosed == TypeOK /\ JobsOK /\ ClosedStaysClosed /\ [Next]_vars => ClosedStaysClosed'
<1> SUFFICES ASSUME TypeOK, JobsOK, ClosedStaysClosed, [Next]_vars,
                    NEW y \in Handlers, StillClosed(y)'
             PROVE  job'[y].batch \notin unfinished'
  BY DEF ClosedStaysClosed
<1>s. Same(y) => StillClosed(y) /\ job'[y].batch = job[y].batch
  BY DEF Same, SameRest, StillClosed, Stops
<1>1. ASSUME NEW x \in Handlers, HandlerBegins(x) \/ HandlerStep(x)
      PROVE  job'[y].batch \notin unfinished'
  <2>1. CASE x = y
    BY <1>1, <2>1, OwnRowStaysClosed
  <2>2. CASE x # y
    <3>1. Same(y)
      BY <1>1, <2>2, RequestFields DEF Others
    <3>2. job[y].batch \notin unfinished
      BY <3>1, <1>s DEF ClosedStaysClosed
    <3> QED
      BY <1>1, <1>s, <3>1, <3>2, RowsGrowFresh DEF Fresh
  <2> QED
    BY <2>1, <2>2
<1>2. CASE Environment
  <2>1. unfinished' = unfinished
    BY <1>2 DEF Environment, FieldReports, SampleAges, EngageLatch, ResetEmergencyStop,
       Unlock, ResetControlFault, Restart, KeepRows
  <2>2. ~Restart
    BY DEF Restart, StillClosed, Stops, Idle, StopKinds
  <2> QED
    BY <1>2, <1>s, <2>1, <2>2, EnvironmentFields DEF ClosedStaysClosed
<1>3. CASE UNCHANGED vars
  BY <1>3, <1>s DEF vars, Same, SameRest, ClosedStaysClosed
<1>4. ASSUME NEW x \in Handlers, Disconnect(x)
      PROVE  job'[y].batch \notin unfinished'
  <2>1. Leaves(x) /\ unfinished' = unfinished
    BY <1>4, DisconnectFields
  <2>2. x # y
    BY <2>1 DEF Leaves, StillClosed, Stops, StopKinds
  <2> QED
    BY <1>s, <2>1, <2>2 DEF Leaves, Others, ClosedStaysClosed
<1> QED
  BY <1>1, <1>2, <1>3, <1>4 DEF Next

\* A stop or finish of the active batch that returns has latched, or its row is closed.
LEMMA GivingUpBlocks ==
  ASSUME TypeOK, JobsOK, ClosedStaysClosed, Next, NEW y \in Handlers,
         Stops(y), was_active(y), job[y].pc \in {"close", "reload", "stop_audit", "tail"},
         job'[y].pc = "idle", gone' = gone, restarts' = restarts
  PROVE  \/ rt'.last_control_error
         \/ rt'.active_batch_id # job[y].batch
         \/ recovery_required(unfinished', rt'.active_batch_id)
<1>1. ~Environment
  <2>1. ~Restart
    BY DEF Restart, TypeOK
  <2> QED
    BY <2>1, EnvironmentFields DEF Same
<1>2. HandlerBegins(y) \/ HandlerStep(y)
  BY <1>1, RequestFields, DisconnectFields DEF Next, Others, Same
<1>3. CloseRow(y) \/ ReloadRow(y) \/ StopAudit(y) \/ TailLatch(y)
  <2>1. ~HoldingStep(y)
    BY HoldingFields DEF Holds, Holding, Writing
  <2>2. ~(V1Read(y) \/ V1Verify(y) \/ StartVerify(y) \/ CreateRow(y) \/ StopBegin(y)
          \/ (\E b \in Batches : FinishBegin(y, b)) \/ ReadRow(y))
    BY DEF V1Read, V1Verify, StartVerify, CreateRow, StopBegin, FinishBegin, ReadRow, At
  <2>3. ~(\E kind \in StartKinds : StartCheck(y, kind))
    BY DEF StartCheck, At
  <2>4. ~(StopWrite(y) \/ StopFailed(y) \/ StopLock(y) \/ StopCommit(y))
    BY DEF StopWrite, StopFailed, StopLock, StopCommit, At
  <2> QED
    BY <1>2, <2>1, <2>2, <2>3, <2>4 DEF HandlerBegins, HandlerStep, HoldingStep, StartKinds
<1>4. ~(CloseRow(y) \/ StopAudit(y))
  BY ControlFields, PhaseNames DEF CloseRow, StopAudit, FailAfterStop, Moves
<1>5. CASE TailLatch(y)
  BY <1>5, RuntimeFields DEF TailLatch, LatchAndReturn, TypeOK
<1>6. CASE ReloadRow(y)
  <2>1. rt' = rt /\ unfinished' = unfinished /\ At(y, "reload")
    BY <1>6 DEF ReloadRow, KeepRows
  <2>2. job[y].batch \notin unfinished /\ job[y].batch \in Batches
    BY <2>1 DEF ClosedStaysClosed, StillClosed, At, JobsOK, JobOK, Stops
  <2> QED
    BY <2>1, <2>2, BatchAssumption DEF recovery_required
<1> QED
  BY <1>3, <1>4, <1>5, <1>6

(***************************************************************************)
(* A stop or finish of the active batch that gives up after the device was *)
(* stopped leaves a latched fault or a batch whose row is closed, so that  *)
(* recovery_required refuses the next start, through every interleaving    *)
(* with other stops of the same batch.                                     *)
(***************************************************************************)
THEOREM GivingUpBlocksProduction == Spec => FailedStopBlocksProduction
<1>1. Init => JobsOK /\ ClosedStaysClosed
  <2>1. Init => ClosedStaysClosed
    BY DEF Init, ClosedStaysClosed
  <2> QED
    BY <2>1, InitialRecords
<1>2. ASSUME TypeOK, JobsOK, ClosedStaysClosed, Next, NEW y \in Handlers
      PROVE  (/\ job[y].kind \in StopKinds /\ was_active(y)
              /\ job[y].pc \in {"close", "reload", "stop_audit", "tail"}
              /\ job'[y].pc = "idle" /\ gone' = gone /\ restarts' = restarts)
             => \/ rt'.last_control_error
                \/ rt'.active_batch_id # job[y].batch
                \/ recovery_required(unfinished', rt'.active_batch_id)
  BY <1>2, GivingUpBlocks DEF Stops
<1>3. TypeOK /\ JobsOK /\ ClosedStaysClosed /\ [Next]_vars =>
        [\A x \in Handlers :
          /\ job[x].kind \in StopKinds /\ was_active(x)
          /\ job[x].pc \in {"close", "reload", "stop_audit", "tail"}
          /\ job'[x].pc = "idle" /\ gone' = gone /\ restarts' = restarts
          => \/ rt'.last_control_error
             \/ rt'.active_batch_id # job[x].batch
             \/ recovery_required(unfinished', rt'.active_batch_id)]_vars
  BY <1>2
<1> QED
  BY <1>1, <1>3, StepRecords, StepClosed, TypeCorrect, PTL DEF Spec, FailedStopBlocksProduction

-----------------------------------------------------------------------------
(* Calm steps: no request enters the phases the invariant speaks of, no    *)
(* row it relies on is closed, and neither the active batch nor the device *)
(* changes.                                                                *)

CalmRecord(y) ==
    /\ Holds(y)' => Holds(y) /\ job'[y].batch = job[y].batch
    /\ InStart(y)' => InStart(y)
    /\ job'[y].pc \in NotRunning => job[y].pc \in NotRunning
    /\ Stops(y)' => Stops(y) /\ job'[y].batch = job[y].batch /\ job'[y].seen = job[y].seen
    /\ job'[y].pc \in PastStop => job[y].pc \in PastStop
    /\ job'[y].pc = "row" => job[y].pc = "row"
    /\ job'[y].batch \in {job[y].batch, NoBatch}
    /\ InStart(y) /\ job[y].batch = running => InStart(y)' /\ job'[y].batch = running

CalmRows ==
    /\ \A y \in Handlers : Holds(y)' => job[y].batch \in unfinished'
    /\ running \in unfinished => running \in unfinished'
    /\ vanished \subseteq unfinished => vanished \subseteq unfinished'

Calm ==
    /\ \A y \in Handlers : CalmRecord(y)
    /\ CalmRows
    /\ ActiveKept /\ running' = running /\ vanished' = vanished /\ FaultKept

\* A record nothing happened to is calm.
LEMMA SameIsCalm ==
  ASSUME NEW y \in Handlers, Same(y)
  PROVE  CalmRecord(y)
  BY DEF Same, SameRest, CalmRecord, Holds, InStart, Stops

\* Phases in which the device write has been decided are phases with a row.
LEMMA StartPhases ==
  ASSUME NEW x \in Handlers
  PROVE  /\ InStart(x) <=> job[x].pc \in Writing
         /\ InStart(x) => Holds(x)
         /\ job[x].pc \in NotRunning => Holds(x)
  BY DEF InStart, Holds, Holding, Writing, NotRunning

\* A calm step keeps the invariant.
LEMMA CalmStep ==
  ASSUME TypeOK, JobsOK, JobsOK', Inv, Calm
  PROVE  Inv'
<1>c. \A y \in Handlers : CalmRecord(y)
  BY DEF Calm
<1>a. rt'.active_batch_id = rt.active_batch_id /\ running' = running /\ vanished' = vanished
  BY DEF Calm, ActiveKept
<1>n. \A y \in Handlers : Holds(y) => job[y].batch # NoBatch
  BY BatchAssumption DEF JobsOK, JobOK, Holds
<1>1. OwnBatch'
  BY <1>c, <1>n DEF Inv, OwnBatch, CalmRecord
<1>2. RowIsHeld'
  BY <1>c, <1>a DEF Inv, RowIsHeld, CalmRecord, Calm, CalmRows
<1>3. StartsExclude'
  BY <1>c DEF Inv, StartsExclude, CalmRecord
<1>4. NothingActive'
  BY <1>c, <1>a DEF Inv, NothingActive, CalmRecord
<1>5. StartNotRunning'
  <2>1. \A y \in Handlers : job'[y].pc \in NotRunning => Holds(y)'
    BY DEF NotRunning, Holds, Holding, Writing
  <2> QED
    BY <1>c, <1>a, <2>1 DEF Inv, StartNotRunning, CalmRecord
<1>6. InactiveStays'
  BY <1>c, <1>a DEF Inv, InactiveStays, CalmRecord, was_active
<1>7. StopNotRunning'
  BY <1>c, <1>a DEF Inv, StopNotRunning, CalmRecord
<1>8. StoppedDeviceStands'
  BY <1>c, <1>a DEF Inv, StoppedDeviceStands, CalmRecord
<1>9. RunIsKnown' /\ RunIsAnswered'
  BY <1>c, <1>a DEF Inv, RunIsKnown, RunIsAnswered, CalmRecord, Calm, FaultKept
<1>10. RunHasARow'
  BY <1>a DEF Inv, RunHasARow, Calm, CalmRows
<1>11. VanishedIsHeld'
  <2>1. vanished \subseteq unfinished'
    BY DEF Inv, VanishedIsHeld, Calm, CalmRows
  <2>2. NoBatch \notin vanished
    BY BatchAssumption DEF Inv, VanishedIsHeld, TypeOK
  <2> QED
    BY <1>a, <1>c, <2>1, <2>2 DEF Inv, VanishedIsHeld, CalmRecord
<1> QED
  BY <1>1, <1>2, <1>3, <1>4, <1>5, <1>6, <1>7, <1>8, <1>9, <1>10, <1>11 DEF Inv

\* A request that returns is calm, unless it leaves a start whose batch the device runs.
LEMMA LeavingIsCalm ==
  ASSUME NEW x \in Handlers, Leaves(x), ~(InStart(x) /\ job[x].batch = running)
  PROVE  \A y \in Handlers : CalmRecord(y)
<1>1. CalmRecord(x)
  BY DEF Leaves, CalmRecord, Holds, InStart, Stops, NotRunning, Holding, Writing, StopKinds,
     PastStop
<1> QED
  BY <1>1, SameIsCalm DEF Leaves, Others

\* The rows stay, or one row goes that no start and no run needs.
LEMMA RowsAreCalm ==
  ASSUME Inv, \A y \in Handlers : CalmRecord(y), NEW x \in Handlers,
         \/ unfinished' = unfinished
         \/ /\ unfinished' = unfinished \ {job[x].batch}
            /\ running # job[x].batch /\ ~Holds(x)'
  PROVE  CalmRows
<1>1. \A y \in Handlers : Holds(y)' => Holds(y) /\ job[y].batch \in unfinished
  BY DEF CalmRecord, Inv, RowIsHeld
<1>2. \A y \in Handlers : Holds(y)' /\ y # x => job[y].batch # job[x].batch
  BY <1>1 DEF Inv, OwnBatch
<1>3. job[x].batch \notin vanished
  BY DEF Inv, VanishedIsHeld
<1> QED
  BY <1>1, <1>2, <1>3 DEF CalmRows

\* Starts before their row.
LEMMA CheckingIsCalm ==
  ASSUME TypeOK, JobsOK, Inv, NEW x \in Handlers,
         \/ V1Read(x) \/ V1Verify(x) \/ (\E kind \in StartKinds : StartCheck(x, kind))
         \/ StartVerify(x)
         \/ CreateRow(x) /\ Leaves(x) /\ unfinished' = unfinished
  PROVE  Calm
<1>1. job[x].pc \in Checking \cup {"idle"} /\ JobOK(job[x])
  BY DEF V1Read, V1Verify, StartCheck, StartVerify, CreateRow, At, Checking, JobsOK
<1>2. \/ Leaves(x)
      \/ /\ Others(x) /\ job'[x].pc \in Checking /\ job'[x].kind \in StartKinds
         /\ job'[x].batch = job[x].batch
  <2>1. V1Verify(x) \/ StartVerify(x) =>
          \/ Leaves(x)
          \/ /\ Others(x) /\ job'[x].pc \in Checking /\ job'[x].kind \in StartKinds
             /\ job'[x].batch = job[x].batch
    <3>1. V1Verify(x) \/ StartVerify(x) => job[x].kind \in StartKinds
      BY <1>1 DEF V1Verify, StartVerify, At, JobOK, Checking
    <3> QED
      BY <3>1, ControlFields, PhaseNames DEF V1Verify, StartVerify, Moves, SameRest, Checking
  <2> QED
    BY <2>1, EnterFields DEF Enters, Checking, StartKinds
<1>3. ~InStart(x)
  BY <1>1 DEF InStart, Checking
<1>4. \A y \in Handlers : CalmRecord(y)
  <2>1. CASE Leaves(x)
    BY <1>3, <2>1, LeavingIsCalm
  <2>2. CASE /\ Others(x) /\ job'[x].pc \in Checking /\ job'[x].kind \in StartKinds
             /\ job'[x].batch = job[x].batch
    <3>1. CalmRecord(x)
      BY <1>3, <2>2 DEF CalmRecord, Checking, Holds, InStart, Stops, NotRunning, Holding,
         Writing, StopKinds, StartKinds, PastStop
    <3> QED
      BY <2>2, <3>1, SameIsCalm DEF Others
  <2> QED
    BY <1>2, <2>1, <2>2
<1>5. unfinished' = unfinished /\ running' = running /\ vanished' = vanished
  BY DEF V1Read, V1Verify, StartCheck, StartVerify, CreateRow, KeepRows, KeepField
<1>6. CalmRows
  BY <1>4, <1>5, RowsAreCalm
<1>7. (rt' = rt \/ rt' = disable_auto(rt)) /\ rt \in RuntimeStates
  BY DEF V1Read, V1Verify, StartCheck, StartVerify, CreateRow, TypeOK
<1>8. ActiveKept /\ FaultKept
  BY <1>7, RuntimeFields DEF ActiveKept, FaultKept
<1> QED
  BY <1>4, <1>5, <1>6, <1>8 DEF Calm

\* A start that goes on with its row is calm, unless it enters a phase or gives one up.
LEMMA MovingIsCalm ==
  ASSUME JobsOK, NEW x \in Handlers, Holds(x), NEW pc \in Holding \cup {"tail"}, Moves(x, pc),
         pc \in Writing => InStart(x),
         pc \in NotRunning => job[x].pc \in NotRunning,
         InStart(x) /\ pc \notin Writing => running # job[x].batch
  PROVE  \A y \in Handlers : CalmRecord(y)
<1>1. job[x].kind \in StartKinds
  BY DEF JobsOK, JobOK, Holds
<1>2. CalmRecord(x)
  BY <1>1 DEF CalmRecord, Moves, SameRest, Holds, InStart, Stops, StopKinds, StartKinds,
     Holding, Writing, PastStop
<1> QED
  BY <1>2, SameIsCalm DEF Moves, Others

\* Starts with their row that change neither the active batch nor the device.
LEMMA HoldingIsCalm ==
  ASSUME TypeOK, JobsOK, Inv, NEW x \in Handlers,
         \/ DeviceCheck(x) /\ Moves(x, "abandon")
         \/ DeviceStart(x) /\ running' = running /\ Moves(x, "start_failed")
         \/ StartFailed(x) \/ Abandon(x) \/ StartRecord(x) \/ CommitList(x)
         \/ Commit(x) /\ ActiveKept /\ Moves(x, "rollback")
         \/ RollbackStop(x) /\ running' = running /\ Moves(x, "rollback_failed")
         \/ RollbackFailed(x) \/ RollbackStopped(x) \/ RollbackClose(x)
  PROVE  Calm
<1>h. Holds(x) /\ HoldingStep(x)
  BY HoldingFields DEF HoldingStep
<1>n. /\ job[x].pc \in NotRunning => running # job[x].batch
      /\ rt.active_batch_id # job[x].batch
  BY <1>h DEF Inv, StartNotRunning, RowIsHeld
<1>1. \A y \in Handlers : CalmRecord(y)
  <2> USE <1>h, <1>n, MovingIsCalm, ControlFields, PhaseNames
      DEF At, InStart, Holding, Writing, NotRunning
  <2>1. CASE DeviceCheck(x) /\ Moves(x, "abandon")
    BY <2>1 DEF DeviceCheck
  <2>2. CASE DeviceStart(x) /\ Moves(x, "start_failed")
    BY <2>2 DEF DeviceStart
  <2>3. CASE StartFailed(x)
    BY <2>3 DEF StartFailed
  <2>4. CASE Abandon(x)
    BY <2>4, LeavingIsCalm DEF Abandon
  <2>5. CASE StartRecord(x)
    BY <2>5 DEF StartRecord
  <2>6. CASE CommitList(x)
    <3>1. At(x, "recorded")
      BY <2>6 DEF CommitList
    <3> QED
      BY <2>6, <3>1, EnterFields
  <2>7. CASE Commit(x) /\ Moves(x, "rollback")
    BY <2>7 DEF Commit
  <2>8. CASE RollbackStop(x) /\ Moves(x, "rollback_failed")
    BY <2>8 DEF RollbackStop
  <2>9. CASE RollbackFailed(x)
    BY <2>9 DEF RollbackFailed
  <2>10. CASE RollbackStopped(x)
    BY <2>10 DEF RollbackStopped
  <2>11. CASE RollbackClose(x)
    BY <2>11 DEF RollbackClose
  <2> QED
    BY <2>1, <2>2, <2>3, <2>4, <2>5, <2>6, <2>7, <2>8, <2>9, <2>10, <2>11
<1>2. running' = running /\ vanished' = vanished
  BY DEF DeviceCheck, DeviceStart, StartFailed, Abandon, StartRecord, CommitList, Commit,
     RollbackStop, RollbackFailed, RollbackStopped, RollbackClose, KeepRows, KeepField
<1>3. \/ unfinished' = unfinished
      \/ /\ unfinished' = unfinished \ {job[x].batch}
         /\ running # job[x].batch /\ ~Holds(x)'
  <2>1. CASE Abandon(x)
    <3>1. Leaves(x) /\ job[x].pc \in NotRunning
      BY <2>1, ControlFields, PhaseNames DEF Abandon, At, NotRunning
    <3> QED
      BY <2>1, <3>1, <1>n DEF Abandon, Leaves, Holds, Holding, Writing
  <2>2. CASE RollbackClose(x)
    <3>1. Moves(x, "tail") /\ job[x].pc \in NotRunning
      BY <2>2, ControlFields, PhaseNames DEF RollbackClose, At, NotRunning
    <3> QED
      BY <2>2, <3>1, <1>n DEF RollbackClose, Moves, Holds, Holding, Writing
  <2>3. CASE ~(Abandon(x) \/ RollbackClose(x))
    BY <2>3 DEF DeviceCheck, DeviceStart, StartFailed, StartRecord, CommitList, Commit,
       RollbackStop, RollbackFailed, RollbackStopped, KeepRows
  <2> QED
    BY <2>1, <2>2, <2>3
<1>4. CalmRows
  BY <1>1, <1>3, RowsAreCalm
<1>5. FaultKept
  BY <1>h, RequestsKeepFault DEF HandlerStep, HoldingStep
<1>6. ActiveKept
  <2>1. RollbackStopped(x) => ActiveKept
    BY <1>n DEF RollbackStopped, ActiveKept, TypeOK, RuntimeStates
  <2>2. ~RollbackStuck(x) /\ ~StopCommit(x)
    BY DEF RollbackStuck, StopCommit, DeviceCheck, DeviceStart, StartFailed, Abandon,
       StartRecord, CommitList, Commit, RollbackStop, RollbackFailed, RollbackStopped,
       RollbackClose, At
  <2>3. Commit(x) => ActiveKept
    BY DEF Commit, DeviceCheck, DeviceStart, StartFailed, Abandon,
       StartRecord, CommitList, RollbackStop, RollbackFailed, RollbackStopped,
       RollbackClose, At
  <2> QED
    BY <1>h, <2>1, <2>2, <2>3, RequestsKeepFault DEF HandlerStep, HoldingStep
<1> QED
  BY <1>1, <1>2, <1>4, <1>5, <1>6 DEF Calm

\* Stops that change neither the active batch nor the device, and the end of a failed request.
LEMMA StoppingIsCalm ==
  ASSUME TypeOK, JobsOK, Inv, NEW x \in Handlers,
         \/ ReadRow(x) /\ Leaves(x)
         \/ StopWrite(x) /\ running' = running /\ Moves(x, "stop_failed")
         \/ StopFailed(x) \/ StopLock(x) \/ CloseRow(x) \/ ReloadRow(x) \/ StopAudit(x)
         \/ TailLatch(x)
         \/ StopCommit(x) /\ ActiveKept
  PROVE  Calm
<1>p. job[x].pc \in Stopping \cup {"tail"} /\ (StopWrite(x) => At(x, "stop_write"))
  BY DEF ReadRow, StopWrite, StopFailed, StopLock, CloseRow, ReloadRow, StopAudit, TailLatch,
     StopCommit, At, Stopping
<1>i. ~InStart(x) /\ (job[x].pc \in Stopping => Stops(x))
  BY <1>p DEF InStart, Stopping, Stops, JobsOK, JobOK
<1>f. \/ Leaves(x)
      \/ Moves(x, "stop_failed")
      \/ \E pc \in {"close", "reload", "stop_audit", "stop_commit", "tail"} :
           Moves(x, pc) /\ job[x].pc \in PastStop
  <2>1. TailLatch(x) => Leaves(x)
    BY ControlFields, PhaseNames DEF TailLatch
  <2>2. StoppingStep(x) \/ TailLatch(x) \/ Leaves(x)
    BY DEF StoppingStep
  <2>3. Moves(x, "stop_lock") => ~At(x, "stop_write")
    <3>1. At(x, "stop_write") => StopWrite(x)
      BY <2>2 DEF ReadRow, StopFailed, StopLock, CloseRow, ReloadRow, StopAudit,
         TailLatch, StopCommit, At
    <3> QED
      BY <3>1 DEF Moves, ReadRow, StopFailed, StopLock, CloseRow, ReloadRow, StopAudit,
         TailLatch, StopCommit, At
  <2> QED
    BY <2>1, <2>2, <2>3, StoppingFields
<1>1. \A y \in Handlers : CalmRecord(y)
  <2>1. CASE Leaves(x)
    BY <1>i, <2>1, LeavingIsCalm
  <2>2. ASSUME NEW pc \in {"stop_failed", "close", "reload", "stop_audit", "stop_commit", "tail"},
               Moves(x, pc), pc = "stop_failed" \/ job[x].pc \in PastStop
        PROVE  \A y \in Handlers : CalmRecord(y)
    <3>1. CalmRecord(x)
      BY <1>i, <2>2 DEF CalmRecord, Moves, SameRest, Holds, Holding, Writing, InStart,
         NotRunning, Stops, PastStop
    <3> QED
      BY <2>2, <3>1, SameIsCalm DEF Moves, Others
  <2> QED
    BY <1>f, <2>1, <2>2
<1>2. running' = running /\ vanished' = vanished
  BY DEF ReadRow, StopWrite, StopFailed, StopLock, CloseRow, ReloadRow, StopAudit, TailLatch,
     StopCommit, KeepRows, KeepField
<1>3. \/ unfinished' = unfinished
      \/ /\ unfinished' = unfinished \ {job[x].batch}
         /\ running # job[x].batch /\ ~Holds(x)'
  <2>1. CASE CloseRow(x)
    <3>1. ~Holds(x)'
      BY <2>1, ControlFields, PhaseNames DEF CloseRow, FailAfterStop, Moves, Leaves, Holds,
         Holding, Writing
    <3>2. running # job[x].batch
      BY <2>1, <1>i DEF CloseRow, At, Stopping, PastStop, Inv, StopNotRunning
    <3> QED
      BY <2>1, <3>1, <3>2 DEF CloseRow
  <2>2. CASE ~CloseRow(x)
    BY <2>2 DEF ReadRow, StopWrite, StopFailed, StopLock, ReloadRow, StopAudit, TailLatch,
       StopCommit, KeepRows
  <2> QED
    BY <2>1, <2>2
<1>4. CalmRows
  BY <1>1, <1>3, RowsAreCalm
<1>5. FaultKept
  BY RequestsKeepFault DEF HandlerStep
<1>6. ActiveKept
  <2>1. ~Commit(x) /\ ~RollbackStuck(x) /\ ~RollbackStopped(x)
    BY <1>p DEF Commit, RollbackStuck, RollbackStopped, At, Stopping
  <2>2. StopCommit(x) => ActiveKept
    BY DEF StopCommit, ReadRow, StopWrite, StopFailed, StopLock, CloseRow, ReloadRow,
       StopAudit, TailLatch, At
  <2> QED
    BY <2>1, <2>2, RequestsKeepFault DEF HandlerStep
<1> QED
  BY <1>1, <1>2, <1>4, <1>5, <1>6 DEF Calm

\* The world around the handlers, but for a reset and a restart.
LEMMA EnvironmentIsCalm ==
  ASSUME TypeOK, JobsOK, Inv, Environment, ~ResetControlFault, ~Restart
  PROVE  Calm
<1>1. \A y \in Handlers : CalmRecord(y)
  BY EnvironmentFields, SameIsCalm
<1>2. unfinished' = unfinished /\ running' = running /\ vanished' = vanished
  BY DEF Environment, FieldReports, SampleAges, EngageLatch, ResetEmergencyStop, Unlock, KeepRows
<1>3. CalmRows
  BY <1>1, <1>2 DEF CalmRows, CalmRecord, Inv, RowIsHeld
<1> QED
  BY <1>1, <1>2, <1>3, EnvironmentKeepsFault DEF Calm

\* A batch no vanished start had is not taken up by a request that goes on with its own.
LEMMA VanishedStays ==
  ASSUME TypeOK, Inv, vanished' = vanished, unfinished \subseteq unfinished',
         rt'.active_batch_id \notin vanished,
         \A y \in Handlers : job'[y].batch \in {job[y].batch, NoBatch}
                             \/ job'[y].batch \notin vanished
  PROVE  VanishedIsHeld'
<1>1. NoBatch \notin vanished
  BY BatchAssumption DEF Inv, VanishedIsHeld, TypeOK
<1> QED
  BY <1>1 DEF Inv, VanishedIsHeld

-----------------------------------------------------------------------------
(* The steps that are not calm.                                            *)

\* The other records, in the terms of the invariant.
LEMMA OtherRecords ==
  ASSUME NEW x \in Handlers, Others(x), NEW y \in Handlers, y # x
  PROVE  /\ Holds(y)' <=> Holds(y)
         /\ InStart(y)' <=> InStart(y)
         /\ Stops(y)' <=> Stops(y)
         /\ job'[y].pc = job[y].pc /\ job'[y].batch = job[y].batch /\ job'[y].seen = job[y].seen
  BY DEF Others, Same, SameRest, Holds, InStart, Stops

\* A new row has an id of its own: it shuts nobody out who has one already.
LEMMA CreateRowStep ==
  ASSUME TypeOK, JobsOK, Inv, NEW x \in Handlers, CreateRow(x), NEW b \in Batches, Fresh(b),
         unfinished' = unfinished \cup {b}, Enters(x, job[x].kind, "created", b, NoBatch)
  PROVE  Inv'
<1>1. rt' = rt /\ running' = running /\ vanished' = vanished
  BY DEF CreateRow, KeepField
<1>2. Others(x)
  BY DEF Enters
<1>3. /\ job'[x].pc = "created" /\ job'[x].batch = b /\ job'[x].kind \in StartKinds
      /\ job[x].pc = "verified"
  BY DEF Enters, CreateRow, At, JobsOK, JobOK, Checking
<1>4. /\ b \notin unfinished /\ b # rt.active_batch_id /\ b # running /\ b \notin vanished
      /\ \A y \in Handlers : job[y].batch # b
  BY DEF Fresh
<1>5. /\ Holds(x)' /\ ~InStart(x)' /\ ~Stops(x)' /\ ~InStart(x) /\ ~Holds(x)
  BY <1>3 DEF Holds, Holding, Writing, InStart, Stops, StartKinds, StopKinds
<1>6. \A y \in Handlers : y # x =>
        /\ Holds(y)' <=> Holds(y)
        /\ InStart(y)' <=> InStart(y)
        /\ Stops(y)' <=> Stops(y)
        /\ job'[y].pc = job[y].pc /\ job'[y].batch = job[y].batch /\ job'[y].seen = job[y].seen
  BY <1>2, OtherRecords
<1>7. OwnBatch'
  BY <1>3, <1>4, <1>6 DEF Inv, OwnBatch
<1>8. RowIsHeld'
  BY <1>1, <1>3, <1>4, <1>6 DEF Inv, RowIsHeld
<1>9. StartsExclude' /\ NothingActive'
  BY <1>1, <1>5, <1>6 DEF Inv, StartsExclude, NothingActive
<1>10. StartNotRunning'
  BY <1>1, <1>3, <1>4, <1>6 DEF Inv, StartNotRunning
<1>11. InactiveStays' /\ StopNotRunning' /\ StoppedDeviceStands'
  BY <1>1, <1>5, <1>6 DEF Inv, InactiveStays, StopNotRunning, StoppedDeviceStands, was_active
<1>12. RunIsKnown' /\ RunIsAnswered'
  BY <1>1, <1>5, <1>6 DEF Inv, RunIsKnown, RunIsAnswered
<1>13. RunHasARow'
  BY <1>1 DEF Inv, RunHasARow
<1>14. VanishedIsHeld'
  BY <1>1, <1>3, <1>4, <1>6, VanishedStays DEF Inv, VanishedIsHeld
<1> QED
  BY <1>7, <1>8, <1>9, <1>10, <1>11, <1>12, <1>13, <1>14 DEF Inv

\* A start passes its last check: every open row is its own, so no other start has passed it.
LEMMA DeviceCheckStep ==
  ASSUME TypeOK, JobsOK, Inv, NEW x \in Handlers, DeviceCheck(x), Moves(x, "write")
  PROVE  Inv'
<1>1. /\ rt' = rt /\ running' = running /\ unfinished' = unfinished /\ Holds(x)
      /\ job[x].pc = "created" /\ vanished' = vanished
  BY DEF DeviceCheck, KeepRows, Holds, Holding, At
<1>2. rt.active_batch_id = NoBatch /\ \A b \in unfinished : b = job[x].batch
  <2>1. ~Goto(x, "abandon")
    BY ControlFields, PhaseNames DEF Moves
  <2> QED
    BY <2>1 DEF DeviceCheck, recovery_required
<1>3. /\ job'[x].pc = "write" /\ job'[x].batch = job[x].batch /\ job'[x].kind = job[x].kind
      /\ Holds(x)' /\ ~Stops(x)'
  BY <1>1 DEF Moves, SameRest, Holds, Holding, Writing, Stops, JobsOK, JobOK, StartKinds, StopKinds
<1>4. \A y \in Handlers : y # x =>
        /\ Holds(y)' <=> Holds(y)
        /\ InStart(y)' <=> InStart(y)
        /\ Stops(y)' <=> Stops(y)
        /\ job'[y].pc = job[y].pc /\ job'[y].batch = job[y].batch /\ job'[y].seen = job[y].seen
  BY OtherRecords DEF Moves
<1>5. \A y \in Handlers : y # x => ~InStart(y)
  <2> SUFFICES ASSUME NEW y \in Handlers, y # x, InStart(y) PROVE FALSE
    OBVIOUS
  <2>1. Holds(y)
    BY StartPhases
  <2>2. job[y].batch = job[x].batch
    BY <1>2, <2>1 DEF Inv, RowIsHeld
  <2> QED
    BY <1>1, <2>2 DEF Inv, OwnBatch
<1>6. OwnBatch'
  BY <1>1, <1>3, <1>4 DEF Inv, OwnBatch
<1>7. RowIsHeld'
  BY <1>1, <1>3, <1>4 DEF Inv, RowIsHeld
<1>8. StartsExclude' /\ NothingActive'
  BY <1>1, <1>2, <1>4, <1>5 DEF StartsExclude, NothingActive
<1>9. StartNotRunning'
  BY <1>1, <1>3, <1>4 DEF Inv, StartNotRunning, NotRunning
<1>10. InactiveStays' /\ StopNotRunning' /\ StoppedDeviceStands'
  BY <1>1, <1>3, <1>4 DEF Inv, InactiveStays, StopNotRunning, StoppedDeviceStands, was_active
<1>11. RunIsKnown' /\ RunIsAnswered' /\ RunHasARow'
  <2>1. running = NoBatch
    BY <1>1, <1>2, <1>5 DEF Inv, RunIsKnown, VanishedIsHeld, InStart
  <2> QED
    BY <1>1, <2>1 DEF RunIsKnown, RunIsAnswered, RunHasARow
<1>12. VanishedIsHeld'
  BY <1>1, <1>3, <1>4, VanishedStays DEF Inv, VanishedIsHeld
<1> QED
  BY <1>6, <1>7, <1>8, <1>9, <1>10, <1>11, <1>12 DEF Inv

\* The device runs the batch of the only start that has passed its check.
LEMMA DeviceStartStep ==
  ASSUME TypeOK, JobsOK, Inv, NEW x \in Handlers, DeviceStart(x), running' = job[x].batch,
         Moves(x, "started")
  PROVE  Inv'
<1>1. rt' = rt /\ unfinished' = unfinished /\ job[x].pc = "write" /\ vanished' = vanished
  BY DEF DeviceStart, At
<1>2. InStart(x) /\ Holds(x) /\ job[x].batch \in Batches
  BY <1>1 DEF InStart, Holds, Holding, Writing, JobsOK, JobOK
<1>3. /\ job'[x].pc = "started" /\ job'[x].batch = job[x].batch
      /\ InStart(x)' /\ Holds(x)' /\ ~Stops(x)'
  BY <1>2 DEF Moves, SameRest, Holds, Holding, Writing, InStart, Stops, JobsOK, JobOK,
     StartKinds, StopKinds
<1>4. \A y \in Handlers : y # x =>
        /\ Holds(y)' <=> Holds(y)
        /\ InStart(y)' <=> InStart(y)
        /\ Stops(y)' <=> Stops(y)
        /\ job'[y].pc = job[y].pc /\ job'[y].batch = job[y].batch /\ job'[y].seen = job[y].seen
  BY OtherRecords DEF Moves
<1>5. \A y \in Handlers : y # x => job'[y].batch # running'
  BY <1>2, <1>4 DEF Inv, OwnBatch
<1>6. OwnBatch'
  BY <1>2, <1>3, <1>4 DEF Inv, OwnBatch
<1>7. RowIsHeld'
  BY <1>1, <1>2, <1>3, <1>4 DEF Inv, RowIsHeld
<1>8. StartsExclude' /\ NothingActive'
  BY <1>1, <1>2, <1>4 DEF Inv, StartsExclude, NothingActive
<1>9. StartNotRunning'
  BY <1>3, <1>5 DEF StartNotRunning, NotRunning
<1>10. InactiveStays' /\ StopNotRunning'
  BY <1>1, <1>3, <1>4, <1>5 DEF Inv, InactiveStays, StopNotRunning, was_active
<1>11. StoppedDeviceStands'
  <2>1. rt.active_batch_id = NoBatch
    BY <1>2 DEF Inv, NothingActive
  <2>2. \A y \in Handlers : Stops(y) => job[y].batch # NoBatch
    BY BatchAssumption DEF Stops, JobsOK, JobOK
  <2> QED
    BY <1>1, <1>3, <1>4, <2>1, <2>2 DEF StoppedDeviceStands
<1>12. RunIsKnown' /\ RunIsAnswered' /\ RunHasARow'
  BY <1>1, <1>2, <1>3 DEF Inv, RunIsKnown, RunIsAnswered, RunHasARow, RowIsHeld
<1>13. VanishedIsHeld'
  BY <1>1, <1>3, <1>4, VanishedStays DEF Inv, VanishedIsHeld
<1> QED
  BY <1>6, <1>7, <1>8, <1>9, <1>10, <1>11, <1>12, <1>13 DEF Inv

\* A start makes its batch the active one, by its commit or by a rollback that got stuck.
LEMMA ActivationStep ==
  ASSUME TypeOK, JobsOK, Inv, NEW x \in Handlers, InStart(x), Others(x),
         rt'.active_batch_id = job[x].batch, running' = running, unfinished' = unfinished,
         vanished' = vanished, ~Holds(x)', ~Stops(x)', job'[x].batch \in {job[x].batch, NoBatch}
  PROVE  Inv'
<1>1. Holds(x) /\ job[x].batch \in Batches
  BY StartPhases DEF JobsOK, JobOK, Holds
<1>2. \A y \in Handlers : y # x =>
        /\ Holds(y)' <=> Holds(y)
        /\ InStart(y)' <=> InStart(y)
        /\ Stops(y)' <=> Stops(y)
        /\ job'[y].pc = job[y].pc /\ job'[y].batch = job[y].batch /\ job'[y].seen = job[y].seen
  BY OtherRecords
<1>3. \A y \in Handlers : y # x => ~InStart(y) /\ job[y].batch # job[x].batch
  BY <1>1 DEF Inv, StartsExclude, OwnBatch
<1>4. ~InStart(x)' /\ job'[x].pc \notin NotRunning
  BY DEF InStart, Holds, Holding, Writing, NotRunning
<1>n. \A y \in Handlers : Holds(y) => job[y].batch # NoBatch
  BY BatchAssumption DEF JobsOK, JobOK, Holds
<1>5. OwnBatch'
  BY <1>2, <1>n DEF Inv, OwnBatch
<1>6. RowIsHeld'
  BY <1>2, <1>3 DEF Inv, RowIsHeld
<1>7. StartsExclude' /\ NothingActive'
  BY <1>2, <1>3, <1>4 DEF StartsExclude, NothingActive
<1>8. StartNotRunning'
  BY <1>2, <1>4 DEF Inv, StartNotRunning
<1>9. InactiveStays' /\ StopNotRunning' /\ StoppedDeviceStands'
  BY <1>2, <1>3 DEF Inv, InactiveStays, StopNotRunning, StoppedDeviceStands, was_active
<1>10. RunIsKnown' /\ RunIsAnswered' /\ RunHasARow'
  <2>1. running # NoBatch => running = job[x].batch \/ running \in vanished
    BY <1>3 DEF Inv, RunIsKnown, NothingActive
  <2> QED
    BY <1>1, <2>1, BatchAssumption DEF Inv, RunIsKnown, RunIsAnswered, RunHasARow
<1>11. VanishedIsHeld'
  BY <1>2, VanishedStays DEF Inv, VanishedIsHeld
<1> QED
  BY <1>5, <1>6, <1>7, <1>8, <1>9, <1>10, <1>11 DEF Inv

\* A device that has been stopped, or that an operator has found standing, is safe to forget.
LEMMA StandingStep ==
  ASSUME TypeOK, JobsOK, JobsOK', Inv, ActiveKept, running' = NoBatch, unfinished' = unfinished,
         vanished' = vanished,
         \A y \in Handlers :
           /\ Holds(y)' => Holds(y) /\ job'[y].batch = job[y].batch
           /\ InStart(y)' => InStart(y)
           /\ Stops(y)' => Stops(y) /\ job'[y].batch = job[y].batch /\ job'[y].seen = job[y].seen
           /\ job'[y].batch \in {job[y].batch, NoBatch}
  PROVE  Inv'
<1>a. rt'.active_batch_id = rt.active_batch_id
  BY DEF ActiveKept
<1>n. \A y \in Handlers : (Holds(y)' => job'[y].batch # NoBatch)
                          /\ (Stops(y)' => job'[y].batch # NoBatch)
  BY BatchAssumption DEF JobsOK, JobOK, Holds, Stops
<1>1. OwnBatch'
  BY <1>n DEF Inv, OwnBatch
<1>2. RowIsHeld'
  BY <1>a DEF Inv, RowIsHeld
<1>3. StartsExclude' /\ NothingActive'
  BY <1>a DEF Inv, StartsExclude, NothingActive
<1>4. StartNotRunning'
  BY <1>n DEF StartNotRunning, NotRunning, Holds, Holding, Writing
<1>5. InactiveStays'
  BY <1>a DEF Inv, InactiveStays, was_active
<1>6. StopNotRunning' /\ StoppedDeviceStands'
  BY <1>n DEF StopNotRunning, StoppedDeviceStands
<1>7. RunIsKnown' /\ RunIsAnswered' /\ RunHasARow'
  BY DEF RunIsKnown, RunIsAnswered, RunHasARow
<1>8. VanishedIsHeld'
  BY <1>a, VanishedStays DEF Inv, VanishedIsHeld
<1> QED
  BY <1>1, <1>2, <1>3, <1>4, <1>5, <1>6, <1>7, <1>8 DEF Inv

\* The rollback's stop, the stop command and the reset of the fault.
LEMMA DeviceStandsStep ==
  ASSUME TypeOK, JobsOK, JobsOK', Inv,
         \/ \E x \in Handlers : RollbackStop(x) /\ Moves(x, "rollback_stopped") /\ running' = NoBatch
         \/ \E x \in Handlers : StopWrite(x) /\ Moves(x, "stop_lock") /\ running' = NoBatch
         \/ ResetControlFault
  PROVE  Inv'
<1>1. ASSUME NEW x \in Handlers, RollbackStop(x), Moves(x, "rollback_stopped"),
             running' = NoBatch
      PROVE  Inv'
  <2>1. rt' = rt /\ unfinished' = unfinished /\ job[x].pc = "rollback" /\ vanished' = vanished
    BY <1>1 DEF RollbackStop, At
  <2>2. InStart(x) /\ Holds(x) /\ ~Stops(x)'
    BY <1>1, <2>1 DEF InStart, Holds, Holding, Writing, Stops, Moves, SameRest, JobsOK, JobOK,
       StartKinds, StopKinds
  <2>3. \A y \in Handlers : y # x =>
          /\ Holds(y)' <=> Holds(y)
          /\ InStart(y)' <=> InStart(y)
          /\ Stops(y)' <=> Stops(y)
          /\ job'[y].pc = job[y].pc /\ job'[y].batch = job[y].batch /\ job'[y].seen = job[y].seen
    BY <1>1, OtherRecords DEF Moves
  <2>4. job'[x].batch = job[x].batch /\ ActiveKept
    BY <1>1, <2>1 DEF Moves, SameRest, ActiveKept
  <2> QED
    BY <1>1, <2>1, <2>2, <2>3, <2>4, StandingStep
<1>2. ASSUME NEW x \in Handlers, StopWrite(x), Moves(x, "stop_lock"), running' = NoBatch
      PROVE  Inv'
  <2>1. rt' = rt /\ unfinished' = unfinished /\ job[x].pc = "stop_write" /\ vanished' = vanished
    BY <1>2 DEF StopWrite, At
  <2>2. Stops(x) /\ ~Holds(x)' /\ ~InStart(x)'
    BY <1>2, <2>1 DEF InStart, Holds, Holding, Writing, Stops, Moves, JobsOK, JobOK, Stopping
  <2>3. \A y \in Handlers : y # x =>
          /\ Holds(y)' <=> Holds(y)
          /\ InStart(y)' <=> InStart(y)
          /\ Stops(y)' <=> Stops(y)
          /\ job'[y].pc = job[y].pc /\ job'[y].batch = job[y].batch /\ job'[y].seen = job[y].seen
    BY <1>2, OtherRecords DEF Moves
  <2>4. job'[x].batch = job[x].batch /\ job'[x].seen = job[x].seen /\ ActiveKept
    BY <1>2, <2>1 DEF Moves, SameRest, ActiveKept
  <2> QED
    BY <1>2, <2>1, <2>2, <2>3, <2>4, StandingStep
<1>3. CASE ResetControlFault
  <2>1. running' = NoBatch /\ unfinished' = unfinished /\ job' = job /\ vanished' = vanished
    BY <1>3 DEF ResetControlFault
  <2>2. ActiveKept
    BY <1>3, RuntimeFields DEF ResetControlFault, TypeOK, ActiveKept
  <2> QED
    BY <2>1, <2>2, StandingStep DEF Holds, InStart, Stops
<1> QED
  BY <1>1, <1>2, <1>3

\* A stop or finish begins: of the active batch, or of one nobody is starting.
LEMMA StopBeginsStep ==
  ASSUME TypeOK, JobsOK, Inv, ~FinishDuringStart, NEW x \in Handlers,
         StopBegin(x) \/ \E b \in Batches : FinishBegin(x, b)
  PROVE  Inv'
<1>1. /\ rt' = rt /\ running' = running /\ unfinished' = unfinished /\ job[x].pc = "idle"
      /\ vanished' = vanished
  BY DEF StopBegin, FinishBegin, KeepRows, At
<1>2. PICK b \in Batches :
        /\ \E kind \in StopKinds : Enters(x, kind, "row", b, rt.active_batch_id)
        /\ \/ b = rt.active_batch_id
           \/ /\ b \notin vanished
              /\ \A y \in Handlers : ~(job[y].kind \in StartKinds /\ job[y].batch = b)
  <2>1. CASE StopBegin(x)
    BY <2>1, EnterFields DEF StopBegin, StopKinds, TypeOK, RuntimeStates, BatchIds
  <2>2. ASSUME NEW b \in Batches, FinishBegin(x, b)
        PROVE  /\ Enters(x, "finish", "row", b, rt.active_batch_id) /\ b \notin vanished
               /\ \A y \in Handlers : ~(job[y].kind \in StartKinds /\ job[y].batch = b)
    BY <2>2, EnterFields DEF FinishBegin
  <2> QED
    BY <2>1, <2>2 DEF StopKinds
<1>3. \A y \in Handlers : y # x =>
        /\ Holds(y)' <=> Holds(y)
        /\ InStart(y)' <=> InStart(y)
        /\ Stops(y)' <=> Stops(y)
        /\ job'[y].pc = job[y].pc /\ job'[y].batch = job[y].batch /\ job'[y].seen = job[y].seen
  BY <1>2, OtherRecords DEF Enters
<1>4. /\ job'[x].pc = "row" /\ job'[x].batch = b /\ job'[x].seen = rt.active_batch_id
      /\ ~Holds(x)' /\ ~InStart(x)' /\ ~InStart(x) /\ ~Holds(x)
  BY <1>1, <1>2 DEF Enters, Holds, Holding, Writing, InStart
<1>5. \A y \in Handlers : Holds(y) => job[y].batch # b
  BY <1>2 DEF Inv, RowIsHeld, JobsOK, JobOK, Holds
<1>v. b \notin vanished
  BY <1>2 DEF Inv, VanishedIsHeld
<1>6. rt.active_batch_id = NoBatch => running # b
  <2>1. \A y \in Handlers : InStart(y) => Holds(y)
    BY StartPhases
  <2> QED
    BY <1>5, <1>v, <2>1, BatchAssumption DEF Inv, RunIsKnown
<1>7. OwnBatch'
  BY <1>3, <1>4, <1>5 DEF Inv, OwnBatch
<1>8. RowIsHeld'
  BY <1>1, <1>3, <1>4 DEF Inv, RowIsHeld
<1>9. StartsExclude' /\ NothingActive'
  BY <1>1, <1>3, <1>4 DEF Inv, StartsExclude, NothingActive
<1>10. StartNotRunning'
  BY <1>1, <1>3, <1>4 DEF Inv, StartNotRunning, NotRunning
<1>11. InactiveStays'
  BY <1>1, <1>3, <1>4 DEF Inv, InactiveStays, was_active
<1>12. StopNotRunning' /\ StoppedDeviceStands'
  BY <1>1, <1>3, <1>4, <1>6 DEF Inv, StopNotRunning, StoppedDeviceStands, PastStop
<1>13. RunIsKnown' /\ RunIsAnswered' /\ RunHasARow'
  BY <1>1, <1>3, <1>4 DEF Inv, RunIsKnown, RunIsAnswered, RunHasARow
<1>14. VanishedIsHeld'
  BY <1>1, <1>3, <1>4, <1>v, VanishedStays DEF Inv, VanishedIsHeld
<1> QED
  BY <1>7, <1>8, <1>9, <1>10, <1>11, <1>12, <1>13, <1>14 DEF Inv

\* A finish whose batch was not active goes on without a device command: nothing runs it.
LEMMA ReadRowStep ==
  ASSUME TypeOK, JobsOK, Inv, NEW x \in Handlers, ReadRow(x), ~Leaves(x)
  PROVE  Inv'
<1>1. /\ rt' = rt /\ running' = running /\ unfinished' = unfinished /\ job[x].pc = "row"
      /\ vanished' = vanished
  BY DEF ReadRow, KeepRows, At
<1>2. /\ Enters(x, job[x].kind, IF was_active(x) THEN "stop_write" ELSE "stop_lock",
                job[x].batch, job[x].seen)
      /\ job[x].kind = "finish" => job[x].seen \in {NoBatch, job[x].batch}
  BY EnterFields
<1>3. \A y \in Handlers : y # x =>
        /\ Holds(y)' <=> Holds(y)
        /\ InStart(y)' <=> InStart(y)
        /\ Stops(y)' <=> Stops(y)
        /\ job'[y].pc = job[y].pc /\ job'[y].batch = job[y].batch /\ job'[y].seen = job[y].seen
  BY <1>2, OtherRecords DEF Enters
<1>4. /\ job'[x].batch = job[x].batch /\ job'[x].seen = job[x].seen
      /\ job'[x].pc = IF was_active(x) THEN "stop_write" ELSE "stop_lock"
      /\ Stops(x) /\ ~Holds(x)' /\ ~InStart(x)' /\ ~InStart(x)
  BY <1>1, <1>2 DEF Enters, Holds, Holding, Writing, InStart, Stops, JobsOK, JobOK, Stopping
<1>5. ~was_active(x) => running # job[x].batch /\ rt.active_batch_id # job[x].batch
  BY <1>1, <1>2, <1>4 DEF Inv, StopNotRunning, InactiveStays, was_active, Stops, StopKinds,
     JobsOK, JobOK
<1>6. OwnBatch'
  BY <1>3, <1>4 DEF Inv, OwnBatch
<1>7. RowIsHeld'
  BY <1>1, <1>3, <1>4 DEF Inv, RowIsHeld
<1>8. StartsExclude' /\ NothingActive'
  BY <1>1, <1>3, <1>4 DEF Inv, StartsExclude, NothingActive
<1>9. StartNotRunning'
  BY <1>1, <1>3, <1>4 DEF Inv, StartNotRunning, NotRunning
<1>10. InactiveStays'
  BY <1>1, <1>3, <1>4 DEF Inv, InactiveStays, was_active
<1>11. StopNotRunning'
  BY <1>1, <1>3, <1>4, <1>5 DEF Inv, StopNotRunning, PastStop
<1>12. StoppedDeviceStands'
  BY <1>1, <1>3, <1>4, <1>5 DEF Inv, StoppedDeviceStands, PastStop
<1>13. RunIsKnown' /\ RunIsAnswered' /\ RunHasARow'
  BY <1>1, <1>3, <1>4 DEF Inv, RunIsKnown, RunIsAnswered, RunHasARow
<1>14. VanishedIsHeld'
  BY <1>1, <1>3, <1>4, VanishedStays DEF Inv, VanishedIsHeld
<1> QED
  BY <1>6, <1>7, <1>8, <1>9, <1>10, <1>11, <1>12, <1>13, <1>14 DEF Inv

\* The active batch is cleared: its device stands, so there is nothing left to answer for.
LEMMA StopCommitStep ==
  ASSUME TypeOK, JobsOK, JobsOK', Inv, NEW x \in Handlers, StopCommit(x), ~ActiveKept
  PROVE  Inv' /\ running = NoBatch
<1>1. /\ running' = running /\ unfinished' = unfinished /\ job[x].pc = "stop_commit"
      /\ vanished' = vanished
  BY DEF StopCommit, KeepRows, At
<1>2. rt.active_batch_id = job[x].batch /\ rt'.active_batch_id = NoBatch
  <2>1. Stopped(x) \in RuntimeStates /\ Stopped(x).active_batch_id = rt.active_batch_id
    BY LifecycleTargetAssumption DEF Stopped, RuntimeStates, TypeOK
  <2> QED
    BY <2>1 DEF StopCommit, ActiveKept, RuntimeStates
<1>3. running = NoBatch
  BY <1>1, <1>2 DEF Inv, StoppedDeviceStands, PastStop, Stops, JobsOK, JobOK, Stopping
<1>4. Leaves(x)
  BY ControlFields, PhaseNames DEF StopCommit
<1>5. \A y \in Handlers : y # x =>
        /\ Holds(y)' <=> Holds(y)
        /\ InStart(y)' <=> InStart(y)
        /\ Stops(y)' <=> Stops(y)
        /\ job'[y].pc = job[y].pc /\ job'[y].batch = job[y].batch /\ job'[y].seen = job[y].seen
  BY <1>4, OtherRecords DEF Leaves
<1>6. job'[x].batch = NoBatch /\ ~Holds(x)' /\ ~InStart(x)' /\ ~Stops(x)'
  BY <1>4 DEF Leaves, Holds, Holding, Writing, InStart, Stops, StopKinds
<1>n. \A y \in Handlers : (Holds(y)' => job'[y].batch # NoBatch)
                          /\ (Stops(y)' => job'[y].batch # NoBatch)
  BY BatchAssumption DEF JobsOK, JobOK, Holds, Stops
<1>7. OwnBatch'
  BY <1>5, <1>6, <1>n DEF Inv, OwnBatch
<1>8. RowIsHeld'
  BY <1>1, <1>2, <1>5, <1>6, <1>n DEF Inv, RowIsHeld
<1>9. StartsExclude' /\ NothingActive'
  BY <1>2, <1>5, <1>6 DEF Inv, StartsExclude, NothingActive
<1>10. StartNotRunning'
  BY <1>1, <1>3, <1>n DEF StartNotRunning, NotRunning, Holds, Holding, Writing
<1>11. InactiveStays' /\ StopNotRunning' /\ StoppedDeviceStands'
  BY <1>1, <1>2, <1>3, <1>n DEF InactiveStays, StopNotRunning, StoppedDeviceStands
<1>12. RunIsKnown' /\ RunIsAnswered' /\ RunHasARow'
  BY <1>1, <1>3 DEF RunIsKnown, RunIsAnswered, RunHasARow
<1>13. VanishedIsHeld'
  <2>1. NoBatch \notin vanished
    BY BatchAssumption DEF Inv, VanishedIsHeld, TypeOK
  <2> QED
    BY <1>1, <1>2, <1>5, <1>6, <2>1, VanishedStays DEF Inv, VanishedIsHeld
<1> QED
  BY <1>3, <1>7, <1>8, <1>9, <1>10, <1>11, <1>12, <1>13 DEF Inv

\* A start that loses its client leaves its row open, and that row is nobody else's.
LEMMA DisconnectStep ==
  ASSUME TypeOK, JobsOK, JobsOK', Inv, NEW x \in Handlers, Disconnect(x)
  PROVE  Inv'
<1>1. /\ Leaves(x) /\ rt' = rt /\ unfinished' = unfinished /\ running' = running
      /\ vanished' = vanished \cup (IF InStart(x) THEN {job[x].batch} ELSE {})
  BY DisconnectFields
<1>2. \A y \in Handlers : y # x =>
        /\ Holds(y)' <=> Holds(y)
        /\ InStart(y)' <=> InStart(y)
        /\ Stops(y)' <=> Stops(y)
        /\ job'[y].pc = job[y].pc /\ job'[y].batch = job[y].batch /\ job'[y].seen = job[y].seen
  BY <1>1, OtherRecords DEF Leaves
<1>3. /\ job'[x].batch = NoBatch /\ ~Holds(x)' /\ ~InStart(x)' /\ ~Stops(x)'
      /\ job'[x].pc \notin NotRunning
  BY <1>1 DEF Leaves, Holds, Holding, Writing, InStart, Stops, StopKinds, NotRunning
<1>n. \A y \in Handlers : Holds(y)' => job'[y].batch # NoBatch
  BY BatchAssumption DEF JobsOK, JobOK, Holds
<1>4. OwnBatch'
  BY <1>2, <1>3, <1>n DEF Inv, OwnBatch
<1>5. RowIsHeld'
  BY <1>1, <1>2, <1>3 DEF Inv, RowIsHeld
<1>6. StartsExclude' /\ NothingActive'
  BY <1>1, <1>2, <1>3 DEF Inv, StartsExclude, NothingActive
<1>7. StartNotRunning'
  BY <1>1, <1>2, <1>3 DEF Inv, StartNotRunning
<1>8. InactiveStays' /\ StopNotRunning' /\ StoppedDeviceStands'
  BY <1>1, <1>2, <1>3 DEF Inv, InactiveStays, StopNotRunning, StoppedDeviceStands, was_active
<1>9. RunIsKnown' /\ RunIsAnswered'
  <2>1. \A y \in Handlers : InStart(y) =>
          (InStart(y)' /\ job'[y].batch = job[y].batch) \/ job[y].batch \in vanished'
    BY <1>1, <1>2
  <2> QED
    BY <1>1, <2>1 DEF Inv, RunIsKnown, RunIsAnswered
<1>10. RunHasARow'
  BY <1>1 DEF Inv, RunHasARow
<1>11. VanishedIsHeld'
  <2>1. ASSUME NEW b \in vanished'
        PROVE  /\ b \in unfinished /\ rt.active_batch_id # b
               /\ \A y \in Handlers : y # x => job[y].batch # b
    <3>1. CASE b \in vanished
      BY <3>1 DEF Inv, VanishedIsHeld
    <3>2. CASE InStart(x) /\ b = job[x].batch
      BY <3>2, StartPhases DEF Inv, RowIsHeld, OwnBatch
    <3> QED
      BY <1>1, <2>1, <3>1, <3>2
  <2>2. NoBatch \notin unfinished
    BY BatchAssumption DEF TypeOK
  <2> QED
    BY <1>1, <1>2, <1>3, <2>1, <2>2 DEF VanishedIsHeld
<1> QED
  BY <1>4, <1>5, <1>6, <1>7, <1>8, <1>9, <1>10, <1>11 DEF Inv

\* After a crash the open row of a running device is found, becomes active and is latched.
LEMMA RestartStep ==
  ASSUME TypeOK, Inv, Restart
  PROVE  Inv'
<1>1. /\ running' = running /\ unfinished' = unfinished /\ vanished' = {}
      /\ \A y \in Handlers : job'[y] = Idle
  BY DEF Restart
<1>2. PICK first \in IF unfinished = {} THEN {NoBatch} ELSE unfinished :
        rt' = recover_runtime_from_db(first)
  BY DEF Restart
<1>3. \A y \in Handlers : /\ ~Holds(y)' /\ ~InStart(y)' /\ ~Stops(y)'
                          /\ job'[y].pc \notin NotRunning
  BY <1>1 DEF Idle, Holds, Holding, Writing, InStart, Stops, StopKinds, NotRunning
<1>4. running # NoBatch => rt'.active_batch_id # NoBatch /\ rt'.last_control_error
  <2>1. running # NoBatch => first \in Batches
    BY <1>2 DEF Inv, RunHasARow, TypeOK
  <2> QED
    BY <1>2, <2>1, BatchAssumption, RecoverFields DEF BatchIds
<1>5. OwnBatch' /\ RowIsHeld' /\ StartsExclude' /\ NothingActive' /\ StartNotRunning'
  BY <1>3 DEF OwnBatch, RowIsHeld, StartsExclude, NothingActive, StartNotRunning
<1>6. InactiveStays' /\ StopNotRunning' /\ StoppedDeviceStands'
  BY <1>3 DEF InactiveStays, StopNotRunning, StoppedDeviceStands
<1>7. RunIsKnown' /\ RunIsAnswered' /\ RunHasARow'
  BY <1>1, <1>4 DEF Inv, RunIsKnown, RunIsAnswered, RunHasARow
<1>8. VanishedIsHeld'
  BY <1>1 DEF VanishedIsHeld
<1> QED
  BY <1>5, <1>6, <1>7, <1>8 DEF Inv

-----------------------------------------------------------------------------
(* The invariant, and what follows from it.                                *)

\* The steps of a start that has its row.
LEMMA HoldingKeepsInv ==
  ASSUME TypeOK, JobsOK, JobsOK', Inv, NEW x \in Handlers, HoldingStep(x)
  PROVE  Inv'
<1>1. CASE Calm
  BY <1>1, CalmStep
<1>2. CASE DeviceCheck(x)
  <2>1. Moves(x, "write") \/ Moves(x, "abandon")
    BY <1>2, ControlFields, PhaseNames DEF DeviceCheck
  <2> QED
    BY <1>1, <1>2, <2>1, DeviceCheckStep, HoldingIsCalm
<1>3. CASE DeviceStart(x)
  <2>1. \/ running' = job[x].batch /\ Moves(x, "started")
        \/ running' = running /\ Moves(x, "start_failed")
    BY <1>3, ControlFields, PhaseNames DEF DeviceStart
  <2> QED
    BY <1>1, <1>3, <2>1, DeviceStartStep, HoldingIsCalm
<1>4. CASE Commit(x)
  <2>1. /\ InStart(x) /\ running' = running /\ unfinished' = unfinished
        /\ vanished' = vanished /\ rt \in RuntimeStates
    BY <1>4 DEF Commit, KeepRows, InStart, At, TypeOK
  <2>2. \/ rt'.active_batch_id = job[x].batch /\ Leaves(x)
        \/ ActiveKept /\ Moves(x, "rollback")
    <3>1. \/ /\ rt' = [rt EXCEPT !.targets = StartTargets,
                                 !.active_batch_id = job[x].batch,
                                 !.auto_enabled = (job[x].kind # "batch")]
             /\ Return(x)
          \/ /\ rt' = rt \/ rt' = disable_auto(rt)
             /\ job' = [job EXCEPT ![x].pc = "rollback", ![x].listed = {}]
      BY <1>4 DEF Commit
    <3>2. [rt EXCEPT !.targets = StartTargets, !.active_batch_id = job[x].batch,
                     !.auto_enabled = (job[x].kind # "batch")].active_batch_id = job[x].batch
      BY <2>1 DEF RuntimeStates
    <3>3. Return(x) => Leaves(x)
      BY ControlFields, PhaseNames
    <3>4. rt' = rt \/ rt' = disable_auto(rt) => ActiveKept
      BY <2>1, RuntimeFields DEF ActiveKept
    <3> QED
      BY <3>1, <3>2, <3>3, <3>4, EnterFields
  <2>3. ASSUME rt'.active_batch_id = job[x].batch, Leaves(x)
        PROVE  Inv'
    <3>1. ~Holds(x)' /\ ~Stops(x)' /\ job'[x].batch = NoBatch /\ Others(x)
      BY <2>3 DEF Leaves, Holds, Holding, Writing, Stops, StopKinds
    <3> QED
      BY <2>1, <2>3, <3>1, ActivationStep
  <2> QED
    BY <1>1, <1>4, <2>2, <2>3, HoldingIsCalm
<1>5. CASE RollbackStop(x)
  <2>1. \/ running' = NoBatch /\ Moves(x, "rollback_stopped")
        \/ running' = running /\ Moves(x, "rollback_failed")
    BY <1>5, ControlFields, PhaseNames DEF RollbackStop
  <2> QED
    BY <1>1, <1>5, <2>1, DeviceStandsStep, HoldingIsCalm
<1>6. CASE RollbackStuck(x)
  <2> DEFINE s == [rt EXCEPT !.active_batch_id = job[x].batch, !.targets = StartTargets]
  <2>1. /\ InStart(x) /\ running' = running /\ unfinished' = unfinished /\ Moves(x, "tail")
        /\ vanished' = vanished /\ rt' = latch_control_fault(s)
    BY <1>6, ControlFields, PhaseNames DEF RollbackStuck, LatchAndGoto, KeepRows, InStart, At
  <2>2. s \in RuntimeStates /\ s.active_batch_id = job[x].batch
    BY LifecycleTargetAssumption DEF RuntimeStates, TypeOK, Jobs
  <2>3. rt'.active_batch_id = job[x].batch
    <3> HIDE DEF s
    <3> QED
      BY <2>1, <2>2, RuntimeFields
  <2>4. job[x].kind \in StartKinds
    BY <2>1, StartPhases DEF JobsOK, JobOK, Holds
  <2>5. ~Holds(x)' /\ ~Stops(x)' /\ job'[x].batch = job[x].batch /\ Others(x)
    BY <2>1, <2>4 DEF Moves, SameRest, Holds, Holding, Writing, Stops, StopKinds, StartKinds
  <2> QED
    BY <2>1, <2>3, <2>5, ActivationStep
<1>7. CASE ~(DeviceCheck(x) \/ DeviceStart(x) \/ Commit(x) \/ RollbackStop(x) \/ RollbackStuck(x))
  BY <1>1, <1>7, HoldingIsCalm DEF HoldingStep
<1> QED
  BY <1>2, <1>3, <1>4, <1>5, <1>6, <1>7

\* Every step keeps the invariant, when no batch is finished whose start has not answered.
LEMMA StepInv ==
  ASSUME ~FinishDuringStart
  PROVE  TypeOK /\ JobsOK /\ JobsOK' /\ Inv /\ [Next]_vars => Inv'
<1> SUFFICES ASSUME TypeOK, JobsOK, JobsOK', Inv, [Next]_vars PROVE Inv'
  OBVIOUS
<1>1. ASSUME NEW x \in Handlers,
             \/ V1Read(x) \/ V1Verify(x) \/ \E kind \in StartKinds : StartCheck(x, kind)
             \/ StartVerify(x) \/ CreateRow(x)
      PROVE  Inv'
  <2>1. CASE CreateRow(x) /\ ~(Leaves(x) /\ unfinished' = unfinished)
    BY <2>1, EnterFields, CreateRowStep
  <2> QED
    BY <1>1, <2>1, CheckingIsCalm, CalmStep
<1>2. ASSUME NEW x \in Handlers, HoldingStep(x)
      PROVE  Inv'
  BY <1>2, HoldingKeepsInv
<1>3. ASSUME NEW x \in Handlers,
             \/ StopBegin(x) \/ \E b \in Batches : FinishBegin(x, b)
             \/ ReadRow(x) \/ StoppingStep(x) \/ TailLatch(x)
      PROVE  Inv'
  <2>1. CASE StopBegin(x) \/ \E b \in Batches : FinishBegin(x, b)
    BY <2>1, StopBeginsStep
  <2>2. CASE ReadRow(x)
    BY <2>2, ReadRowStep, StoppingIsCalm, CalmStep
  <2>3. CASE StopWrite(x)
    <3>1. \/ running' = NoBatch /\ Moves(x, "stop_lock")
          \/ running' = running /\ Moves(x, "stop_failed")
      BY <2>3, ControlFields, PhaseNames DEF StopWrite
    <3> QED
      BY <2>3, <3>1, DeviceStandsStep, StoppingIsCalm, CalmStep
  <2>4. CASE StopCommit(x)
    BY <2>4, StopCommitStep, StoppingIsCalm, CalmStep
  <2>5. CASE StopFailed(x) \/ StopLock(x) \/ CloseRow(x) \/ ReloadRow(x) \/ StopAudit(x)
             \/ TailLatch(x)
    BY <2>5, StoppingIsCalm, CalmStep
  <2> QED
    BY <1>3, <2>1, <2>2, <2>3, <2>4, <2>5 DEF StoppingStep
<1>4. CASE Environment
  BY <1>4, EnvironmentIsCalm, CalmStep, DeviceStandsStep, RestartStep
<1>5. CASE UNCHANGED vars
  <2>1. Calm
    BY <1>5 DEF vars, Calm, CalmRecord, CalmRows, ActiveKept, FaultKept, Holds, InStart,
       Stops, Inv, RowIsHeld
  <2> QED
    BY <2>1, CalmStep
<1> QED
  BY <1>1, <1>2, <1>3, <1>4, <1>5, DisconnectStep, StepKinds

\* The inductive invariant holds at startup.
LEMMA InitialInv == Init => Inv
<1> SUFFICES ASSUME Init PROVE Inv
  OBVIOUS
<1>1. running = NoBatch /\ vanished = {} /\ \A x \in Handlers : job[x] = Idle
  BY DEF Init
<1>2. \A x \in Handlers : ~Holds(x) /\ ~InStart(x) /\ ~Stops(x) /\ job[x].pc \notin NotRunning
  BY <1>1 DEF Idle, Holds, Holding, Writing, InStart, Stops, StopKinds, NotRunning
<1>3. OwnBatch /\ RowIsHeld /\ StartsExclude /\ NothingActive /\ StartNotRunning
  BY <1>2 DEF OwnBatch, RowIsHeld, StartsExclude, NothingActive, StartNotRunning
<1>4. InactiveStays /\ StopNotRunning /\ StoppedDeviceStands
  BY <1>2 DEF InactiveStays, StopNotRunning, StoppedDeviceStands
<1> QED
  BY <1>1, <1>3, <1>4 DEF Inv, RunIsKnown, RunHasARow, RunIsAnswered, VanishedIsHeld

\* The inductive invariant, for any number of requests, batches, failures and restarts.
LEMMA InvHolds ==
  ASSUME ~FinishDuringStart
  PROVE  Spec => [](TypeOK /\ JobsOK /\ Inv)
<1>1. Init => JobsOK /\ Inv
  BY InitialRecords, InitialInv
<1>2. TypeOK /\ JobsOK /\ JobsOK' /\ Inv /\ [Next]_vars => Inv'
  BY StepInv
<1> QED
  BY <1>1, <1>2, StepRecords, TypeCorrect, PTL DEF Spec

(***************************************************************************)
(* Two starts never write to the device at the same time, although no      *)
(* mutex keeps them apart: for any number of them, as long as no batch is  *)
(* finished before its start has returned (the run lifecycle_finish shows  *)
(* what happens otherwise).                                                *)
(***************************************************************************)
THEOREM StartsAreExclusive ==
  ASSUME ~FinishDuringStart
  PROVE  Spec => []StartsExclude
<1>1. Inv => StartsExclude
  BY DEF Inv
<1> QED
  BY <1>1, InvHolds, PTL

(***************************************************************************)
(* A device that was started is the active batch's, under a latched fault, *)
(* or in the hands of a start that will commit or roll back, through every *)
(* failed write, failed record, failed rollback and restart.  A start      *)
(* whose client went away leaves an open row that refuses all production   *)
(* and every reset, as long as nobody finishes that row by its id.         *)
(***************************************************************************)
THEOREM RunIsOwned ==
  ASSUME ~FinishDuringStart
  PROVE  Spec => []RunHasAnOwner
<1>1. TypeOK /\ Inv => RunHasAnOwner
  BY DEF Inv, RunIsAnswered, VanishedIsHeld, recovery_required, RunHasAnOwner
<1> QED
  BY <1>1, InvHolds, PTL

(***************************************************************************)
(* A start write that failed although the device took part of it leaves    *)
(* the fault latched until a stop reaches the device or an operator resets *)
(* the fault, or, when its client went away first, an open row, for every  *)
(* number of requests (StartFailed, the error branch of                    *)
(* start_process_on_device).                                               *)
(***************************************************************************)
THEOREM StrayLatched ==
  ASSUME ~FinishDuringStart
  PROVE  Spec => []StrayStartIsLatched
<1>1. Init => StrayIsAnswered
  BY DEF Init, StrayIsAnswered
<1>2. Inv /\ StrayIsAnswered => StrayStartIsLatched
  BY DEF Inv, StrayIsAnswered, VanishedIsHeld, StrayStartIsLatched
<1> QED
  BY <1>1, <1>2, StrayStep, InvHolds, PTL DEF Spec

(***************************************************************************)
(* A running device has an open row, so that recover_runtime_from_db finds *)
(* it after a crash at any point of a start, a stop or a rollback.  The    *)
(* invariant gives this even without the excuse of a latched fault.        *)
(***************************************************************************)
THEOREM RunIsRecorded ==
  ASSUME ~FinishDuringStart
  PROVE  Spec => []RunIsOnRecord
<1>1. Inv => RunIsOnRecord
  BY DEF Inv, RunHasARow, RunIsOnRecord
<1> QED
  BY <1>1, InvHolds, PTL

\* Only the commit of a stop clears the active batch, and it has stopped the device.
LEMMA ClearingStep ==
  ASSUME TypeOK, JobsOK, JobsOK', Inv, Next, restarts' = restarts,
         rt.active_batch_id # NoBatch, rt'.active_batch_id = NoBatch
  PROVE  running # rt.active_batch_id
<1>1. ~ActiveKept /\ ~Restart
  BY DEF ActiveKept, Restart, TypeOK
<1>2. PICK x \in Handlers : HandlerBegins(x) \/ HandlerStep(x)
  BY <1>1, EnvironmentKeepsFault, DisconnectFields DEF Next, ActiveKept
<1>3. Commit(x) \/ RollbackStuck(x) \/ RollbackStopped(x) \/ StopCommit(x)
  BY <1>1, <1>2, RequestsKeepFault
<1>4. ~(Commit(x) \/ RollbackStuck(x))
  <2>1. Commit(x) \/ RollbackStuck(x) => InStart(x)
    BY DEF Commit, RollbackStuck, At, InStart
  <2> QED
    BY <2>1 DEF Inv, NothingActive
<1>5. ~RollbackStopped(x)
  <2>1. RollbackStopped(x) => InStart(x)
    BY DEF RollbackStopped, At, InStart
  <2> QED
    BY <2>1 DEF Inv, NothingActive
<1> QED
  BY <1>1, <1>3, <1>4, <1>5, StopCommitStep

(***************************************************************************)
(* The active batch is only cleared once its device stands still, also     *)
(* when a stop and a finish of the same batch overlap.                     *)
(***************************************************************************)
THEOREM ClearedIsStopped ==
  ASSUME ~FinishDuringStart
  PROVE  Spec => ClearedBatchIsStopped
<1>1. TypeOK /\ JobsOK /\ JobsOK' /\ Inv /\ [Next]_vars =>
        [rt.active_batch_id # NoBatch /\ rt'.active_batch_id = NoBatch /\ restarts' = restarts
           => running # rt.active_batch_id]_vars
  BY ClearingStep
<1> QED
  BY <1>1, InvHolds, PTL DEF Spec, ClearedBatchIsStopped

-----------------------------------------------------------------------------
(* The gate of automatic control.                                          *)

\* The loop's task dies in ControlLoop and SafetyLatches, not here.
LoopAlive == rt.control_loop_terminated = FALSE

\* The record is as before as far as the latches and the loop are concerned.
SameLatches(s) ==
    /\ EngagedLatches(s) = EngagedLatches(rt)
    /\ s.control_loop_terminated = rt.control_loop_terminated

LoopSame == rt'.control_loop_terminated = rt.control_loop_terminated

\* A fault latched on a record with the same latches is Engage("control_fault").
LEMMA FaultStep ==
  ASSUME NEW s \in RuntimeStates, SameLatches(s),
         rt' = latch_control_fault(s), restarts' = restarts
  PROVE  Gate!Next /\ LoopSame
<1>1. Gate!Engage("control_fault") /\ LoopSame
  BY EngagingMethodsGate, EngagingMethods DEF Gate!Engage, SameLatches, LoopSame
<1> QED
  BY <1>1 DEF Gate!Next, Gate!Latches

\* A step that touches no latch closes the gate, opens it with no latch engaged, or leaves it.
LEMMA QuietStep ==
  ASSUME SameLatches(rt'), restarts' = restarts,
         \/ rt'.auto_enabled = FALSE
         \/ rt'.auto_enabled = TRUE /\ EngagedLatches(rt) = {}
         \/ rt'.auto_enabled = rt.auto_enabled
  PROVE  [Gate!Next]_(Gate!gate) /\ LoopSame
<1> USE DEF LoopSame
<1>1. CASE rt'.auto_enabled = FALSE
  BY <1>1 DEF Gate!Next, Gate!Disable, SameLatches
<1>2. CASE rt'.auto_enabled = TRUE /\ EngagedLatches(rt) = {}
  BY <1>2 DEF Gate!Next, Gate!Enable, SameLatches
<1>3. CASE rt'.auto_enabled = rt.auto_enabled
  BY <1>3 DEF Gate!gate, SameLatches
<1> QED
  BY <1>1, <1>2, <1>3

\* A start, a rollback and a stop move the gate the way the abstract one may move.
LEMMA RequestsKeepGate ==
  ASSUME TypeOK, NEW x \in Handlers, HandlerBegins(x) \/ HandlerStep(x), restarts' = restarts
  PROVE  [Gate!Next]_(Gate!gate) /\ LoopSame
<1>t. rt \in RuntimeStates /\ rt.targets \in ControlTargets /\ rt.active_batch_id \in BatchIds
      /\ rt.auto_enabled \in BOOLEAN /\ job[x].batch \in BatchIds
  BY DEF TypeOK, RuntimeStates, Jobs
<1>n. NoBatch \in BatchIds
  BY DEF BatchIds
<1>s. /\ Stopped(x) \in RuntimeStates /\ SameLatches(Stopped(x))
      /\ Stopped(x).auto_enabled = FALSE
  BY <1>t, LifecycleTargetAssumption DEF Stopped, RuntimeStates, SameLatches, EngagedLatches
<1>1. CASE UNCHANGED rt
  BY <1>1, QuietStep DEF SameLatches
<1>2. CASE rt' = disable_auto(rt)
  BY <1>2, <1>t, ReleasingMethodsGate, QuietMethods, QuietStep DEF SameLatches
<1>3. CASE StartFailed(x) \/ RollbackFailed(x) \/ TailLatch(x) \/ StopFailed(x)
  <2>1. rt' = latch_control_fault(rt)
    BY <1>3 DEF StartFailed, RollbackFailed, TailLatch, StopFailed, LatchAndGoto, LatchAndReturn
  <2> QED
    BY <2>1, <1>t, FaultStep DEF SameLatches
<1>4. CASE Commit(x)
  <2>1. CASE rt' = rt
    BY <2>1, QuietStep DEF SameLatches
  <2>2. CASE rt' = disable_auto(rt)
    BY <2>2, <1>2
  <2>3. CASE /\ ensure_target_update_interlock_clear(rt)
             /\ rt' = [rt EXCEPT !.targets = StartTargets, !.active_batch_id = job[x].batch,
                                 !.auto_enabled = (job[x].kind # "batch")]
    <3>1. SameLatches(rt') /\ rt'.auto_enabled \in BOOLEAN
      BY <2>3, <1>t, LifecycleTargetAssumption DEF SameLatches, RuntimeStates, EngagedLatches
    <3>2. EngagedLatches(rt) = {}
      BY <2>3, ClearInterlockMeansNoLatch
    <3> QED
      BY <3>1, <3>2, QuietStep
  <2> QED
    BY <1>4, <2>1, <2>2, <2>3 DEF Commit
<1>5. CASE RollbackStuck(x)
  <2> DEFINE kept == [rt EXCEPT !.active_batch_id = job[x].batch, !.targets = StartTargets]
  <2>1. kept \in RuntimeStates /\ SameLatches(kept)
    BY <1>t, LifecycleTargetAssumption DEF SameLatches, RuntimeStates, EngagedLatches
  <2>2. rt' = latch_control_fault(kept)
    BY <1>5 DEF RollbackStuck, LatchAndGoto
  <2> HIDE DEF kept
  <2> QED
    BY <2>1, <2>2, FaultStep
<1>6. CASE RollbackStopped(x)
  <2>1. SameLatches(rt') /\ (rt'.auto_enabled = FALSE \/ rt'.auto_enabled = rt.auto_enabled)
    BY <1>6, <1>t, <1>n DEF RollbackStopped, SameLatches, RuntimeStates, EngagedLatches
  <2> QED
    BY <2>1, QuietStep
<1>7. CASE StopLock(x)
  <2>1. CASE rt' = Stopped(x)
    BY <2>1, <1>s, QuietStep
  <2>2. CASE rt' = latch_control_fault(Stopped(x))
    BY <2>2, <1>s, FaultStep
  <2> QED
    BY <1>7, <2>1, <2>2 DEF StopLock, LatchAndReturn
<1>8. CASE StopCommit(x)
  <2>1. SameLatches(rt') /\ rt'.auto_enabled = FALSE
    BY <1>8, <1>s, <1>n DEF StopCommit, SameLatches, RuntimeStates, EngagedLatches
  <2> QED
    BY <2>1, QuietStep
<1> QED
  BY <1>1, <1>2, <1>3, <1>4, <1>5, <1>6, <1>7, <1>8, RuntimeWriters

\* So do the latches, their resets, the field and a restart.
LEMMA EnvironmentKeepsGate ==
  ASSUME TypeOK, LoopAlive, Environment
  PROVE  [Gate!Next]_(Gate!gate) /\ LoopAlive'
<1> USE DEF LoopAlive, LoopSame
<1>t. rt \in RuntimeStates
  BY DEF TypeOK
<1>1. CASE FieldReports
  <2>1. restarts' = restarts
    BY <1>1 DEF FieldReports, KeepRows
  <2>2. rt' = [rt EXCEPT !.latest_sample = "fresh", !.last_sensor_error = FALSE,
                         !.device_status = "healthy"]
    BY <1>1 DEF FieldReports, accept_sample, device_status_field_fault, downstream_command_fault
  <2>3. SameLatches(rt') /\ rt'.auto_enabled = rt.auto_enabled
    BY <2>2, <1>t DEF SameLatches, RuntimeStates, EngagedLatches
  <2> QED
    BY <2>1, <2>3, QuietStep
<1>2. CASE SampleAges
  <2>1. SameLatches(rt') /\ rt'.auto_enabled = rt.auto_enabled /\ restarts' = restarts
    BY <1>2, <1>t DEF SampleAges, KeepRows, SameLatches, RuntimeStates, EngagedLatches
  <2> QED
    BY <2>1, QuietStep
<1>3. CASE EngageLatch
  <2>1. PICK k \in Gate!Latches :
            /\ EngagedLatches(rt') = EngagedLatches(rt) \cup {k} /\ rt'.auto_enabled = FALSE
            /\ rt'.control_loop_terminated = rt.control_loop_terminated
    <3>1. /\ "manual_lock" \in Gate!Latches /\ "emergency_stop" \in Gate!Latches
          /\ "control_fault" \in Gate!Latches
      BY DEF Gate!Latches
    <3>2. CASE rt' = engage_emergency_stop(rt)
      BY <3>1, <3>2, <1>t, EngagingMethodsGate, EngagingMethods
    <3>3. CASE rt' = engage_manual_lock(rt)
      BY <3>1, <3>3, <1>t, EngagingMethodsGate, EngagingMethods
    <3>4. CASE rt' = latch_control_fault(rt)
      BY <3>1, <3>4, <1>t, EngagingMethodsGate, EngagingMethods
    <3> QED
      BY <1>3, <3>2, <3>3, <3>4 DEF EngageLatch
  <2>2. Gate!Engage(k)
    BY <1>3, <2>1 DEF EngageLatch, KeepRows, Gate!Engage
  <2> QED
    BY <2>1, <2>2 DEF Gate!Next
<1>4. CASE ResetEmergencyStop \/ Unlock \/ ResetControlFault
  <2>1. PICK k \in Gate!Latches :
            /\ EngagedLatches(rt') = EngagedLatches(rt) \ {k} /\ rt'.auto_enabled = FALSE
            /\ rt'.control_loop_terminated = rt.control_loop_terminated
    <3>1. /\ "manual_lock" \in Gate!Latches /\ "emergency_stop" \in Gate!Latches
          /\ "control_fault" \in Gate!Latches
      BY DEF Gate!Latches
    <3>2. CASE rt' = clear_emergency_stop(rt)
      BY <3>1, <3>2, <1>t, ReleasingMethodsGate, QuietMethods
    <3>3. CASE rt' = clear_manual_lock(rt)
      BY <3>1, <3>3, <1>t, ReleasingMethodsGate, QuietMethods
    <3>4. CASE rt' = clear_control_fault(rt)
      BY <3>1, <3>4, <1>t, ReleasingMethodsGate, QuietMethods
    <3> QED
      BY <1>4, <3>2, <3>3, <3>4 DEF ResetEmergencyStop, Unlock, ResetControlFault
  <2>2. Gate!Release(k)
    BY <1>4, <2>1 DEF ResetEmergencyStop, Unlock, ResetControlFault, KeepRows, Gate!Release,
                      LoopAlive
  <2> QED
    BY <2>1, <2>2 DEF Gate!Next
<1>5. CASE Restart
  <2>1. PICK first : rt' = recover_runtime_from_db(first)
    BY <1>5 DEF Restart
  <2>2. rt'.auto_enabled = FALSE /\ rt'.control_loop_terminated = FALSE
    BY <2>1 DEF recover_runtime_from_db, from_safety, latch_control_fault
  <2>3. Gate!Restart
    BY <1>5, <2>2 DEF Restart, Gate!Restart, EngagedLatches, Latches, Gate!Latches
  <2> QED
    BY <2>2, <2>3 DEF Gate!Next
<1> QED
  BY <1>1, <1>2, <1>3, <1>4, <1>5 DEF Environment

\* A request restarts nothing.
LEMMA RequestsRestartNothing ==
  ASSUME NEW x \in Handlers, HandlerBegins(x) \/ HandlerStep(x)
  PROVE  restarts' = restarts
<1>1. CASE V1Read(x) \/ V1Verify(x) \/ (\E kind : StartCheck(x, kind)) \/ StartVerify(x)
           \/ CreateRow(x) \/ DeviceCheck(x) \/ DeviceStart(x) \/ StartFailed(x) \/ Abandon(x)
           \/ StartRecord(x) \/ CommitList(x) \/ Commit(x)
  BY <1>1 DEF V1Read, V1Verify, StartCheck, StartVerify, CreateRow, DeviceCheck, DeviceStart,
     StartFailed, Abandon, StartRecord, CommitList, Commit, KeepRows, KeepField
<1>2. CASE RollbackStop(x) \/ RollbackFailed(x) \/ RollbackStuck(x) \/ RollbackStopped(x)
           \/ RollbackClose(x) \/ TailLatch(x)
  BY <1>2 DEF RollbackStop, RollbackFailed, RollbackStuck, RollbackStopped, RollbackClose,
     TailLatch, KeepRows, KeepField
<1>3. CASE StopBegin(x) \/ (\E b \in Batches : FinishBegin(x, b)) \/ ReadRow(x) \/ StopWrite(x)
           \/ StopFailed(x) \/ StopLock(x) \/ CloseRow(x) \/ ReloadRow(x) \/ StopAudit(x)
           \/ StopCommit(x)
  BY <1>3 DEF StopBegin, FinishBegin, ReadRow, StopWrite, StopFailed, StopLock, CloseRow,
     ReloadRow, StopAudit, StopCommit, KeepRows, KeepField
<1> QED
  BY <1>1, <1>2, <1>3 DEF HandlerBegins, HandlerStep

\* Every step of the lifecycle is a step of the gate or leaves it alone, and the loop lives on.
LEMMA StepImplementsGate ==
  TypeOK /\ LoopAlive /\ [Next]_vars => [Gate!Next]_(Gate!gate) /\ LoopAlive'
<1> SUFFICES ASSUME TypeOK, LoopAlive, [Next]_vars
             PROVE  [Gate!Next]_(Gate!gate) /\ LoopAlive'
  OBVIOUS
<1>1. ASSUME NEW x \in Handlers, HandlerBegins(x) \/ HandlerStep(x)
      PROVE  [Gate!Next]_(Gate!gate) /\ LoopAlive'
  BY <1>1, RequestsRestartNothing, RequestsKeepGate DEF LoopAlive, LoopSame
<1>2. CASE Environment
  BY <1>2, EnvironmentKeepsGate
<1>3. CASE UNCHANGED vars
  BY <1>3 DEF vars, Gate!gate, LoopAlive
<1>4. ASSUME NEW x \in Handlers, Disconnect(x)
      PROVE  [Gate!Next]_(Gate!gate) /\ LoopAlive'
  BY <1>4, DisconnectFields DEF Gate!gate, LoopAlive
<1> QED
  BY <1>1, <1>2, <1>3, <1>4 DEF Next

\* The daemon starts with the gate closed.
LEMMA InitImplementsGate == Init => Gate!Init /\ LoopAlive
  BY DEF Init, from_safety, Gate!Init, EngagedLatches, Latches, Gate!Latches, LoopAlive

(***************************************************************************)
(* ProcessLifecycle implements AutoGate: over any number of starts, stops  *)
(* and finishes in flight, failed writes, rollbacks and crashes, automatic *)
(* control is enabled by a start's commit alone, and only with no latch    *)
(* engaged at that moment.  With LatchesImplementGate and LoopImplementsGate *)
(* every writer of auto_enabled is covered.                                *)
(***************************************************************************)
THEOREM LifecycleImplementsGate == Spec => ImplementsGate
<1>1. Spec => []LoopAlive
  BY InitImplementsGate, StepImplementsGate, TypeCorrect, PTL DEF Spec
<1>2. Spec => [][Gate!Next]_(Gate!gate)
  BY <1>1, StepImplementsGate, TypeCorrect, PTL DEF Spec
<1> QED
  BY <1>2, InitImplementsGate, PTL DEF Spec, ImplementsGate, Gate!Spec

=============================================================================
