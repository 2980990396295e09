--------------------------- MODULE IntegrationTasks ---------------------------
(***************************************************************************)
(* The integration task queue: AINAS posts tasks over HTTP, a broker       *)
(* delivers them over MQTT, and both run execute_integration_task, which   *)
(* records a task, claims it, acts on the plant and records the outcome.   *)
(* A sender that got no answer sends again under the same external id.     *)
(*                                                                         *)
(* The action itself is ProcessLifecycle's start or stop, or the target    *)
(* update of SafetyLatches; here only its result counts.  A broker may     *)
(* deliver any message any number of times.  An HTTP handler is dropped    *)
(* when its client goes away, the bridge's calls run in a task of their    *)
(* own.                                                                    *)
(***************************************************************************)
EXTENDS Naturals, Sequences, FiniteSets

CONSTANTS
    HttpCallers,         \* POST /api/integrations/ainas/tasks in flight
    Bridge,              \* the MQTT bridge's polling loop
    ExternalIds,
    NoId,                \* external_task_id = None
    Payloads,            \* requests as sent: [action, content]
    LegacyTables,        \* tables an older version may have left behind
    MaxTasks,            \* bound on the table
    QueueCapacity,       \* queue_capacity of the MQTT client's request channel
    MaxCrashes,
    OverlappingReplays   \* may a task be sent again before its first call claimed it?

Callers == HttpCallers \cup {Bridge}

ASSUME TaskConstants ==
    /\ Bridge \notin HttpCallers
    /\ NoId \notin ExternalIds
    /\ MaxTasks \in Nat /\ QueueCapacity \in Nat \ {0} /\ MaxCrashes \in Nat
    /\ OverlappingReplays \in BOOLEAN

VARIABLES
    tasks,     \* the table integration_tasks, a row per id
    calls,     \* what each caller holds across its awaits
    outbox,    \* the request channel of the MQTT client
    link,      \* is the broker reachable?
    taskCrashes,
    acted,     \* history: how often the task's action took effect
    excused,   \* tasks a control fault was latched for, or whose call a crash cut short
    abandoned  \* history: tasks whose client went away after the claim

taskVars == <<tasks, calls, outbox, link, taskCrashes, acted, excused, abandoned>>

\* latch_control_fault: an operator may reset the fault later, that it was latched remains.
LatchFor(i) == excused' = excused \cup {i}

-----------------------------------------------------------------------------
(* Requests and rows.                                                      *)

NoAction == "none"

normalize_ainas_action(spelling) ==
    CASE spelling \in {"set_targets", "control.set_targets"} -> "set_targets"
      [] spelling \in {"start_process", "process.start", "start"} -> "start_process"
      [] spelling \in {"stop_process", "process.stop", "stop"} -> "stop_process"
      [] OTHER -> NoAction

\* The request as it is stored and compared: the action in its canonical spelling.
Request(p) == [p EXCEPT !.action = normalize_ainas_action(p.action)]

\* start_process needs a process, set_targets must not name one.
validate_integration_action_shape(p) ==
    LET action == normalize_ainas_action(p.action) IN
    /\ action # NoAction
    /\ action = "start_process" => p.process
    /\ action = "set_targets" => ~p.process

Active == {"received", "executing", "executed"}
Terminal == {"executed", "failed", "rejected"}

\* validate_integration_task_record: false for a row no reader accepts.
Row(source, ext, request, status) ==
    [source |-> source, ext |-> ext, request |-> request, status |-> status, valid |-> TRUE]

TaskRows ==
    [source : {"ainas", "mqtt"}, ext : ExternalIds \cup {NoId},
     request : {Request(p) : p \in Payloads}, status : Active \cup Terminal, valid : BOOLEAN]

\* An older version left rows of the same shape, with any statuses and repeated ids.
ASSUME LegacyAssumption ==
    \A t \in LegacyTables : t \in Seq(TaskRows) /\ Len(t) <= MaxTasks

Ids == 1 .. Len(tasks)

(***************************************************************************)
(* prepare_integration_task_unique_index, run whenever the database is     *)
(* opened: the earliest active row of an external id keeps it, later ones  *)
(* stay in the table without it.                                           *)
(***************************************************************************)
SameActiveKey(t, i, j) ==
    /\ t[i].ext # NoId /\ t[i].ext = t[j].ext /\ t[i].source = t[j].source
    /\ t[i].status \in Active /\ t[j].status \in Active

prepare_integration_task_unique_index(t) ==
    [i \in DOMAIN t |->
        IF \E j \in 1 .. (i - 1) : SameActiveKey(t, i, j)
        THEN [t[i] EXCEPT !.ext = NoId] ELSE t[i]]

\* integration_task_by_external_id: the earliest row, whatever its status.
ByExternalId(source, ext) ==
    LET found == {i \in Ids : tasks[i].source = source /\ tasks[i].ext = ext}
    IN  IF ext = NoId \/ found = {} THEN {}
        ELSE {CHOOSE i \in found : \A j \in found : i <= j}

\* integration_tasks(source): invalid rows are skipped.
Listed(source) == {i \in Ids : tasks[i].source = source /\ tasks[i].valid}

-----------------------------------------------------------------------------
Idle == [pc |-> "idle", row |-> 0, outcome |-> "none"]

TasksTypeOK ==
    /\ tasks \in Seq(TaskRows) /\ Len(tasks) <= MaxTasks
    /\ calls \in [Callers -> [pc : {"idle", "created", "executing", "finish", "receipt"},
                              row : 0 .. MaxTasks,
                              outcome : {"none"} \cup Active \cup Terminal]]
    /\ outbox \in Seq({"receipt", "alert"}) /\ Len(outbox) <= QueueCapacity
    /\ link \in BOOLEAN /\ taskCrashes \in 0 .. MaxCrashes
    /\ acted \in [1 .. MaxTasks -> 0 .. 2]
    /\ excused \subseteq 1 .. MaxTasks /\ abandoned \subseteq 1 .. MaxTasks

TasksInit ==
    /\ \E t \in LegacyTables : tasks = prepare_integration_task_unique_index(t)
    /\ calls = [c \in Callers |-> Idle]
    /\ outbox = <<>> /\ link = TRUE /\ taskCrashes = 0
    /\ acted = [i \in 1 .. MaxTasks |-> 0] /\ excused = {} /\ abandoned = {}

KeepHistory == UNCHANGED <<acted, excused, abandoned>>
KeepMqtt == UNCHANGED <<outbox, link>>

\* The call ends: an HTTP caller has its answer, the bridge has a receipt to send.
Return(c, i, outcome) ==
    calls' = [calls EXCEPT ![c] =
        IF c = Bridge THEN [pc |-> "receipt", row |-> i, outcome |-> outcome] ELSE Idle]

SourceOf(c) == IF c = Bridge THEN "mqtt" ELSE "ainas"

(***************************************************************************)
(* create_integration_task under the database's write lock, and what       *)
(* execute_integration_task decides from its row: an id that is taken by   *)
(* another request is a conflict, a task that has left "received" is       *)
(* answered with its record.  An unreadable record fails the call.         *)
(***************************************************************************)
Found(c, ext, p, i) ==
    /\ UNCHANGED tasks
    /\ \/ ~tasks[i].valid /\ Return(c, i, "failed")
       \/ tasks[i].valid /\ tasks[i].request # Request(p) /\ Return(c, i, "rejected")
       \/ /\ tasks[i].valid /\ tasks[i].request = Request(p)
          /\ tasks[i].status # "received" /\ Return(c, i, tasks[i].status)
       \/ /\ tasks[i].valid /\ tasks[i].request = Request(p)
          /\ tasks[i].status = "received"
          /\ OverlappingReplays \/ \A d \in Callers : calls[d].row # i \/ calls[d].pc # "created"
          /\ calls' = [calls EXCEPT ![c] = [pc |-> "created", row |-> i, outcome |-> "none"]]

CreateTask(c, ext, p) ==
    /\ calls[c].pc = "idle"
    /\ c = Bridge => link
    /\ validate_integration_action_shape(p)
    /\ LET seen == ByExternalId(SourceOf(c), ext) IN
       \/ \E i \in seen : Found(c, ext, p, i)
       \/ /\ seen = {} /\ Len(tasks) < MaxTasks
          /\ tasks' = Append(tasks, Row(SourceOf(c), ext, Request(p), "received"))
          /\ calls' = [calls EXCEPT ![c] =
                 [pc |-> "created", row |-> Len(tasks) + 1, outcome |-> "none"]]
    /\ KeepMqtt /\ KeepHistory /\ UNCHANGED taskCrashes

\* A row update.  One whose row cannot be read back afterwards has failed for the caller.
WithStatus(i, status) == [tasks EXCEPT ![i].status = status]

Claimed(i) == IF tasks[i].status = "received" THEN WithStatus(i, "executing") ELSE tasks

\* Mutant: the claim is not written before the action starts.
MarkNothing(c) ==
    LET row == tasks[calls[c].row] IN
    /\ calls[c].pc = "created"
    /\ calls' = [calls EXCEPT ![c].pc = "executing"]
    /\ UNCHANGED <<tasks, taskCrashes>> /\ KeepMqtt /\ KeepHistory

(***************************************************************************)
(* mark_integration_task_executing and the test after it: the row is       *)
(* claimed if it is still "received"; whoever finds it "executing" goes on *)
(* as well, whoever finds an outcome answers with it.                      *)
(***************************************************************************)
MarkExecuting(c) ==
    LET i == calls[c].row IN
    /\ calls[c].pc = "created"
    /\ \/ /\ tasks[i].status \in {"received", "executing"}
          /\ tasks' = Claimed(i)
          /\ calls' = [calls EXCEPT ![c].pc = "executing"]
       \/ /\ tasks[i].status \in Terminal
          /\ UNCHANGED tasks /\ Return(c, i, tasks[i].status)
       \/ tasks' \in {tasks, Claimed(i)} /\ Return(c, i, "failed")     \* the database failed
    /\ UNCHANGED taskCrashes /\ KeepMqtt /\ KeepHistory

(***************************************************************************)
(* execute_ainas_task.  apply_ainas_targets changes the targets in its     *)
(* last step only; a start or stop that fails, or is refused as a conflict *)
(* or for a process that is gone, may have reached the device by then, and *)
(* has then latched the fault itself.                                      *)
(***************************************************************************)
ActionResults(action) ==
    {[outcome |-> "executed", acts |-> TRUE], [outcome |-> "rejected", acts |-> FALSE],
     [outcome |-> "failed", acts |-> FALSE]}
    \cup (IF action = "set_targets" THEN {}
          ELSE {[outcome |-> "rejected", acts |-> TRUE], [outcome |-> "failed", acts |-> TRUE]})

Act(i) == [acted EXCEPT ![i] = IF @ < 2 THEN @ + 1 ELSE @]

Execute(c) ==
    LET i == calls[c].row IN
    /\ calls[c].pc = "executing"
    /\ \E r \in ActionResults(tasks[i].request.action) :
          /\ calls' = [calls EXCEPT ![c].pc = "finish", ![c].outcome = r.outcome]
          /\ acted' = IF r.acts THEN Act(i) ELSE acted
          /\ IF r.acts /\ r.outcome # "executed" THEN LatchFor(i) ELSE UNCHANGED excused
    /\ UNCHANGED <<tasks, taskCrashes, abandoned>> /\ KeepMqtt

\* Mutant: a receipt that cannot be written is only reported to the caller.
RecordOutcomeUnlatched(c) ==
    LET i == calls[c].row IN
    /\ calls[c].pc = "finish"
    /\ \/ tasks' = WithStatus(i, calls[c].outcome) /\ Return(c, i, calls[c].outcome)
       \/ tasks' \in {tasks, WithStatus(i, calls[c].outcome)} /\ Return(c, i, "failed")
    /\ UNCHANGED taskCrashes /\ KeepHistory /\ KeepMqtt

(***************************************************************************)
(* update_integration_task.  If it fails after the action took effect,     *)
(* latch_integration_receipt_failure_after_action stops the plant; if it   *)
(* fails after a refusal the task just stays "executing".                  *)
(***************************************************************************)
RecordOutcome(c) ==
    LET i == calls[c].row IN
    /\ calls[c].pc = "finish"
    /\ \/ /\ tasks' = WithStatus(i, calls[c].outcome)
          /\ Return(c, i, calls[c].outcome)
          /\ UNCHANGED excused
       \/ /\ tasks' \in {tasks, WithStatus(i, calls[c].outcome)}
          /\ Return(c, i, "failed")
          /\ IF calls[c].outcome = "executed" THEN LatchFor(i) ELSE UNCHANGED excused
    /\ UNCHANGED <<taskCrashes, acted, abandoned>> /\ KeepMqtt

(***************************************************************************)
(* The HTTP client goes away and the handler is dropped at whatever await  *)
(* it had reached: the statement it waited for may or may not be done, the *)
(* action may or may not have taken effect, and nothing is latched for it. *)
(***************************************************************************)
ClientLeaves(c) ==
    LET i == calls[c].row IN
    /\ c # Bridge
    /\ \/ /\ calls[c].pc = "created"
          /\ tasks' \in {tasks, Claimed(i)} /\ UNCHANGED <<acted, abandoned>>
       \/ /\ calls[c].pc = "executing"
          /\ acted' \in {acted, Act(i)} /\ abandoned' = abandoned \cup {i} /\ UNCHANGED tasks
       \/ /\ calls[c].pc = "finish"
          /\ tasks' \in {tasks, WithStatus(i, calls[c].outcome)}
          /\ abandoned' = abandoned \cup {i} /\ UNCHANGED acted
    /\ calls' = [calls EXCEPT ![c] = Idle]
    /\ UNCHANGED <<taskCrashes, excused>> /\ KeepMqtt

-----------------------------------------------------------------------------
(* The bridge's loop around the calls.  Only polling drains the outbox.    *)

\* Mutant: publish().await instead of try_publish.
PublishReceiptAwaiting ==
    /\ calls[Bridge].pc = "receipt"
    /\ Len(outbox) < QueueCapacity
    /\ outbox' = Append(outbox, "receipt")
    /\ calls' = [calls EXCEPT ![Bridge] = Idle]
    /\ UNCHANGED <<tasks, link, taskCrashes>> /\ KeepHistory

\* try_publish fails at once on a full channel; an executed task then stops the plant.
PublishReceipt ==
    /\ calls[Bridge].pc = "receipt"
    /\ IF Len(outbox) < QueueCapacity
       THEN outbox' = Append(outbox, "receipt") /\ UNCHANGED excused
       ELSE /\ UNCHANGED outbox
            /\ IF calls[Bridge].outcome = "executed" THEN LatchFor(calls[Bridge].row)
                                                     ELSE UNCHANGED excused
    /\ calls' = [calls EXCEPT ![Bridge] = Idle]
    /\ UNCHANGED <<tasks, link, taskCrashes, acted, abandoned>>

\* publish_alert_snapshot on a tick: dropped when the channel is full.
PublishAlert ==
    /\ calls[Bridge].pc = "idle"
    /\ Len(outbox) < QueueCapacity
    /\ outbox' = Append(outbox, "alert")
    /\ UNCHANGED <<tasks, calls, link, taskCrashes>> /\ KeepHistory

\* eventloop.poll() sends what is queued, or finds the link broken or back.
PollOutgoing ==
    /\ calls[Bridge].pc = "idle" /\ link /\ outbox # <<>>
    /\ outbox' = Tail(outbox)
    /\ UNCHANGED <<tasks, calls, link, taskCrashes>> /\ KeepHistory

PollLink ==
    /\ calls[Bridge].pc = "idle"
    /\ link' = ~link
    /\ UNCHANGED <<tasks, calls, outbox, taskCrashes>> /\ KeepHistory

-----------------------------------------------------------------------------
\* The daemon dies and opens its database again; the table is all that survives.
CrashAndOpen ==
    /\ taskCrashes < MaxCrashes
    /\ taskCrashes' = taskCrashes + 1
    /\ tasks' = prepare_integration_task_unique_index(tasks)
    /\ excused' = excused \cup {calls[c].row : c \in {d \in Callers : calls[d].pc = "finish"}}
    /\ calls' = [c \in Callers |-> Idle]
    /\ outbox' = <<>>
    /\ UNCHANGED <<link, acted, abandoned>>

CallStep(c) == MarkExecuting(c) \/ Execute(c) \/ RecordOutcome(c)

TasksNext ==
    \/ \E c \in Callers, ext \in ExternalIds \cup {NoId}, p \in Payloads : CreateTask(c, ext, p)
    \/ \E c \in Callers : CallStep(c) \/ ClientLeaves(c)
    \/ PublishReceipt \/ PublishAlert \/ PollOutgoing \/ PollLink
    \/ CrashAndOpen

TasksSpec == TasksInit /\ [][TasksNext]_taskVars

-----------------------------------------------------------------------------
(* Properties.                                                             *)

(***************************************************************************)
(* However often a task is sent, over whichever replays, crashes and       *)
(* redeliveries, its action takes effect at most once                      *)
(* (execute_integration_task, mark_integration_task_executing).            *)
(***************************************************************************)
TaskActsAtMostOnce ==
    \A i \in Ids :
        /\ acted[i] <= 1
        /\ tasks[i].ext # NoId =>
              \A j \in Ids \ {i} :
                  (tasks[j].ext = tasks[i].ext /\ tasks[j].source = tasks[i].source)
                      => acted[i] = 0 \/ acted[j] = 0

(***************************************************************************)
(* A task whose action took effect shows "executed" in the listing once    *)
(* its call is over, unless a fault latched for it or a crash of the       *)
(* daemon in between explains why it does not.  A task whose HTTP client   *)
(* went away latches nothing, but its row is not given back: it shows that *)
(* the action was begun, and no replay begins it again.  A task of the     *)
(* bridge is never left like that.                                         *)
(***************************************************************************)
EffectIsAccountedFor ==
    \A i \in Ids :
        acted[i] > 0 =>
            \/ i \in Listed(tasks[i].source) /\ tasks[i].status = "executed"
            \/ i \in excused
            \/ /\ i \in abandoned /\ tasks[i].source = "ainas"
               /\ i \in Listed("ainas") /\ tasks[i].status = "executing"
            \/ \E c \in Callers : calls[c].row = i /\ calls[c].pc = "finish"

(***************************************************************************)
(* Every call returns, also with the MQTT channel full and the broker      *)
(* gone: the bridge goes back to polling, which alone drains the channel.  *)
(***************************************************************************)
CallsReturn == \A c \in Callers : calls[c].pc # "idle" ~> calls[c].pc = "idle"
=============================================================================
