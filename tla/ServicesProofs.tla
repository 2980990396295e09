---------------------------- MODULE ServicesProofs ----------------------------
(***************************************************************************)
(* The integration tasks and the component control, for every number of    *)
(* callers, tasks, replays and crashes.                                    *)
(***************************************************************************)
EXTENDS IntegrationTasks, ComponentControl, AuthSessions, FiniteSetTheorems,
        WellFoundedInduction, TLAPS

-----------------------------------------------------------------------------
(* Integration tasks: the inductive invariant.                             *)

CallRecords == [pc : {"idle", "created", "executing", "finish", "receipt"},
                row : 0 .. MaxTasks, outcome : {"none"} \cup Active \cup Terminal]

\* The call is between the row it has been given and the outcome it records there.
Busy(c) == calls[c].pc \in {"created", "executing", "finish"}

\* What a busy call knows of its row.
OnRow(c) ==
    LET i == calls[c].row IN
    /\ i \in Ids /\ tasks[i].valid /\ tasks[i].source = SourceOf(c)
    /\ calls[c].pc = "created" => tasks[i].status = "received"
    /\ calls[c].pc # "created" => tasks[i].status = "executing"
    /\ calls[c].pc # "finish" => acted[i] = 0
    /\ calls[c].pc = "finish" => calls[c].outcome \in Terminal
    /\ calls[c].pc = "finish" /\ acted[i] > 0 => calls[c].outcome = "executed" \/ i \in excused

CallsOnRows == \A c \in Callers : Busy(c) => OnRow(c)

\* The claim keeps everybody else away from the row.
OneCallPerTask ==
    \A c, d \in Callers : Busy(c) /\ Busy(d) /\ calls[c].row = calls[d].row => c = d

\* A row that is still to be claimed has had no effect, and no row has had two.
ActedOnce ==
    \A i \in 1 .. MaxTasks :
        /\ acted[i] <= 1
        /\ i \notin Ids => acted[i] = 0
        /\ i \in Ids /\ tasks[i].status = "received" => acted[i] = 0

SameKey(i, j) == tasks[j].ext = tasks[i].ext /\ tasks[j].source = tasks[i].source

Earliest(i) == tasks[i].ext # NoId => \A j \in Ids : j < i => ~SameKey(i, j)

\* Of the rows that share an external id only the earliest is ever worked on.
EarliestActs ==
    \A i \in Ids :
        acted[i] > 0 \/ (\E c \in Callers : Busy(c) /\ calls[c].row = i) => Earliest(i)

TasksInv ==
    /\ CallsOnRows /\ OneCallPerTask /\ ActedOnce /\ EarliestActs
    /\ EffectIsAccountedFor

-----------------------------------------------------------------------------
(* Types.                                                                  *)

Calls == [Callers -> CallRecords]

\* A table of rows, and the positions in it.
LEMMA TableFacts ==
  ASSUME TasksTypeOK
  PROVE  /\ Len(tasks) \in Nat /\ DOMAIN tasks = Ids
         /\ \A i \in Ids : i \in 1 .. MaxTasks /\ tasks[i] \in TaskRows
         /\ calls \in Calls
         /\ acted \in [1 .. MaxTasks -> 0 .. 2]
  BY TaskConstants DEF TasksTypeOK, Ids, Calls, CallRecords

\* What the two ways to end a call, and the others, do to the table of calls.
LEMMA CallFields ==
  ASSUME TasksTypeOK, NEW c \in Callers
  PROVE  /\ \A r \in CallRecords :
              calls' = [calls EXCEPT ![c] = r] =>
                /\ calls' \in Calls /\ calls'[c] = r
                /\ \A d \in Callers : d # c => calls'[d] = calls[d]
         /\ \A o \in {"none"} \cup Active \cup Terminal :
              \A i \in 0 .. MaxTasks : Return(c, i, o) =>
                /\ calls' \in Calls /\ calls'[c].pc \in {"idle", "receipt"}
                /\ calls'[c].pc = "receipt" => calls'[c].row = i
                /\ \A d \in Callers : d # c => calls'[d] = calls[d]
         /\ \A pc \in {"executing"} :
              calls' = [calls EXCEPT ![c].pc = pc] =>
                /\ calls' \in Calls
                /\ calls'[c].pc = pc /\ calls'[c].row = calls[c].row
                /\ \A d \in Callers : d # c => calls'[d] = calls[d]
         /\ \A o \in Active \cup Terminal :
              calls' = [calls EXCEPT ![c].pc = "finish", ![c].outcome = o] =>
                /\ calls' \in Calls
                /\ calls'[c].pc = "finish" /\ calls'[c].row = calls[c].row
                /\ calls'[c].outcome = o
                /\ \A d \in Callers : d # c => calls'[d] = calls[d]
<1>1. calls \in Calls /\ calls[c] \in CallRecords
  BY TableFacts DEF Calls
<1>2. Idle \in CallRecords /\ Idle.pc = "idle"
  BY TaskConstants DEF Idle, CallRecords
<1>3. \A r \in CallRecords :
        calls' = [calls EXCEPT ![c] = r] =>
          /\ calls' \in Calls /\ calls'[c] = r
          /\ \A d \in Callers : d # c => calls'[d] = calls[d]
  BY <1>1 DEF Calls
<1>4. ASSUME NEW o \in {"none"} \cup Active \cup Terminal, NEW i \in 0 .. MaxTasks, Return(c, i, o)
      PROVE  /\ calls' \in Calls /\ calls'[c].pc \in {"idle", "receipt"}
             /\ calls'[c].pc = "receipt" => calls'[c].row = i
             /\ \A d \in Callers : d # c => calls'[d] = calls[d]
  <2> DEFINE r == IF c = Bridge THEN [pc |-> "receipt", row |-> i, outcome |-> o] ELSE Idle
  <2>1. r \in CallRecords /\ r.pc \in {"idle", "receipt"} /\ (r.pc = "receipt" => r.row = i)
    BY <1>1, <1>2 DEF CallRecords
  <2>2. calls' = [calls EXCEPT ![c] = r]
    BY <1>4 DEF Return
  <2> HIDE DEF r
  <2> QED
    BY <1>3, <2>1, <2>2
<1>5. ASSUME NEW pc \in {"executing"}, calls' = [calls EXCEPT ![c].pc = pc]
      PROVE  /\ calls' \in Calls
             /\ calls'[c].pc = pc /\ calls'[c].row = calls[c].row
             /\ \A d \in Callers : d # c => calls'[d] = calls[d]
  <2> DEFINE r == [calls[c] EXCEPT !.pc = pc]
  <2>1. r \in CallRecords /\ r.pc = pc /\ r.row = calls[c].row
    BY <1>1 DEF CallRecords
  <2>2. calls' = [calls EXCEPT ![c] = r]
    BY <1>1, <1>5 DEF Calls
  <2> HIDE DEF r
  <2> QED
    BY <1>3, <2>1, <2>2
<1>6. ASSUME NEW o \in Active \cup Terminal,
             calls' = [calls EXCEPT ![c].pc = "finish", ![c].outcome = o]
      PROVE  /\ calls' \in Calls
             /\ calls'[c].pc = "finish" /\ calls'[c].row = calls[c].row
             /\ calls'[c].outcome = o
             /\ \A d \in Callers : d # c => calls'[d] = calls[d]
  <2> DEFINE r == [calls[c] EXCEPT !.pc = "finish", !.outcome = o]
  <2>1. r \in CallRecords /\ r.pc = "finish" /\ r.row = calls[c].row /\ r.outcome = o
    BY <1>1 DEF CallRecords
  <2>2. calls' = [calls EXCEPT ![c] = r]
    BY <1>1, <1>6 DEF Calls
  <2> HIDE DEF r
  <2> QED
    BY <1>3, <2>1, <2>2
<1> QED
  BY <1>3, <1>4, <1>5, <1>6

\* The table after the claim of a row, after its outcome, after a new row and after a restart.
LEMMA TableFields ==
  ASSUME TasksTypeOK
  PROVE  /\ \A i \in Ids, st \in Active \cup Terminal :
              tasks' = [tasks EXCEPT ![i].status = st] =>
                /\ tasks' \in Seq(TaskRows) /\ Len(tasks') = Len(tasks)
                /\ tasks'[i].status = st
                /\ tasks'[i].ext = tasks[i].ext /\ tasks'[i].source = tasks[i].source
                /\ tasks'[i].valid = tasks[i].valid
                /\ \A j \in Ids : j # i => tasks'[j] = tasks[j]
         /\ \A r \in TaskRows :
              tasks' = Append(tasks, r) =>
                /\ tasks' \in Seq(TaskRows) /\ Len(tasks') = Len(tasks) + 1
                /\ tasks'[Len(tasks) + 1] = r
                /\ \A j \in Ids : tasks'[j] = tasks[j]
<1>1. tasks \in Seq(TaskRows) /\ Len(tasks) \in Nat
  BY DEF TasksTypeOK
<1>2. ASSUME NEW i \in Ids, NEW st \in Active \cup Terminal,
             tasks' = [tasks EXCEPT ![i].status = st]
      PROVE  /\ tasks' \in Seq(TaskRows) /\ Len(tasks') = Len(tasks)
             /\ tasks'[i].status = st
             /\ tasks'[i].ext = tasks[i].ext /\ tasks'[i].source = tasks[i].source
             /\ tasks'[i].valid = tasks[i].valid
             /\ \A j \in Ids : j # i => tasks'[j] = tasks[j]
  <2> DEFINE r == [tasks[i] EXCEPT !.status = st]
  <2>1. tasks[i] \in TaskRows
    BY <1>1 DEF Ids
  <2>2. /\ r \in TaskRows /\ r.status = st /\ r.ext = tasks[i].ext
        /\ r.source = tasks[i].source /\ r.valid = tasks[i].valid
    BY <2>1 DEF TaskRows
  <2>3. tasks' = [tasks EXCEPT ![i] = r]
    BY <1>1, <1>2 DEF Ids
  <2> HIDE DEF r
  <2> QED
    BY <1>1, <2>2, <2>3 DEF Ids
<1>3. ASSUME NEW r \in TaskRows, tasks' = Append(tasks, r)
      PROVE  /\ tasks' \in Seq(TaskRows) /\ Len(tasks') = Len(tasks) + 1
             /\ tasks'[Len(tasks) + 1] = r
             /\ \A j \in Ids : tasks'[j] = tasks[j]
  BY <1>1, <1>3 DEF Ids
<1> QED
  BY <1>2, <1>3

\* Opening the database may take an external id from a row and changes nothing else.
LEMMA PrepareFields ==
  ASSUME NEW t \in Seq(TaskRows)
  PROVE  LET p == prepare_integration_task_unique_index(t) IN
         /\ p \in Seq(TaskRows) /\ Len(p) = Len(t)
         /\ \A i \in 1 .. Len(t) :
              /\ p[i].status = t[i].status /\ p[i].source = t[i].source /\ p[i].valid = t[i].valid
              /\ p[i].ext \in {t[i].ext, NoId}
<1> DEFINE p == prepare_integration_task_unique_index(t)
<1>1. DOMAIN t = 1 .. Len(t) /\ Len(t) \in Nat /\ \A i \in 1 .. Len(t) : t[i] \in TaskRows
  OBVIOUS
<1>2. ASSUME NEW r \in TaskRows, NEW q, q = [r EXCEPT !.ext = NoId]
      PROVE  /\ q \in TaskRows /\ q.status = r.status /\ q.source = r.source
             /\ q.valid = r.valid /\ q.ext = NoId
  BY <1>2 DEF TaskRows
<1>3. p = [i \in 1 .. Len(t) |->
             IF \E j \in 1 .. (i - 1) : SameActiveKey(t, i, j)
             THEN [t[i] EXCEPT !.ext = NoId] ELSE t[i]]
  BY <1>1 DEF prepare_integration_task_unique_index
<1>4. \A i \in 1 .. Len(t) : p[i] = [t[i] EXCEPT !.ext = NoId] \/ p[i] = t[i]
  BY <1>3
<1>5. \A i \in 1 .. Len(t) :
        /\ p[i] \in TaskRows
        /\ p[i].status = t[i].status /\ p[i].source = t[i].source /\ p[i].valid = t[i].valid
        /\ p[i].ext \in {t[i].ext, NoId}
  <2> HIDE DEF p
  <2> TAKE i \in 1 .. Len(t)
  <2>1. t[i] \in TaskRows
    BY <1>1
  <2>2. CASE p[i] = t[i]
    BY <2>1, <2>2
  <2>3. CASE p[i] = [t[i] EXCEPT !.ext = NoId]
    BY <1>2, <2>1, <2>3
  <2> QED
    BY <1>4, <2>2, <2>3
<1>6. DOMAIN p = 1 .. Len(t)
  BY <1>3
<1>7. p \in [1 .. Len(t) -> TaskRows]
  BY <1>3, <1>5
<1> HIDE DEF p
<1>8. p \in Seq(TaskRows) /\ Len(p) = Len(t)
  BY <1>1, <1>6, <1>7
<1> QED
  BY <1>5, <1>8 DEF p

\* A set of naturals has a least element.
LEMMA LeastElement ==
  ASSUME NEW S \in SUBSET Nat, S # {}
  PROVE  \E x \in S : \A y \in S : x <= y
<1> DEFINE R == {ss \in Nat \X Nat : ss[1] < ss[2]}
<1>1. IsWellFoundedOn(R, Nat)
  BY NatLessThanWellFounded DEF OpToRel
<1> HIDE DEF R
<1>2. \E x \in S : \A y \in S : ~(<<y, x>> \in R)
  BY <1>1, WFMin, Zenon
<1>3. ASSUME NEW x \in S, NEW y \in S, ~(<<y, x>> \in R)
      PROVE  x <= y
  BY <1>3 DEF R
<1> QED
  BY <1>2, <1>3

\* The row a repeated id is answered from is the earliest one, and an id is new if no row has it.
LEMMA LookupFacts ==
  ASSUME TasksTypeOK, NEW source, NEW ext
  PROVE  /\ \A i \in ByExternalId(source, ext) :
              /\ ext # NoId /\ i \in Ids /\ tasks[i].source = source /\ tasks[i].ext = ext
              /\ Earliest(i)
         /\ ByExternalId(source, ext) = {} /\ ext # NoId =>
              \A j \in Ids : ~(tasks[j].source = source /\ tasks[j].ext = ext)
<1> DEFINE found == {i \in Ids : tasks[i].source = source /\ tasks[i].ext = ext}
<1> DEFINE least == CHOOSE i \in found : \A j \in found : i <= j
<1>1. found \in SUBSET Nat
  BY TableFacts DEF Ids
<1>2. ByExternalId(source, ext) = IF ext = NoId \/ found = {} THEN {} ELSE {least}
  BY DEF ByExternalId
<1>3. ASSUME found # {}
      PROVE  least \in found /\ \A j \in found : least <= j
  <2> HIDE DEF found
  <2>1. \E i \in found : \A j \in found : i <= j
    BY <1>1, <1>3, LeastElement
  <2> QED
    BY <2>1
<1>4. ASSUME NEW i \in ByExternalId(source, ext)
      PROVE  /\ ext # NoId /\ i \in Ids /\ tasks[i].source = source /\ tasks[i].ext = ext
             /\ Earliest(i)
  <2>1. ext # NoId /\ found # {} /\ i = least
    BY <1>2, <1>4
  <2> HIDE DEF least
  <2>2. i \in found /\ \A j \in found : i <= j
    BY <1>3, <2>1
  <2>3. i \in Nat /\ \A j \in Ids : j \in Nat
    BY <1>1, <2>2, TableFacts DEF Ids
  <2> QED
    BY <2>1, <2>2, <2>3 DEF Earliest, SameKey
<1>5. ASSUME ByExternalId(source, ext) = {}, ext # NoId
      PROVE  \A j \in Ids : ~(tasks[j].source = source /\ tasks[j].ext = ext)
  BY <1>2, <1>5
<1> QED
  BY <1>4, <1>5

\* What a call's row and outcome are good for, whatever the replays.
CallsHaveRows ==
    \A c \in Callers : calls[c].pc # "idle" =>
        /\ calls[c].row \in Ids
        /\ calls[c].pc = "finish" => calls[c].outcome \in Terminal

\* A new row has the type of the table.
LEMMA NewRow ==
  ASSUME NEW c \in Callers, NEW ext \in ExternalIds \cup {NoId}, NEW p \in Payloads
  PROVE  Row(SourceOf(c), ext, Request(p), "received") \in TaskRows
  BY DEF Row, SourceOf, TaskRows, Active

\* A row update that is done or not: nothing but the status of its row may be another.
LEMMA StatusFields ==
  ASSUME TasksTypeOK, NEW i \in Ids, NEW st \in Active \cup Terminal,
         tasks' \in {tasks, WithStatus(i, st)}
  PROVE  /\ tasks' \in Seq(TaskRows) /\ Len(tasks') = Len(tasks)
         /\ tasks'[i].status \in {tasks[i].status, st}
         /\ tasks' # tasks => tasks'[i].status = st
         /\ tasks'[i].ext = tasks[i].ext /\ tasks'[i].source = tasks[i].source
         /\ tasks'[i].valid = tasks[i].valid
         /\ \A j \in Ids : j # i => tasks'[j] = tasks[j]
<1>1. CASE tasks' = tasks
  BY <1>1 DEF TasksTypeOK
<1>2. CASE tasks' = [tasks EXCEPT ![i].status = st]
  BY <1>2, TableFields
<1> QED
  BY <1>1, <1>2 DEF WithStatus

\* The types after a step of one call.
LEMMA OneCallTypes ==
  ASSUME TasksTypeOK, CallsHaveRows, NEW c \in Callers,
         tasks' \in Seq(TaskRows), Len(tasks') <= MaxTasks, Len(tasks) <= Len(tasks'),
         calls' \in Calls, \A d \in Callers : d # c => calls'[d] = calls[d],
         calls'[c].pc # "idle" =>
            /\ calls'[c].row \in 1 .. Len(tasks')
            /\ calls'[c].pc = "finish" => calls'[c].outcome \in Terminal,
         acted' \in [1 .. MaxTasks -> 0 .. 2],
         excused' \subseteq 1 .. MaxTasks, abandoned' \subseteq 1 .. MaxTasks,
         UNCHANGED <<link, taskCrashes>>,
         outbox' \in Seq({"receipt", "alert"}), Len(outbox') <= QueueCapacity
  PROVE  TasksTypeOK' /\ CallsHaveRows'
<1>1. Len(tasks) \in Nat /\ Len(tasks') \in Nat
  BY TableFacts
<1>2. TasksTypeOK'
  BY DEF TasksTypeOK, Calls, CallRecords
<1>3. ASSUME NEW d \in Callers, calls'[d].pc # "idle"
      PROVE  /\ calls'[d].row \in Ids'
             /\ calls'[d].pc = "finish" => calls'[d].outcome \in Terminal
  <2>1. CASE d = c
    BY <1>3, <2>1 DEF Ids
  <2>2. CASE d # c
    <3>1. calls[d].pc # "idle" /\ calls'[d] = calls[d]
      BY <1>3, <2>2
    <3>2. calls[d].row \in 1 .. Len(tasks) /\ (calls[d].pc = "finish" => calls[d].outcome \in Terminal)
      BY <3>1 DEF CallsHaveRows, Ids
    <3> QED
      BY <1>1, <3>1, <3>2 DEF Ids
  <2> QED
    BY <2>1, <2>2
<1> QED
  BY <1>2, <1>3 DEF CallsHaveRows

\* The types of a recorded, a claimed, an executed and a settled task.
LEMMA CreateTypes ==
  ASSUME TasksTypeOK, CallsHaveRows, NEW c \in Callers,
         NEW ext \in ExternalIds \cup {NoId}, NEW p \in Payloads, CreateTask(c, ext, p)
  PROVE  TasksTypeOK' /\ CallsHaveRows'
<1>0. /\ tasks \in Seq(TaskRows) /\ Len(tasks) \in Nat /\ Len(tasks) <= MaxTasks
      /\ MaxTasks \in Nat /\ calls \in Calls
  BY TableFacts, TaskConstants DEF TasksTypeOK
<1>1. /\ acted' \in [1 .. MaxTasks -> 0 .. 2] /\ excused' \subseteq 1 .. MaxTasks
      /\ abandoned' \subseteq 1 .. MaxTasks /\ UNCHANGED <<link, taskCrashes>>
      /\ outbox' \in Seq({"receipt", "alert"}) /\ Len(outbox') <= QueueCapacity
  BY DEF CreateTask, KeepMqtt, KeepHistory, TasksTypeOK
<1>2. ASSUME NEW i \in ByExternalId(SourceOf(c), ext), Found(c, ext, p, i)
      PROVE  TasksTypeOK' /\ CallsHaveRows'
  <2>1. i \in 1 .. Len(tasks) /\ tasks[i] \in TaskRows
    BY LookupFacts, TableFacts DEF Ids
  <2>2. tasks[i].status \in Active \cup Terminal
    BY <2>1 DEF TaskRows
  <2>3. ASSUME NEW o \in {"none"} \cup Active \cup Terminal, Return(c, i, o)
        PROVE  TasksTypeOK' /\ CallsHaveRows'
    <3>0. i \in 0 .. MaxTasks
      BY <1>0, <2>1
    <3>1. /\ calls' \in Calls /\ calls'[c].pc \in {"idle", "receipt"}
          /\ calls'[c].pc = "receipt" => calls'[c].row = i
          /\ \A d \in Callers : d # c => calls'[d] = calls[d]
      BY <2>3, <3>0, CallFields
    <3>2. tasks' = tasks
      BY <1>2 DEF Found
    <3> QED
      BY <1>0, <1>1, <2>1, <3>1, <3>2, OneCallTypes
  <2> DEFINE r == [pc |-> "created", row |-> i, outcome |-> "none"]
  <2>4. CASE calls' = [calls EXCEPT ![c] = r]
    <3>1. r \in CallRecords
      BY <1>0, <2>1 DEF CallRecords
    <3>2. r.pc = "created" /\ r.row = i
      OBVIOUS
    <3> HIDE DEF r
    <3>3. calls' \in Calls /\ calls'[c] = r /\ \A d \in Callers : d # c => calls'[d] = calls[d]
      BY <2>4, <3>1, CallFields
    <3> QED
      BY <1>0, <1>1, <1>2, <2>1, <3>2, <3>3, OneCallTypes DEF Found
  <2>5. "failed" \in Terminal /\ "rejected" \in Terminal
    BY DEF Terminal
  <2> QED
    BY <1>2, <2>2, <2>3, <2>4, <2>5 DEF Found
<1>3. ASSUME Len(tasks) < MaxTasks,
             tasks' = Append(tasks, Row(SourceOf(c), ext, Request(p), "received")),
             calls' = [calls EXCEPT ![c] =
                          [pc |-> "created", row |-> Len(tasks) + 1, outcome |-> "none"]]
      PROVE  TasksTypeOK' /\ CallsHaveRows'
  <2> DEFINE r == [pc |-> "created", row |-> Len(tasks) + 1, outcome |-> "none"]
  <2>1. tasks' \in Seq(TaskRows) /\ Len(tasks') = Len(tasks) + 1
    BY <1>3, NewRow, TableFields
  <2>2. r \in CallRecords
    BY <1>0, <1>3 DEF CallRecords
  <2>3. r.pc = "created" /\ r.row = Len(tasks) + 1
    OBVIOUS
  <2>4. calls' = [calls EXCEPT ![c] = r]
    BY <1>3
  <2> HIDE DEF r
  <2>5. calls' \in Calls /\ calls'[c] = r /\ \A d \in Callers : d # c => calls'[d] = calls[d]
    BY <2>2, <2>4, CallFields
  <2>6. /\ Len(tasks') <= MaxTasks /\ Len(tasks) <= Len(tasks')
        /\ calls'[c].row \in 1 .. Len(tasks') /\ calls'[c].pc = "created"
    BY <1>0, <1>3, <2>1, <2>3, <2>5
  <2> QED
    BY <1>1, <2>1, <2>5, <2>6, OneCallTypes
<1> QED
  BY <1>2, <1>3 DEF CreateTask

\* A step of a call keeps the types, and its row stays in the table.
LEMMA CallStepTypes ==
  ASSUME TasksTypeOK, CallsHaveRows, NEW c \in Callers, CallStep(c) \/ ClientLeaves(c)
  PROVE  TasksTypeOK' /\ CallsHaveRows'
<1> DEFINE i == calls[c].row
<1>0. /\ tasks \in Seq(TaskRows) /\ Len(tasks) \in Nat /\ Len(tasks) <= MaxTasks
      /\ MaxTasks \in Nat /\ calls \in Calls
  BY TableFacts, TaskConstants DEF TasksTypeOK
<1>1. /\ i \in Ids /\ (calls[c].pc = "finish" => calls[c].outcome \in Terminal)
      /\ calls[c].pc \in {"created", "executing", "finish"}
  BY DEF CallStep, MarkExecuting, Execute, RecordOutcome, ClientLeaves, CallsHaveRows
<1>2. /\ tasks[i] \in TaskRows /\ i \in 1 .. MaxTasks /\ i \in 1 .. Len(tasks)
      /\ tasks[i].status \in Active \cup Terminal
  <2>1. tasks[i] \in TaskRows /\ i \in 1 .. MaxTasks /\ i \in 1 .. Len(tasks)
    BY <1>1, TableFacts DEF Ids
  <2> QED
    BY <2>1 DEF TaskRows
<1>3. /\ UNCHANGED <<link, taskCrashes>>
      /\ outbox' \in Seq({"receipt", "alert"}) /\ Len(outbox') <= QueueCapacity
  BY DEF CallStep, MarkExecuting, Execute, RecordOutcome, ClientLeaves, KeepMqtt, TasksTypeOK
<1>4. excused' \subseteq 1 .. MaxTasks /\ abandoned' \subseteq 1 .. MaxTasks
  BY <1>2 DEF CallStep, MarkExecuting, Execute, RecordOutcome, ClientLeaves, KeepHistory, LatchFor,
              TasksTypeOK
<1>5. acted' \in [1 .. MaxTasks -> 0 .. 2]
  <2>1. acted \in [1 .. MaxTasks -> 0 .. 2] /\ acted[i] \in 0 .. 2
    BY <1>2 DEF TasksTypeOK
  <2>2. Act(i) \in [1 .. MaxTasks -> 0 .. 2]
    BY <1>2, <2>1 DEF Act
  <2>3. acted' \in {acted, Act(i)}
    BY DEF CallStep, MarkExecuting, Execute, RecordOutcome, ClientLeaves, KeepHistory
  <2> QED
    BY <2>1, <2>2, <2>3
<1>6. /\ "failed" \in Terminal /\ "executing" \in Active
      /\ Claimed(i) \in {tasks, WithStatus(i, "executing")}
  BY DEF Terminal, Active, Claimed
<1> HIDE DEF i
<1>7. ASSUME NEW o \in {"none"} \cup Active \cup Terminal, Return(c, i, o),
             tasks' \in Seq(TaskRows), Len(tasks') = Len(tasks)
      PROVE  TasksTypeOK' /\ CallsHaveRows'
  <2>0. i \in 0 .. MaxTasks
    BY <1>0, <1>2
  <2>1. /\ calls' \in Calls /\ calls'[c].pc \in {"idle", "receipt"}
        /\ calls'[c].pc = "receipt" => calls'[c].row = i
        /\ \A d \in Callers : d # c => calls'[d] = calls[d]
    BY <1>7, <2>0, CallFields
  <2>2. /\ Len(tasks') <= MaxTasks /\ Len(tasks) <= Len(tasks')
        /\ calls'[c].pc # "idle" =>
              calls'[c].row \in 1 .. Len(tasks') /\ calls'[c].pc # "finish"
    BY <1>0, <1>2, <1>7, <2>1
  <2> QED
    BY <1>3, <1>4, <1>5, <1>7, <2>1, <2>2, OneCallTypes
<1>8. CASE MarkExecuting(c)
  <2>1. tasks' \in {tasks, WithStatus(i, "executing")}
    BY <1>6, <1>8 DEF MarkExecuting, i
  <2>2. tasks' \in Seq(TaskRows) /\ Len(tasks') = Len(tasks)
    BY <1>1, <1>6, <2>1, StatusFields
  <2>3. CASE calls' = [calls EXCEPT ![c].pc = "executing"]
    <3>1. /\ calls' \in Calls /\ calls'[c].pc = "executing" /\ calls'[c].row = i
          /\ \A d \in Callers : d # c => calls'[d] = calls[d]
      BY <2>3, CallFields DEF i
    <3>2. /\ Len(tasks') <= MaxTasks /\ Len(tasks) <= Len(tasks')
          /\ calls'[c].row \in 1 .. Len(tasks') /\ calls'[c].pc # "finish"
      BY <1>0, <1>2, <2>2, <3>1
    <3> QED
      BY <1>3, <1>4, <1>5, <2>2, <3>1, <3>2, OneCallTypes
  <2>4. CASE \E o \in {tasks[i].status, "failed"} : Return(c, i, o)
    BY <1>2, <1>6, <1>7, <2>2, <2>4
  <2> QED
    BY <1>8, <2>3, <2>4 DEF MarkExecuting, i
<1>9. CASE Execute(c)
  <2>1. PICK r \in ActionResults(tasks[i].request.action) :
           calls' = [calls EXCEPT ![c].pc = "finish", ![c].outcome = r.outcome]
    BY <1>9 DEF Execute, i
  <2>2. r.outcome \in Terminal
    BY DEF ActionResults, Terminal
  <2>3. /\ calls' \in Calls /\ calls'[c].pc = "finish" /\ calls'[c].row = i
        /\ calls'[c].outcome \in Terminal
        /\ \A d \in Callers : d # c => calls'[d] = calls[d]
    BY <2>1, <2>2, CallFields DEF i
  <2>4. tasks' = tasks
    BY <1>9 DEF Execute
  <2>5. /\ tasks' \in Seq(TaskRows) /\ Len(tasks') <= MaxTasks /\ Len(tasks) <= Len(tasks')
        /\ calls'[c].row \in 1 .. Len(tasks')
    BY <1>0, <1>2, <2>3, <2>4
  <2> QED
    BY <1>3, <1>4, <1>5, <2>3, <2>5, OneCallTypes
<1>10. CASE RecordOutcome(c)
  <2>1. calls[c].outcome \in Active \cup Terminal
    BY <1>1, <1>10 DEF RecordOutcome
  <2>2. tasks' \in {tasks, WithStatus(i, calls[c].outcome)}
    BY <1>10 DEF RecordOutcome, i
  <2>3. tasks' \in Seq(TaskRows) /\ Len(tasks') = Len(tasks)
    BY <1>1, <2>1, <2>2, StatusFields
  <2>4. \E o \in {calls[c].outcome, "failed"} : Return(c, i, o)
    BY <1>10 DEF RecordOutcome, i
  <2> QED
    BY <1>6, <1>7, <2>1, <2>3, <2>4
<1>11. CASE ClientLeaves(c)
  <2>1. tasks' \in Seq(TaskRows) /\ Len(tasks') = Len(tasks)
    <3>1. CASE calls[c].pc = "created"
      <4>1. tasks' \in {tasks, WithStatus(i, "executing")}
        BY <1>6, <1>11, <3>1 DEF ClientLeaves, i
      <4> QED
        BY <1>1, <1>6, <4>1, StatusFields
    <3>2. CASE calls[c].pc = "executing"
      BY <1>0, <1>11, <3>2 DEF ClientLeaves
    <3>3. CASE calls[c].pc = "finish"
      <4>1. tasks' \in {tasks, WithStatus(i, calls[c].outcome)}
        BY <1>11, <3>3 DEF ClientLeaves, i
      <4> QED
        BY <1>1, <3>3, <4>1, StatusFields
    <3> QED
      BY <1>1, <3>1, <3>2, <3>3
  <2>2. Idle \in CallRecords /\ Idle.pc = "idle"
    BY <1>0 DEF Idle, CallRecords
  <2>3. /\ calls' \in Calls /\ calls'[c] = Idle
        /\ \A d \in Callers : d # c => calls'[d] = calls[d]
    BY <1>11, <2>2, CallFields DEF ClientLeaves
  <2> QED
    BY <1>0, <1>3, <1>4, <1>5, <2>1, <2>2, <2>3, OneCallTypes
<1> QED
  BY <1>8, <1>9, <1>10, <1>11 DEF CallStep

\* The bridge's loop keeps the types.
LEMMA BridgeTypes ==
  ASSUME TasksTypeOK, CallsHaveRows,
         \/ PublishReceipt \/ PublishAlert \/ PollOutgoing \/ PollLink
  PROVE  /\ TasksTypeOK' /\ CallsHaveRows'
         /\ UNCHANGED <<tasks, acted, abandoned>> /\ excused \subseteq excused'
         /\ \A d \in Callers : calls'[d] = calls[d] \/ (~Busy(d) /\ ~Busy(d)')
<1> USE TaskConstants
<1>0. Bridge \in Callers /\ calls \in Calls
  BY TableFacts DEF Callers
<1>1. UNCHANGED <<tasks, acted, abandoned, taskCrashes>>
  BY DEF PublishReceipt, PublishAlert, PollOutgoing, PollLink, KeepHistory
<1>2. CASE PublishAlert \/ PollOutgoing \/ PollLink
  <2>0. UNCHANGED <<calls, excused>>
    BY <1>2 DEF PublishAlert, PollOutgoing, PollLink, KeepHistory
  <2>1. /\ outbox' \in Seq({"receipt", "alert"}) /\ Len(outbox') <= QueueCapacity
        /\ link' \in BOOLEAN
    <3>1. outbox \in Seq({"receipt", "alert"}) /\ Len(outbox) <= QueueCapacity /\ Len(outbox) \in Nat
      BY DEF TasksTypeOK
    <3>3. CASE PublishAlert
      BY <3>1, <3>3 DEF PublishAlert, TasksTypeOK
    <3>4. CASE PollOutgoing
      BY <3>1, <3>4 DEF PollOutgoing, TasksTypeOK
    <3>5. CASE PollLink
      BY <3>1, <3>5 DEF PollLink, TasksTypeOK
    <3> QED
      BY <1>2, <3>3, <3>4, <3>5
  <2>2. TasksTypeOK'
    BY <1>1, <2>0, <2>1 DEF TasksTypeOK
  <2>3. CallsHaveRows'
    BY <1>1, <2>0 DEF CallsHaveRows, Ids
  <2> QED
    BY <1>1, <2>0, <2>2, <2>3
<1>3. CASE PublishReceipt
  <2>1. outbox' \in Seq({"receipt", "alert"}) /\ Len(outbox') <= QueueCapacity
    <3>1. outbox \in Seq({"receipt", "alert"}) /\ Len(outbox) <= QueueCapacity /\ Len(outbox) \in Nat
      BY DEF TasksTypeOK
    <3>2. CASE Len(outbox) < QueueCapacity
      <4>1. outbox' = Append(outbox, "receipt")
        BY <1>3, <3>2 DEF PublishReceipt
      <4>2. outbox' \in Seq({"receipt", "alert"}) /\ Len(outbox') = Len(outbox) + 1
        BY <3>1, <4>1
      <4> QED
        BY <3>1, <3>2, <4>2
    <3>3. CASE ~(Len(outbox) < QueueCapacity)
      BY <1>3, <3>1, <3>3 DEF PublishReceipt
    <3> QED
      BY <3>2, <3>3
  <2>2. UNCHANGED link /\ excused \subseteq excused' /\ excused' \subseteq 1 .. MaxTasks
    <3>1. calls[Bridge].row \in 1 .. MaxTasks
      BY <1>0, <1>3, TableFacts DEF PublishReceipt, CallsHaveRows
    <3> QED
      BY <1>3, <3>1 DEF PublishReceipt, LatchFor, TasksTypeOK
  <2>3. Idle \in CallRecords /\ Idle.pc = "idle"
    BY DEF Idle, CallRecords
  <2>4. /\ calls' \in Calls /\ calls'[Bridge] = Idle
        /\ \A d \in Callers : d # Bridge => calls'[d] = calls[d]
    BY <1>0, <1>3, <2>3, CallFields DEF PublishReceipt
  <2>5. ~Busy(Bridge) /\ ~Busy(Bridge)'
    BY <1>3, <2>3, <2>4 DEF Busy, PublishReceipt
  <2>6. TasksTypeOK' /\ CallsHaveRows'
    <3>1. /\ tasks' \in Seq(TaskRows) /\ Len(tasks') <= MaxTasks /\ Len(tasks) <= Len(tasks')
          /\ acted' \in [1 .. MaxTasks -> 0 .. 2] /\ abandoned' \subseteq 1 .. MaxTasks
          /\ UNCHANGED <<link, taskCrashes>>
      BY <1>1, <2>2, TableFacts DEF TasksTypeOK
    <3>2. calls'[Bridge].pc = "idle"
      BY <2>3, <2>4
    <3> QED
      BY <1>0, <2>1, <2>2, <2>4, <3>1, <3>2, OneCallTypes
  <2> QED
    BY <1>1, <2>2, <2>4, <2>5, <2>6
<1> QED
  BY <1>2, <1>3

\* After a restart no call is left, and the table is the old one but for its ids.
LEMMA CrashFields ==
  ASSUME TasksTypeOK, CallsHaveRows, CrashAndOpen
  PROVE  /\ TasksTypeOK' /\ CallsHaveRows' /\ Len(tasks') = Len(tasks)
         /\ \A d \in Callers : ~Busy(d)'
         /\ \A i \in Ids :
              /\ tasks'[i].status = tasks[i].status /\ tasks'[i].source = tasks[i].source
              /\ tasks'[i].valid = tasks[i].valid /\ tasks'[i].ext \in {tasks[i].ext, NoId}
<1> USE TaskConstants
<1>1. Idle \in CallRecords /\ Idle.pc = "idle"
  BY DEF Idle, CallRecords
<1>2. calls' \in Calls /\ \A d \in Callers : calls'[d] = Idle
  BY <1>1 DEF CrashAndOpen, Calls
<1>3. /\ tasks' \in Seq(TaskRows) /\ Len(tasks') = Len(tasks)
      /\ \A i \in Ids :
           /\ tasks'[i].status = tasks[i].status /\ tasks'[i].source = tasks[i].source
           /\ tasks'[i].valid = tasks[i].valid /\ tasks'[i].ext \in {tasks[i].ext, NoId}
  BY PrepareFields DEF CrashAndOpen, TasksTypeOK, Ids
<1>4. excused' \subseteq 1 .. MaxTasks /\ abandoned' \subseteq 1 .. MaxTasks
  <2>1. \A d \in Callers : calls[d].pc = "finish" => calls[d].row \in 1 .. MaxTasks
    BY TableFacts DEF CallsHaveRows
  <2> QED
    BY <2>1 DEF CrashAndOpen, TasksTypeOK
<1>5. /\ outbox' \in Seq({"receipt", "alert"}) /\ Len(outbox') <= QueueCapacity
      /\ link' \in BOOLEAN /\ taskCrashes' \in 0 .. MaxCrashes
      /\ acted' \in [1 .. MaxTasks -> 0 .. 2]
  <2>1. outbox' = <<>>
    BY DEF CrashAndOpen
  <2>2. outbox' \in Seq({"receipt", "alert"}) /\ Len(outbox') <= QueueCapacity
    BY <2>1
  <2>3. taskCrashes' \in 0 .. MaxCrashes
    BY DEF CrashAndOpen, TasksTypeOK
  <2> QED
    BY <2>2, <2>3 DEF CrashAndOpen, TasksTypeOK
<1>6. TasksTypeOK'
  BY <1>2, <1>3, <1>4, <1>5 DEF TasksTypeOK, Calls, CallRecords
<1> QED
  BY <1>1, <1>2, <1>3, <1>6 DEF Busy, CallsHaveRows

\* The initial table is a legacy one, opened.
LEMMA TasksInitial ==
  ASSUME TasksInit
  PROVE  TasksTypeOK /\ CallsHaveRows /\ TasksInv
<1> USE TaskConstants
<1>1. Idle \in CallRecords /\ Idle.pc = "idle"
  BY DEF Idle, CallRecords
<1>2. calls \in Calls /\ \A d \in Callers : calls[d].pc = "idle" /\ ~Busy(d)
  BY <1>1 DEF TasksInit, Calls, Busy
<1>3. tasks \in Seq(TaskRows) /\ Len(tasks) <= MaxTasks
  BY LegacyAssumption, PrepareFields DEF TasksInit
<1>4. TasksTypeOK
  <2>1. outbox \in Seq({"receipt", "alert"}) /\ Len(outbox) <= QueueCapacity
    <3>1. outbox = <<>>
      BY DEF TasksInit
    <3> QED
      BY <3>1
  <2>2. link \in BOOLEAN
    BY DEF TasksInit
  <2>3. taskCrashes \in 0 .. MaxCrashes
    BY DEF TasksInit
  <2>4. acted \in [1 .. MaxTasks -> 0 .. 2] /\ excused \subseteq 1 .. MaxTasks
        /\ abandoned \subseteq 1 .. MaxTasks
    BY DEF TasksInit
  <2> QED
    BY <1>2, <1>3, <2>1, <2>2, <2>3, <2>4 DEF TasksTypeOK, Calls, CallRecords
<1>5. \A i \in 1 .. MaxTasks : acted[i] = 0
  BY DEF TasksInit
<1>6. \A i \in Ids : i \in 1 .. MaxTasks
  BY <1>4, TableFacts
<1>7. CallsHaveRows /\ CallsOnRows /\ OneCallPerTask
  BY <1>2 DEF CallsHaveRows, CallsOnRows, OneCallPerTask
<1>8. ActedOnce /\ EarliestActs /\ EffectIsAccountedFor
  BY <1>2, <1>5, <1>6 DEF ActedOnce, EarliestActs, EffectIsAccountedFor
<1> QED
  BY <1>4, <1>7, <1>8 DEF TasksInv

\* Every step keeps the types.
LEMMA TasksTypeStep ==
  ASSUME TasksTypeOK, CallsHaveRows, [TasksNext]_taskVars
  PROVE  TasksTypeOK' /\ CallsHaveRows'
<1>1. ASSUME NEW c \in Callers, NEW ext \in ExternalIds \cup {NoId}, NEW p \in Payloads,
             CreateTask(c, ext, p)
      PROVE  TasksTypeOK' /\ CallsHaveRows'
  BY <1>1, CreateTypes
<1>2. ASSUME NEW c \in Callers, CallStep(c) \/ ClientLeaves(c)
      PROVE  TasksTypeOK' /\ CallsHaveRows'
  BY <1>2, CallStepTypes
<1>3. CASE PublishReceipt \/ PublishAlert \/ PollOutgoing \/ PollLink
  BY <1>3, BridgeTypes
<1>4. CASE CrashAndOpen
  BY <1>4, CrashFields
<1>5. CASE UNCHANGED taskVars
  BY <1>5 DEF taskVars, TasksTypeOK, CallsHaveRows, Ids
<1> QED
  BY <1>1, <1>2, <1>3, <1>4, <1>5 DEF TasksNext

(***************************************************************************)
(* The table, the calls and the channel keep their types for every legacy  *)
(* table, and a call that works on a task has its row in the table, over   *)
(* all replays, deliveries and restarts.                                   *)
(***************************************************************************)
THEOREM TasksTypeCorrect == TasksSpec => []TasksTypeOK
<1>1. TasksInit => TasksTypeOK /\ CallsHaveRows
  BY TasksInitial
<1>2. TasksTypeOK /\ CallsHaveRows /\ [TasksNext]_taskVars => (TasksTypeOK /\ CallsHaveRows)'
  BY TasksTypeStep
<1> QED
  BY <1>1, <1>2, PTL DEF TasksSpec

-----------------------------------------------------------------------------
(* Integration tasks: the steps keep the invariant.                        *)

\* A step that touches no row, and starts, ends or moves no call that works on one.
LEMMA QuietStep ==
  ASSUME TasksTypeOK, TasksInv, UNCHANGED <<tasks, acted, abandoned>>, excused \subseteq excused',
         \A d \in Callers : calls'[d] = calls[d] \/ (~Busy(d) /\ ~Busy(d)')
  PROVE  TasksInv'
<1>1. \A d \in Callers : Busy(d)' => Busy(d) /\ calls'[d] = calls[d]
  BY DEF Busy
<1>2. \A d \in Callers : Busy(d) => Busy(d)' /\ calls'[d] = calls[d]
  BY DEF Busy
<1>3. CallsOnRows'
  BY <1>1 DEF TasksInv, CallsOnRows, OnRow, Ids
<1>4. OneCallPerTask'
  BY <1>1 DEF TasksInv, OneCallPerTask
<1>5. ActedOnce'
  BY DEF TasksInv, ActedOnce, Ids
<1>6. EarliestActs'
  BY <1>1 DEF TasksInv, EarliestActs, Earliest, SameKey, Ids
<1>7. EffectIsAccountedFor'
  <2>1. \A d \in Callers : calls[d].pc = "finish" => calls'[d] = calls[d]
    BY <1>2 DEF Busy
  <2> QED
    BY <2>1 DEF TasksInv, EffectIsAccountedFor, Ids, Listed
<1> QED
  BY <1>3, <1>4, <1>5, <1>6, <1>7 DEF TasksInv

\* A call is given a row that is "received", has no other call and is the earliest of its id.
LEMMA ClaimStep ==
  ASSUME TasksTypeOK, TasksTypeOK', TasksInv, UNCHANGED <<acted, excused, abandoned>>,
         NEW c \in Callers, NEW i \in 1 .. MaxTasks, ~Busy(c),
         calls'[c].pc = "created", calls'[c].row = i,
         \A d \in Callers : d # c => calls'[d] = calls[d],
         Len(tasks) <= Len(tasks'), \A j \in Ids : tasks'[j] = tasks[j],
         \A j \in Ids' : j \in Ids \/ j = i,
         i \in Ids', tasks'[i].valid, tasks'[i].source = SourceOf(c),
         tasks'[i].status = "received", Earliest(i)',
         \A d \in Callers : Busy(d) => calls[d].row # i
  PROVE  TasksInv'
<1>0. /\ Len(tasks) \in Nat /\ Len(tasks') \in Nat
      /\ Ids \subseteq Ids' /\ Ids' \subseteq 1 .. MaxTasks
      /\ acted \in [1 .. MaxTasks -> 0 .. 2]
  <2>1. Len(tasks) \in Nat /\ acted \in [1 .. MaxTasks -> 0 .. 2]
    BY TableFacts
  <2>2. Len(tasks') \in Nat /\ Len(tasks') <= MaxTasks /\ MaxTasks \in Nat
    BY TaskConstants DEF TasksTypeOK
  <2> QED
    BY <2>1, <2>2 DEF Ids
<1>1. \A d \in Callers : d # c => (Busy(d)' <=> Busy(d)) /\ calls'[d] = calls[d]
  BY DEF Busy
<1>2. acted[i] = 0
  <2>1. CASE i \in Ids
    BY <2>1 DEF TasksInv, ActedOnce
  <2>2. CASE i \notin Ids
    BY <2>2 DEF TasksInv, ActedOnce
  <2> QED
    BY <2>1, <2>2
<1>3. CallsOnRows'
  <2> SUFFICES ASSUME NEW d \in Callers, Busy(d)'
               PROVE  OnRow(d)'
    BY DEF CallsOnRows
  <2>1. CASE d = c
    BY <1>2, <2>1 DEF OnRow
  <2>2. CASE d # c
    <3>1. OnRow(d) /\ calls'[d] = calls[d]
      BY <1>1, <2>2 DEF TasksInv, CallsOnRows
    <3>2. calls[d].row \in Ids /\ calls[d].row \in Ids' /\ tasks'[calls[d].row] = tasks[calls[d].row]
      BY <1>0, <3>1 DEF OnRow
    <3> QED
      BY <3>1, <3>2 DEF OnRow
  <2> QED
    BY <2>1, <2>2
<1>4. OneCallPerTask'
  BY <1>1 DEF TasksInv, OneCallPerTask
<1>5. ActedOnce'
  <2>1. \A j \in 1 .. MaxTasks : acted[j] <= 1 /\ (j \notin Ids' => acted[j] = 0)
    BY <1>0 DEF TasksInv, ActedOnce
  <2>2. \A j \in Ids' : tasks'[j].status = "received" => acted[j] = 0
    BY <1>0, <1>2 DEF TasksInv, ActedOnce
  <2> QED
    BY <2>1, <2>2 DEF ActedOnce
<1>6. EarliestActs'
  <2> SUFFICES ASSUME NEW j \in Ids',
                      acted'[j] > 0 \/ (\E d \in Callers : Busy(d)' /\ calls'[d].row = j)
               PROVE  Earliest(j)'
    BY DEF EarliestActs
  <2>1. CASE j = i
    BY <2>1
  <2>2. CASE j # i
    <3>1. j \in Ids /\ (acted[j] > 0 \/ (\E d \in Callers : Busy(d) /\ calls[d].row = j))
      BY <1>1, <2>2
    <3>2. Earliest(j)
      BY <3>1 DEF TasksInv, EarliestActs
    <3>3. \A k \in Ids' : k < j => k \in Ids
      BY <1>0, <3>1 DEF Ids
    <3> QED
      BY <3>1, <3>2, <3>3 DEF Earliest, SameKey
  <2> QED
    BY <2>1, <2>2
<1>7. EffectIsAccountedFor'
  <2> SUFFICES ASSUME NEW j \in Ids', acted'[j] > 0
               PROVE  \/ j \in Listed(tasks[j].source)' /\ tasks'[j].status = "executed"
                      \/ j \in excused'
                      \/ /\ j \in abandoned' /\ tasks'[j].source = "ainas"
                         /\ j \in Listed("ainas")' /\ tasks'[j].status = "executing"
                      \/ \E d \in Callers : calls'[d].row = j /\ calls'[d].pc = "finish"
    BY DEF EffectIsAccountedFor, Listed
  <2>0. j # i
    BY <1>2
  <2>1. j \in Ids /\ tasks'[j] = tasks[j]
    BY <2>0
  <2>2. \A d \in Callers : calls[d].pc = "finish" => calls'[d] = calls[d]
    BY DEF Busy
  <2> QED
    BY <2>1, <2>2 DEF TasksInv, EffectIsAccountedFor, Listed
<1> QED
  BY <1>3, <1>4, <1>5, <1>6, <1>7 DEF TasksInv

\* A step of the one call that works on row i, which keeps the row's id.
LEMMA OwnRowStep ==
  ASSUME TasksTypeOK, TasksTypeOK', TasksInv,
         excused \subseteq excused', abandoned \subseteq abandoned',
         NEW c \in Callers, NEW i \in Ids, Busy(c), calls[c].row = i,
         \A d \in Callers : d # c => calls'[d] = calls[d],
         Len(tasks') = Len(tasks), \A j \in Ids : j # i => tasks'[j] = tasks[j],
         tasks'[i].ext = tasks[i].ext, tasks'[i].source = tasks[i].source,
         tasks'[i].valid = tasks[i].valid,
         \A j \in 1 .. MaxTasks : j # i => acted'[j] = acted[j],
         acted'[i] <= 1, tasks'[i].status = "received" => acted'[i] = 0,
         Busy(c)' =>
            /\ calls'[c].row = i
            /\ calls'[c].pc = "created" => tasks'[i].status = "received"
            /\ calls'[c].pc # "created" => tasks'[i].status = "executing"
            /\ calls'[c].pc # "finish" => acted'[i] = 0
            /\ calls'[c].pc = "finish" => calls'[c].outcome \in Terminal
            /\ calls'[c].pc = "finish" /\ acted'[i] > 0 =>
                  calls'[c].outcome = "executed" \/ i \in excused',
         ~Busy(c)' /\ acted'[i] > 0 =>
            \/ tasks'[i].status = "executed" \/ i \in excused'
            \/ i \in abandoned' /\ c # Bridge /\ tasks'[i].status = "executing"
  PROVE  TasksInv'
<1>0. /\ Len(tasks) \in Nat /\ Ids' = Ids /\ Ids \subseteq 1 .. MaxTasks
      /\ acted \in [1 .. MaxTasks -> 0 .. 2]
  BY TableFacts DEF Ids
<1>1. \A d \in Callers : d # c => (Busy(d)' <=> Busy(d)) /\ calls'[d] = calls[d]
  BY DEF Busy
<1>2. \A d \in Callers : d # c /\ Busy(d) => calls[d].row # i /\ calls[d].row \in Ids
  BY DEF TasksInv, OneCallPerTask, CallsOnRows, OnRow
<1>3. CallsOnRows'
  <2> SUFFICES ASSUME NEW d \in Callers, Busy(d)'
               PROVE  OnRow(d)'
    BY DEF CallsOnRows
  <2>1. CASE d = c
    BY <1>0, <2>1 DEF TasksInv, CallsOnRows, OnRow
  <2>2. CASE d # c
    <3>1. OnRow(d) /\ calls'[d] = calls[d]
      BY <1>1, <2>2 DEF TasksInv, CallsOnRows
    <3>2. /\ calls[d].row \in Ids' /\ tasks'[calls[d].row] = tasks[calls[d].row]
          /\ acted'[calls[d].row] = acted[calls[d].row]
      BY <1>0, <1>1, <1>2, <2>2
    <3> QED
      BY <3>1, <3>2 DEF OnRow
  <2> QED
    BY <2>1, <2>2
<1>4. OneCallPerTask'
  BY <1>1, <1>2 DEF TasksInv, OneCallPerTask
<1>5. ActedOnce'
  BY <1>0 DEF TasksInv, ActedOnce
<1>6. EarliestActs'
  <2> SUFFICES ASSUME NEW j \in Ids,
                      acted'[j] > 0 \/ (\E d \in Callers : Busy(d)' /\ calls'[d].row = j)
               PROVE  Earliest(j)'
    BY <1>0 DEF EarliestActs
  <2>1. acted[j] > 0 \/ (\E d \in Callers : Busy(d) /\ calls[d].row = j)
    BY <1>0, <1>1
  <2>2. Earliest(j)
    BY <2>1 DEF TasksInv, EarliestActs
  <2>3. \A k \in Ids : tasks'[k].ext = tasks[k].ext /\ tasks'[k].source = tasks[k].source
    OBVIOUS
  <2> QED
    BY <1>0, <2>2, <2>3 DEF Earliest, SameKey
<1>7. EffectIsAccountedFor'
  <2> SUFFICES ASSUME NEW j \in Ids, acted'[j] > 0
               PROVE  \/ j \in Listed(tasks[j].source)' /\ tasks'[j].status = "executed"
                      \/ j \in excused'
                      \/ /\ j \in abandoned' /\ tasks'[j].source = "ainas"
                         /\ j \in Listed("ainas")' /\ tasks'[j].status = "executing"
                      \/ \E d \in Callers : calls'[d].row = j /\ calls'[d].pc = "finish"
    BY <1>0 DEF EffectIsAccountedFor, Listed
  <2>1. CASE j = i
    <3>1. CASE Busy(c)'
      <4>1. calls'[c].row = j /\ calls'[c].pc = "finish"
        BY <2>1, <3>1
      <4> QED
        BY <4>1
    <3>2. CASE ~Busy(c)'
      <4>1. tasks[i].valid /\ tasks[i].source = SourceOf(c)
        BY DEF TasksInv, CallsOnRows, OnRow
      <4> QED
        BY <1>0, <2>1, <3>2, <4>1 DEF Listed, SourceOf
    <3> QED
      BY <3>1, <3>2
  <2>2. CASE j # i
    <3>1. acted[j] > 0 /\ tasks'[j] = tasks[j]
      BY <1>0, <2>2
    <3>2. \A d \in Callers : calls[d].row = j => calls'[d] = calls[d]
      BY <2>2
    <3> QED
      BY <1>0, <3>1, <3>2 DEF TasksInv, EffectIsAccountedFor, Listed
  <2> QED
    BY <2>1, <2>2
<1> QED
  BY <1>3, <1>4, <1>5, <1>6, <1>7 DEF TasksInv

\* A row without replays in flight is claimed by one call; a new row has no call yet.
LEMMA CreateKeepsInv ==
  ASSUME ~OverlappingReplays, TasksTypeOK, TasksTypeOK', TasksInv, NEW c \in Callers,
         NEW ext \in ExternalIds \cup {NoId}, NEW p \in Payloads, CreateTask(c, ext, p)
  PROVE  TasksInv'
<1>0. /\ Len(tasks) \in Nat /\ MaxTasks \in Nat /\ UNCHANGED <<acted, excused, abandoned>>
      /\ Ids \subseteq 1 .. MaxTasks
      /\ ~Busy(c)
  BY TableFacts, TaskConstants DEF CreateTask, KeepHistory, Busy
<1>1. ASSUME NEW i \in ByExternalId(SourceOf(c), ext), Found(c, ext, p, i)
      PROVE  TasksInv'
  <2>1. i \in Ids /\ Earliest(i) /\ tasks' = tasks /\ tasks[i].source = SourceOf(c)
    BY <1>1, LookupFacts DEF Found
  <2>2. ASSUME NEW o \in {"none"} \cup Active \cup Terminal, Return(c, i, o)
        PROVE  TasksInv'
    <3>0. i \in 0 .. MaxTasks
      BY <1>0, <2>1
    <3>1. ~Busy(c)' /\ \A d \in Callers : d # c => calls'[d] = calls[d]
      BY <2>2, <3>0, CallFields DEF Busy
    <3> QED
      BY <1>0, <2>1, <3>1, QuietStep
  <2> DEFINE r == [pc |-> "created", row |-> i, outcome |-> "none"]
  <2>3. ASSUME tasks[i].valid, tasks[i].status = "received",
               \A d \in Callers : calls[d].row # i \/ calls[d].pc # "created",
               calls' = [calls EXCEPT ![c] = r]
        PROVE  TasksInv'
    <3>1. r \in CallRecords
      BY <1>0, <2>1 DEF CallRecords
    <3>2. r.pc = "created" /\ r.row = i
      OBVIOUS
    <3> HIDE DEF r
    <3>3. calls'[c] = r /\ \A d \in Callers : d # c => calls'[d] = calls[d]
      BY <2>3, <3>1, CallFields
    <3>4. \A d \in Callers : Busy(d) => calls[d].row # i
      BY <2>3 DEF TasksInv, CallsOnRows, OnRow
    <3>5. Earliest(i)' /\ Ids' = Ids /\ tasks' = tasks
      BY <2>1 DEF Earliest, SameKey, Ids
    <3>6. i \in 1 .. MaxTasks /\ i \in Ids' /\ calls'[c].pc = "created" /\ calls'[c].row = i
      BY <1>0, <2>1, <3>2, <3>3, <3>5
    <3> QED
      BY <1>0, <2>1, <2>3, <3>3, <3>4, <3>5, <3>6, ClaimStep
  <2>4. "failed" \in Terminal /\ "rejected" \in Terminal /\ tasks[i].status \in Active \cup Terminal
    BY <2>1, TableFacts DEF Terminal, TaskRows
  <2> QED
    BY <1>1, <2>2, <2>3, <2>4 DEF Found
<1>2. ASSUME ByExternalId(SourceOf(c), ext) = {}, Len(tasks) < MaxTasks,
             tasks' = Append(tasks, Row(SourceOf(c), ext, Request(p), "received")),
             calls' = [calls EXCEPT ![c] =
                          [pc |-> "created", row |-> Len(tasks) + 1, outcome |-> "none"]]
      PROVE  TasksInv'
  <2>0. PICK i : i = Len(tasks) + 1
    OBVIOUS
  <2> DEFINE r == [pc |-> "created", row |-> i, outcome |-> "none"]
             row == Row(SourceOf(c), ext, Request(p), "received")
  <2>1. /\ Len(tasks') = i /\ tasks'[i] = row
        /\ \A j \in Ids : tasks'[j] = tasks[j]
    BY <1>2, <2>0, NewRow, TableFields
  <2>2. row.valid /\ row.status = "received" /\ row.ext = ext /\ row.source = SourceOf(c)
    BY DEF Row
  <2>3. r \in CallRecords
    BY <1>0, <1>2, <2>0 DEF CallRecords
  <2>4. r.pc = "created" /\ r.row = i
    OBVIOUS
  <2>5. calls' = [calls EXCEPT ![c] = r]
    BY <1>2, <2>0
  <2>6. /\ i \in 1 .. MaxTasks /\ i \notin Ids /\ i \in Ids' /\ Len(tasks) <= Len(tasks')
        /\ \A j \in Ids' : j \in Ids \/ j = i
        /\ \A j \in Ids' : j < i => j \in Ids
    BY <1>0, <1>2, <2>0, <2>1 DEF Ids
  <2> HIDE DEF r, row
  <2>7. calls'[c] = r /\ \A d \in Callers : d # c => calls'[d] = calls[d]
    BY <2>3, <2>5, CallFields
  <2>8. Earliest(i)'
    <3>1. tasks'[i].ext = ext /\ tasks'[i].source = SourceOf(c)
      BY <2>1, <2>2
    <3>2. \A j \in Ids' : j < i => j \in Ids /\ tasks'[j] = tasks[j]
      BY <2>1, <2>6
    <3>3. ext # NoId => \A j \in Ids : ~(tasks[j].source = SourceOf(c) /\ tasks[j].ext = ext)
      BY <1>2, LookupFacts
    <3> QED
      BY <3>1, <3>2, <3>3 DEF Earliest, SameKey
  <2>9. \A d \in Callers : Busy(d) => calls[d].row # i
    BY <2>6 DEF TasksInv, CallsOnRows, OnRow
  <2>10. /\ calls'[c].pc = "created" /\ calls'[c].row = i /\ tasks'[i].valid
         /\ tasks'[i].status = "received" /\ tasks'[i].source = SourceOf(c)
    BY <2>1, <2>2, <2>4, <2>7
  <2> QED
    BY <1>0, <2>1, <2>6, <2>7, <2>8, <2>9, <2>10, ClaimStep
<1> QED
  BY <1>1, <1>2 DEF CreateTask

\* The claim, the action, the outcome and a client that leaves change the call's own row only.
LEMMA CallStepKeepsInv ==
  ASSUME TasksTypeOK, TasksTypeOK', TasksInv, NEW c \in Callers, CallStep(c) \/ ClientLeaves(c)
  PROVE  TasksInv'
<1>0. PICK i : i = calls[c].row
  OBVIOUS
<1>1. Busy(c) /\ OnRow(c)
  BY DEF CallStep, MarkExecuting, Execute, RecordOutcome, ClientLeaves, Busy, TasksInv, CallsOnRows
<1>2. /\ i \in Ids /\ i \in 1 .. MaxTasks /\ i \in 0 .. MaxTasks /\ tasks[i] \in TaskRows
      /\ acted \in [1 .. MaxTasks -> 0 .. 2] /\ acted[i] \in 0 .. 2 /\ acted[i] <= 1
  BY <1>0, <1>1, TableFacts DEF OnRow, TasksInv, ActedOnce
<1>3. tasks[i].status \in Active \cup Terminal
  BY <1>0, <1>2 DEF TaskRows
<1>4. /\ "failed" \in Terminal /\ "executing" \in Active /\ "received" \notin Terminal
      /\ Claimed(i) \in {tasks, WithStatus(i, "executing")}
  BY DEF Terminal, Active, Claimed
<1>5. /\ calls[c].pc = "created" => tasks[i].status = "received"
      /\ calls[c].pc # "created" => tasks[i].status = "executing"
      /\ calls[c].pc # "finish" => acted[i] = 0
      /\ calls[c].pc = "finish" => calls[c].outcome \in Terminal
      /\ calls[c].pc = "finish" /\ acted[i] > 0 => calls[c].outcome = "executed" \/ i \in excused
  BY <1>0, <1>1 DEF OnRow
<1>6. ASSUME NEW o \in {"none"} \cup Active \cup Terminal, Return(c, i, o)
      PROVE  ~Busy(c)' /\ \A d \in Callers : d # c => calls'[d] = calls[d]
  BY <1>2, <1>6, CallFields DEF Busy
<1>7. ASSUME NEW st \in Active \cup Terminal, tasks' \in {tasks, WithStatus(i, st)}
      PROVE  /\ Len(tasks') = Len(tasks) /\ tasks'[i].status \in {tasks[i].status, st}
             /\ tasks' # tasks => tasks'[i].status = st
             /\ tasks'[i].ext = tasks[i].ext /\ tasks'[i].source = tasks[i].source
             /\ tasks'[i].valid = tasks[i].valid
             /\ \A j \in Ids : j # i => tasks'[j] = tasks[j]
  BY <1>2, <1>7, StatusFields
<1>8. /\ Act(i)[i] <= acted[i] + 1
      /\ \A j \in 1 .. MaxTasks : j # i => Act(i)[j] = acted[j]
  BY <1>2 DEF Act
<1>9. CASE MarkExecuting(c)
  <2>0. /\ UNCHANGED <<acted, excused, abandoned>> /\ acted[i] = 0 /\ calls[c].pc = "created"
        /\ tasks[i].status = "received"
    BY <1>0, <1>5, <1>9 DEF MarkExecuting, KeepHistory
  <2>1. tasks' \in {tasks, WithStatus(i, "executing")}
    BY <1>0, <1>4, <1>9 DEF MarkExecuting
  <2>2. /\ Len(tasks') = Len(tasks)
        /\ tasks'[i].ext = tasks[i].ext /\ tasks'[i].source = tasks[i].source
        /\ tasks'[i].valid = tasks[i].valid
        /\ \A j \in Ids : j # i => tasks'[j] = tasks[j]
    BY <1>4, <1>7, <2>1
  <2>3. CASE tasks' = Claimed(i) /\ calls' = [calls EXCEPT ![c].pc = "executing"]
    <3>1. tasks'[i].status = "executing"
      <4>1. tasks' = WithStatus(i, "executing")
        BY <2>0, <2>3 DEF Claimed
      <4> QED
        BY <1>2, <1>4, <4>1, TableFields DEF WithStatus
    <3>2. /\ calls'[c].pc = "executing" /\ calls'[c].row = i
          /\ \A d \in Callers : d # c => calls'[d] = calls[d]
      BY <1>0, <2>3, CallFields
    <3> QED
      BY <1>0, <1>1, <1>2, <2>0, <2>2, <3>1, <3>2, OwnRowStep
  <2>4. CASE \E o \in {tasks[i].status, "failed"} : Return(c, i, o)
    <3>1. ~Busy(c)' /\ \A d \in Callers : d # c => calls'[d] = calls[d]
      BY <1>3, <1>4, <1>6, <2>4
    <3> QED
      BY <1>0, <1>1, <1>2, <2>0, <2>2, <3>1, OwnRowStep
  <2> QED
    BY <1>0, <1>9, <2>3, <2>4 DEF MarkExecuting
<1>10. CASE Execute(c)
  <2>1. PICK r \in ActionResults(tasks[i].request.action) :
           /\ calls' = [calls EXCEPT ![c].pc = "finish", ![c].outcome = r.outcome]
           /\ acted' = IF r.acts THEN Act(i) ELSE acted
           /\ IF r.acts /\ r.outcome # "executed" THEN LatchFor(i) ELSE UNCHANGED excused
    BY <1>0, <1>10 DEF Execute
  <2>2. r.outcome \in Terminal
    BY DEF ActionResults, Terminal
  <2>3. /\ calls'[c].pc = "finish" /\ calls'[c].row = i /\ calls'[c].outcome = r.outcome
        /\ \A d \in Callers : d # c => calls'[d] = calls[d]
    BY <1>0, <2>1, <2>2, CallFields
  <2>4. tasks' = tasks /\ tasks[i].status = "executing" /\ acted[i] = 0 /\ abandoned' = abandoned
    BY <1>0, <1>5, <1>10 DEF Execute
  <2>5. /\ \A j \in 1 .. MaxTasks : j # i => acted'[j] = acted[j]
        /\ acted'[i] <= 1 /\ (acted'[i] > 0 => r.acts)
    BY <1>2, <1>8, <2>1, <2>4
  <2>6. excused \subseteq excused' /\ (acted'[i] > 0 => r.outcome = "executed" \/ i \in excused')
    BY <2>1, <2>5 DEF LatchFor
  <2>7. Busy(c)' /\ calls'[c].outcome \in Terminal
    BY <2>2, <2>3 DEF Busy
  <2> QED
    BY <1>0, <1>1, <1>2, <2>3, <2>4, <2>5, <2>6, <2>7, OwnRowStep
<1>11. CASE RecordOutcome(c)
  <2>0. /\ UNCHANGED <<acted, abandoned>> /\ calls[c].outcome \in Terminal
        /\ tasks[i].status = "executing" /\ calls[c].pc = "finish"
    BY <1>0, <1>5, <1>11 DEF RecordOutcome
  <2>1. tasks' \in {tasks, WithStatus(i, calls[c].outcome)}
    BY <1>0, <1>11 DEF RecordOutcome
  <2>2. /\ Len(tasks') = Len(tasks)
        /\ tasks'[i].status \in {"executing", calls[c].outcome} /\ tasks'[i].status # "received"
        /\ tasks'[i].ext = tasks[i].ext /\ tasks'[i].source = tasks[i].source
        /\ tasks'[i].valid = tasks[i].valid
        /\ \A j \in Ids : j # i => tasks'[j] = tasks[j]
    BY <1>4, <1>7, <2>0, <2>1
  <2>3. ~Busy(c)' /\ \A d \in Callers : d # c => calls'[d] = calls[d]
    <3>1. \E o \in {calls[c].outcome, "failed"} : Return(c, i, o)
      BY <1>0, <1>11 DEF RecordOutcome
    <3> QED
      BY <1>4, <1>6, <2>0, <3>1
  <2>4. /\ excused \subseteq excused'
        /\ acted'[i] > 0 => tasks'[i].status = "executed" \/ i \in excused'
    <3>1. CASE tasks' = WithStatus(i, calls[c].outcome) /\ UNCHANGED excused
      <4>1. tasks'[i].status = calls[c].outcome
        <5>1. PICK o \in Active \cup Terminal : o = calls[c].outcome
          BY <2>0
        <5>2. tasks' = [tasks EXCEPT ![i].status = o]
          BY <3>1, <5>1 DEF WithStatus
        <5>3. tasks'[i].status = o
          BY <1>2, <5>2, TableFields
        <5> QED
          BY <5>1, <5>3
      <4> QED
        BY <1>5, <2>0, <3>1, <4>1
    <3>2. CASE IF calls[c].outcome = "executed" THEN LatchFor(i) ELSE UNCHANGED excused
      BY <1>5, <2>0, <3>2 DEF LatchFor
    <3> QED
      BY <1>0, <1>11, <3>1, <3>2 DEF RecordOutcome
  <2> QED
    BY <1>0, <1>1, <1>2, <2>0, <2>2, <2>3, <2>4, OwnRowStep
<1>12. CASE ClientLeaves(c)
  <2>0. /\ c # Bridge /\ UNCHANGED excused /\ abandoned \subseteq abandoned'
        /\ calls[c].pc # "created" => i \in abandoned'
    BY <1>0, <1>12 DEF ClientLeaves
  <2>1. ~Busy(c)' /\ \A d \in Callers : d # c => calls'[d] = calls[d]
    <3>1. Idle \in CallRecords /\ Idle.pc = "idle"
      BY TaskConstants DEF Idle, CallRecords
    <3>2. calls'[c] = Idle /\ \A d \in Callers : d # c => calls'[d] = calls[d]
      BY <1>12, <3>1, CallFields DEF ClientLeaves
    <3> QED
      BY <3>1, <3>2 DEF Busy
  <2>2. CASE calls[c].pc = "created"
    <3>1. tasks' \in {tasks, WithStatus(i, "executing")} /\ acted' = acted /\ acted[i] = 0
      BY <1>0, <1>4, <1>5, <1>12, <2>2 DEF ClientLeaves
    <3>2. /\ Len(tasks') = Len(tasks)
          /\ tasks'[i].ext = tasks[i].ext /\ tasks'[i].source = tasks[i].source
          /\ tasks'[i].valid = tasks[i].valid
          /\ \A j \in Ids : j # i => tasks'[j] = tasks[j]
      BY <1>4, <1>7, <3>1
    <3> QED
      BY <1>0, <1>1, <1>2, <2>0, <2>1, <3>1, <3>2, OwnRowStep
  <2>3. CASE calls[c].pc = "executing"
    <3>1. /\ tasks' = tasks /\ acted' \in {acted, Act(i)} /\ acted[i] = 0
          /\ tasks[i].status = "executing"
      BY <1>0, <1>5, <1>12, <2>3 DEF ClientLeaves
    <3>2. acted'[i] <= 1 /\ \A j \in 1 .. MaxTasks : j # i => acted'[j] = acted[j]
      <4>1. CASE acted' = acted
        BY <1>2, <4>1
      <4>2. CASE acted' = Act(i)
        BY <1>2, <1>8, <3>1, <4>2
      <4> QED
        BY <3>1, <4>1, <4>2
    <3>3. i \in abandoned'
      BY <2>0, <2>3
    <3> QED
      BY <1>0, <1>1, <1>2, <2>0, <2>1, <3>1, <3>2, <3>3, OwnRowStep
  <2>4. CASE calls[c].pc = "finish"
    <3>1. /\ tasks' \in {tasks, WithStatus(i, calls[c].outcome)} /\ acted' = acted
          /\ tasks[i].status = "executing" /\ calls[c].outcome \in Terminal
      BY <1>0, <1>5, <1>12, <2>4 DEF ClientLeaves
    <3>2. /\ Len(tasks') = Len(tasks)
          /\ tasks'[i].status \in {"executing", calls[c].outcome} /\ tasks'[i].status # "received"
          /\ tasks'[i].ext = tasks[i].ext /\ tasks'[i].source = tasks[i].source
          /\ tasks'[i].valid = tasks[i].valid
          /\ \A j \in Ids : j # i => tasks'[j] = tasks[j]
      BY <1>4, <1>7, <3>1
    <3>3. i \in abandoned'
      BY <2>0, <2>4
    <3>4. ASSUME acted'[i] > 0
          PROVE  \/ tasks'[i].status = "executed" \/ i \in excused'
                 \/ i \in abandoned' /\ c # Bridge /\ tasks'[i].status = "executing"
      <4>1. calls[c].outcome = "executed" \/ i \in excused
        BY <1>5, <2>4, <3>1, <3>4
      <4>2. tasks'[i].status = "executing" \/ tasks'[i].status = calls[c].outcome
        BY <3>2
      <4>3. CASE tasks'[i].status = "executing"
        BY <2>0, <3>3, <4>3
      <4>4. CASE tasks'[i].status = calls[c].outcome
        BY <2>0, <4>1, <4>4
      <4> QED
        BY <4>2, <4>3, <4>4
    <3> QED
      BY <1>0, <1>1, <1>2, <2>0, <2>1, <3>1, <3>2, <3>4, OwnRowStep
  <2> QED
    BY <1>12, <2>2, <2>3, <2>4 DEF ClientLeaves
<1> QED
  BY <1>9, <1>10, <1>11, <1>12 DEF CallStep

\* A restart ends every call and may take ids away; what was in progress is excused.
LEMMA CrashKeepsInv ==
  ASSUME TasksTypeOK, CallsHaveRows, TasksInv, CrashAndOpen
  PROVE  TasksInv'
<1>0. Ids' = Ids /\ acted' = acted /\ abandoned' = abandoned
  BY CrashFields DEF Ids, CrashAndOpen
<1>1. \A d \in Callers : ~Busy(d)'
  BY CrashFields
<1>2. \A i \in Ids :
        /\ tasks'[i].status = tasks[i].status /\ tasks'[i].source = tasks[i].source
        /\ tasks'[i].valid = tasks[i].valid /\ tasks'[i].ext \in {tasks[i].ext, NoId}
  BY CrashFields
<1>3. CallsOnRows' /\ OneCallPerTask'
  BY <1>1 DEF CallsOnRows, OneCallPerTask
<1>4. ActedOnce'
  BY <1>0, <1>2 DEF TasksInv, ActedOnce
<1>5. EarliestActs'
  BY <1>0, <1>1, <1>2 DEF TasksInv, EarliestActs, Earliest, SameKey
<1>6. EffectIsAccountedFor'
  <2>1. \A d \in Callers : calls[d].pc = "finish" => calls[d].row \in excused'
    BY DEF CrashAndOpen
  <2>2. excused \subseteq excused'
    BY DEF CrashAndOpen
  <2> QED
    BY <1>0, <1>2, <2>1, <2>2 DEF TasksInv, EffectIsAccountedFor, Listed
<1> QED
  BY <1>3, <1>4, <1>5, <1>6 DEF TasksInv

\* The invariant is inductive as long as no task is sent again before its first call claimed it.
LEMMA TasksInvariant ==
  ASSUME ~OverlappingReplays
  PROVE  TasksSpec => [](TasksTypeOK /\ TasksInv)
<1>1. TasksInit => TasksTypeOK /\ CallsHaveRows /\ TasksInv
  BY TasksInitial
<1>2. ASSUME TasksTypeOK, CallsHaveRows, TasksInv, [TasksNext]_taskVars
      PROVE  TasksTypeOK' /\ CallsHaveRows' /\ TasksInv'
  <2>0. TasksTypeOK' /\ CallsHaveRows'
    BY <1>2, TasksTypeStep
  <2>1. ASSUME NEW c \in Callers, NEW ext \in ExternalIds \cup {NoId}, NEW p \in Payloads,
               CreateTask(c, ext, p)
        PROVE  TasksInv'
    BY <1>2, <2>0, <2>1, CreateKeepsInv
  <2>2. ASSUME NEW c \in Callers, CallStep(c) \/ ClientLeaves(c)
        PROVE  TasksInv'
    BY <1>2, <2>0, <2>2, CallStepKeepsInv
  <2>3. CASE PublishReceipt \/ PublishAlert \/ PollOutgoing \/ PollLink
    BY <1>2, <2>0, <2>3, BridgeTypes, QuietStep
  <2>4. CASE CrashAndOpen
    BY <1>2, <2>0, <2>4, CrashKeepsInv
  <2>5. CASE UNCHANGED taskVars
    BY <1>2, <2>0, <2>5, QuietStep DEF taskVars
  <2> QED
    BY <1>2, <2>0, <2>1, <2>2, <2>3, <2>4, <2>5 DEF TasksNext
<1> QED
  BY <1>1, <1>2, PTL DEF TasksSpec

(***************************************************************************)
(* Whatever the number of callers, tasks, redeliveries, answered replays   *)
(* and restarts, a task acts at most once, under each of its ids, as long  *)
(* as no copy of it arrives between the insertion of its row and its claim *)
(* (execute_integration_task).  Run replay shows what happens if one does. *)
(***************************************************************************)
THEOREM TasksActOnce ==
  ASSUME ~OverlappingReplays
  PROVE  TasksSpec => []TaskActsAtMostOnce
<1>1. ASSUME TasksTypeOK, TasksInv
      PROVE  TaskActsAtMostOnce
  <2> SUFFICES ASSUME NEW i \in Ids
               PROVE  /\ acted[i] <= 1
                      /\ tasks[i].ext # NoId =>
                            \A j \in Ids \ {i} :
                                (tasks[j].ext = tasks[i].ext /\ tasks[j].source = tasks[i].source)
                                    => acted[i] = 0 \/ acted[j] = 0
    BY DEF TaskActsAtMostOnce
  <2>1. acted[i] <= 1
    BY <1>1, TableFacts DEF TasksInv, ActedOnce
  <2>2. ASSUME tasks[i].ext # NoId, NEW j \in Ids \ {i}, tasks[j].ext = tasks[i].ext,
               tasks[j].source = tasks[i].source, acted[i] # 0, acted[j] # 0
        PROVE  FALSE
    <3>1. acted[i] > 0 /\ acted[j] > 0 /\ i \in Nat /\ j \in Nat
      BY <1>1, <2>2, TableFacts DEF Ids
    <3>2. Earliest(i) /\ Earliest(j)
      BY <1>1, <3>1 DEF TasksInv, EarliestActs
    <3>3. ~(j < i) /\ ~(i < j)
      BY <2>2, <3>2 DEF Earliest, SameKey
    <3> QED
      BY <3>1, <3>3
  <2> QED
    BY <2>1, <2>2
<1> QED
  BY <1>1, TasksInvariant, PTL

(***************************************************************************)
(* Under the same hypothesis a task that acted is listed as executed when  *)
(* its call is over, or a fault latched for it or a restart in between     *)
(* explains why it is not, or its HTTP client went away and its row says   *)
(* for good that the action was begun                                      *)
(* (latch_integration_receipt_failure_after_action).                       *)
(***************************************************************************)
THEOREM EffectsAreAccountedFor ==
  ASSUME ~OverlappingReplays
  PROVE  TasksSpec => []EffectIsAccountedFor
<1>1. TasksInv => EffectIsAccountedFor
  BY DEF TasksInv
<1> QED
  BY <1>1, TasksInvariant, PTL

-----------------------------------------------------------------------------
(* Component control: the inductive invariant.                             *)

AllowedSets == {t \in TargetSets : PairAllowed(t)}

\* Where a request holds a target set that it will send or commit.
Writing == {"write", "audit", "commit", "ai_write", "ai_commit"}

\* Where it holds none, or one that is not checked yet.
Places == Writing \cup {"idle", "advise", "ai_gate", "process", "after", "shake", "decision"}

CtlRecords == [pc : Places,
               by : {"operator", "ai"}, risk : BOOLEAN, next : TargetSets, base : TargetSets,
               gens : [latch : Nat, fault : Nat],
               acted : BOOLEAN, alarm : BOOLEAN, batch : BOOLEAN,
               advised : BOOLEAN, motor : BOOLEAN]

\* The set was checked as a whole before the request may send it.
CheckedCalls == {r \in CtlRecords : r.pc \in Writing => r.next \in AllowedSets}

CtlScalars ==
    /\ auto_on \in BOOLEAN /\ batchOn \in BOOLEAN /\ begun \in 0 .. MaxCalls
    /\ dropped \in 0 .. MaxDropped
    /\ latch \in [on : BOOLEAN, gen : 0 .. MaxLatchings] /\ ctlFault \in [on : BOOLEAN, gen : Nat]

CtlInv ==
    /\ CtlScalars
    /\ rtTargets \in AllowedSets /\ devTargets \in AllowedSets
    /\ ctl \in [ControlCalls -> CheckedCalls]

\* The stop set is in no forbidden zone, and a free call carries it.
LEMMA StopSetFacts == StopSet \in AllowedSets /\ FreeCall \in CheckedCalls /\ FreeCall.pc = "idle"
<1>1. StopSet \in TargetSets
  BY ControlConstants DEF TargetSets, Shakes
<1>2. StopSet \in AllowedSets
  BY <1>1, ControlConstants DEF AllowedSets, PairAllowed
<1>3. FreeCall \in CtlRecords /\ FreeCall.pc = "idle" /\ FreeCall.pc \notin Writing
  BY <1>1 DEF FreeCall, CtlRecords, Places, Writing
<1> QED
  BY <1>2, <1>3 DEF CheckedCalls

\* The request's record is replaced by one that is checked as well.
LEMMA CallReplaced ==
  ASSUME CtlInv, NEW c \in ControlCalls, NEW r \in CheckedCalls, ctl' = [ctl EXCEPT ![c] = r]
  PROVE  /\ ctl' \in [ControlCalls -> CheckedCalls] /\ ctl'[c] = r
         /\ \A d \in ControlCalls : d # c => ctl'[d] = ctl[d]
  BY DEF CtlInv

\* A request goes on to a place where it holds no set, or keeps the set it holds.
LEMMA CallMoves ==
  ASSUME CtlInv, NEW c \in ControlCalls,
         NEW pc \in Places,
         pc \in Writing => ctl[c].pc \in Writing,
         \/ ctl' = [ctl EXCEPT ![c].pc = pc]
         \/ ctl' = [ctl EXCEPT ![c].pc = pc, ![c].acted = TRUE]
  PROVE  /\ ctl' \in [ControlCalls -> CheckedCalls] /\ ctl'[c].pc = pc
         /\ \A d \in ControlCalls : d # c => ctl'[d] = ctl[d]
<1>1. ctl \in [ControlCalls -> CheckedCalls] /\ ctl[c] \in CheckedCalls /\ ctl[c] \in CtlRecords
  BY DEF CtlInv, CheckedCalls
<1>2. CASE ctl' = [ctl EXCEPT ![c].pc = pc]
  <2> DEFINE r == [ctl[c] EXCEPT !.pc = pc]
  <2>1. r \in CtlRecords /\ r.pc = pc /\ r.next = ctl[c].next
    BY <1>1 DEF CtlRecords
  <2>2. ctl' = [ctl EXCEPT ![c] = r]
    BY <1>1, <1>2
  <2> HIDE DEF r
  <2>3. r \in CheckedCalls
    BY <1>1, <2>1 DEF CheckedCalls
  <2> QED
    BY <2>1, <2>2, <2>3, CallReplaced
<1>3. CASE ctl' = [ctl EXCEPT ![c].pc = pc, ![c].acted = TRUE]
  <2> DEFINE r == [ctl[c] EXCEPT !.pc = pc, !.acted = TRUE]
  <2>1. r \in CtlRecords /\ r.pc = pc /\ r.next = ctl[c].next
    BY <1>1 DEF CtlRecords
  <2>2. ctl' = [ctl EXCEPT ![c] = r]
    BY <1>1, <1>3
  <2> HIDE DEF r
  <2>3. r \in CheckedCalls
    BY <1>1, <2>1 DEF CheckedCalls
  <2> QED
    BY <2>1, <2>2, <2>3, CallReplaced
<1> QED
  BY <1>2, <1>3

\* A command moves one axis of the current set; a stop moves neither temperature nor rpm.
LEMMA CommandTargets ==
  ASSUME NEW cmd \in Commands, NEW t \in TargetSets
  PROVE  /\ targets_for_component(cmd, t) \in TargetSets
         /\ ~component_control_requires_proven_safe_field(cmd) =>
              /\ targets_for_component(cmd, t).temp = t.temp
              /\ targets_for_component(cmd, t).rpm = t.rpm
<1> DEFINE n == targets_for_component(cmd, t)
<1>1. CASE cmd.action = "set_target_temperature" /\ cmd.value \in Temps
  <2>1. n = [t EXCEPT !.temp = cmd.value]
    BY <1>1 DEF targets_for_component
  <2>2. component_control_requires_proven_safe_field(cmd)
    BY <1>1 DEF component_control_requires_proven_safe_field
  <2> QED
    BY <1>1, <2>1, <2>2 DEF TargetSets
<1>2. CASE cmd.action = "set_rpm" /\ cmd.value \in Rpms
  <2>1. n = [t EXCEPT !.rpm = cmd.value]
    BY <1>2 DEF targets_for_component
  <2>2. component_control_requires_proven_safe_field(cmd)
    BY <1>2 DEF component_control_requires_proven_safe_field
  <2> QED
    BY <1>2, <2>1, <2>2 DEF TargetSets
<1>3. CASE cmd.action \in {"set_speed", "start", "stop"} /\ cmd.value \in Shakes
  <2>1. \E s \in Shakes : n = [t EXCEPT !.shake = s]
    BY <1>3 DEF targets_for_component, Shakes
  <2> QED
    BY <2>1 DEF TargetSets
<1>4. \/ cmd.action = "set_target_temperature" /\ cmd.value \in Temps
      \/ cmd.action = "set_rpm" /\ cmd.value \in Rpms
      \/ cmd.action \in {"set_speed", "start", "stop"} /\ cmd.value \in Shakes
  BY DEF Commands, Shakes
<1> QED
  BY <1>1, <1>2, <1>3, <1>4

\* The latch and fault generations a request remembers.
LEMMA GenerationsTyped ==
  ASSUME CtlInv
  PROVE  Generations \in [latch : Nat, fault : Nat]
<1>1. latch.gen \in Nat /\ ctlFault.gen \in Nat
  BY ControlConstants DEF CtlInv, CtlScalars
<1> QED
  BY <1>1 DEF Generations

\* A command goes to the device only as part of a set that is allowed as a whole.
LEMMA BeginChecked ==
  ASSUME CtlInv, NEW c \in ControlCalls, NEW cmd \in Commands, NEW by \in {"operator", "ai"},
         BeginComponent(c, cmd, by)
  PROVE  /\ ctl' \in [ControlCalls -> CheckedCalls] /\ auto_on' \in BOOLEAN
         /\ \A d \in ControlCalls : d # c => ctl'[d] = ctl[d]
<1> DEFINE risk == component_control_requires_proven_safe_field(cmd)
           n == targets_for_component(cmd, rtTargets)
           go == [FreeCall EXCEPT !.pc = "write", !.by = by, !.risk = risk, !.base = rtTargets,
                      !.next = n, !.gens = Generations]
<1>1. FreeCall \in CtlRecords /\ rtTargets \in TargetSets /\ PairAllowed(rtTargets)
  BY StopSetFacts DEF CtlInv, CheckedCalls, AllowedSets
<1>2. n \in TargetSets /\ (~risk => n.temp = rtTargets.temp /\ n.rpm = rtTargets.rpm)
  BY <1>1, CommandTargets
<1>3. risk \in BOOLEAN
  BY DEF component_control_requires_proven_safe_field
<1>4. Generations \in [latch : Nat, fault : Nat]
  BY GenerationsTyped
<1> HIDE DEF risk, n
<1>5. go \in CtlRecords /\ go.next = n
  BY <1>1, <1>2, <1>3, <1>4 DEF CtlRecords, Places, Writing
<1>6. ~risk => PairAllowed(n)
  BY <1>1, <1>2 DEF PairAllowed
<1>7. \/ /\ ctl' = [ctl EXCEPT ![c] = go] /\ (risk => PairAllowed(n))
      \/ ctl' = [ctl EXCEPT ![c] = FreeCall]
  BY DEF BeginComponent, CommandPairAllowed, risk, n
<1>8. auto_on' \in BOOLEAN
  BY DEF BeginComponent, CtlInv, CtlScalars
<1> HIDE DEF go
<1>9. ASSUME PairAllowed(n)
      PROVE  go \in CheckedCalls
  BY <1>2, <1>5, <1>9 DEF CheckedCalls, AllowedSets
<1> QED
  BY <1>6, <1>7, <1>8, <1>9, StopSetFacts, CallReplaced

\* A new control fault is a fault of a later generation.
LEMMA FaultLatched ==
  ASSUME CtlInv, LatchFault(ctlFault)
  PROVE  /\ ctlFault' \in [on : BOOLEAN, gen : Nat]
         /\ ctlFault'.on /\ ctlFault'.gen > ctlFault.gen
<1>1. ctlFault.gen \in Nat
  BY DEF CtlInv, CtlScalars
<1>2. ctlFault' = [on |-> TRUE, gen |-> ctlFault.gen + 1]
  BY DEF LatchFault
<1>3. ctlFault.gen + 1 \in Nat /\ ctlFault.gen + 1 > ctlFault.gen
  BY <1>1
<1>4. ctlFault'.on /\ ctlFault'.gen = ctlFault.gen + 1
  BY <1>2
<1> QED
  BY <1>2, <1>3, <1>4

\* What is left of an AI request sends nothing any more.
LEMMA DecidingChecked ==
  ASSUME NEW sent \in BOOLEAN
  PROVE  Deciding(sent) \in CheckedCalls /\ Deciding(sent).pc = "decision"
<1>1. FreeCall \in CtlRecords /\ "decision" \in Places /\ "decision" \notin Writing
  BY StopSetFacts DEF CheckedCalls, Places, Writing
<1>2. Deciding(sent) \in CtlRecords /\ Deciding(sent).pc = "decision"
  BY <1>1 DEF Deciding, CtlRecords
<1> QED
  BY <1>1, <1>2 DEF CheckedCalls

\* A component request that is on its way.
LEMMA ComponentKeepsInv ==
  ASSUME CtlInv, NEW c \in ControlCalls, ComponentStep(c)
  PROVE  /\ CtlInv'
         /\ \A d \in ControlCalls : d # c => ctl'[d] = ctl[d]
         /\ ctl[c].pc \in {"audit", "commit"} /\ ctl'[c].pc = "idle" =>
              rtTargets' = ctl[c].next \/ (ctlFault'.on /\ ctlFault'.gen > ctlFault.gen)
<1>0. /\ ctl[c] \in CheckedCalls /\ ctl[c] \in CtlRecords
      /\ rtTargets \in AllowedSets /\ devTargets \in AllowedSets
      /\ auto_on \in BOOLEAN /\ batchOn \in BOOLEAN
  BY DEF CtlInv, CtlScalars, CheckedCalls
<1>1. /\ ctl[c].pc \in {"write", "audit", "commit"} /\ ctl[c].next \in AllowedSets
  BY <1>0 DEF ComponentStep, WriteComponent, AuditComponent, CommitComponent, CheckedCalls, Writing
<1>2. UNCHANGED <<latch, batchOn, begun, dropped>>
  BY DEF ComponentStep, WriteComponent, AuditComponent, CommitComponent, KeepField
<1>3. rtTargets' \in AllowedSets /\ devTargets' \in AllowedSets /\ auto_on' \in BOOLEAN
  BY <1>0, <1>1 DEF ComponentStep, WriteComponent, AuditComponent, CommitComponent
<1>4. \/ ctlFault' = ctlFault
      \/ LatchFault(ctlFault)
  BY DEF ComponentStep, WriteComponent, AuditComponent, CommitComponent
<1>5. ctlFault' \in [on : BOOLEAN, gen : Nat]
  BY <1>4, FaultLatched DEF CtlInv, CtlScalars
<1>6. CtlScalars'
  BY <1>2, <1>3, <1>5 DEF CtlInv, CtlScalars
<1>7. SUFFICES /\ ctl' \in [ControlCalls -> CheckedCalls]
               /\ \A d \in ControlCalls : d # c => ctl'[d] = ctl[d]
               /\ ctl[c].pc \in {"audit", "commit"} /\ ctl'[c].pc = "idle" =>
                    rtTargets' = ctl[c].next \/ LatchFault(ctlFault)
  BY <1>3, <1>6, FaultLatched DEF CtlInv
<1>8. CASE LatchFault(ctlFault) /\ ctl' = [ctl EXCEPT ![c] = FreeCall]
  BY <1>8, StopSetFacts, CallReplaced
<1>9. CASE \E pc \in {"audit", "commit"} :
             \/ ctl' = [ctl EXCEPT ![c].pc = pc]
             \/ ctl' = [ctl EXCEPT ![c].pc = pc, ![c].acted = TRUE]
  <2>1. PICK pc \in {"audit", "commit"} :
             \/ ctl' = [ctl EXCEPT ![c].pc = pc]
             \/ ctl' = [ctl EXCEPT ![c].pc = pc, ![c].acted = TRUE]
    BY <1>9
  <2>2. pc \in Writing /\ ctl[c].pc \in Writing /\ pc # "idle" /\ pc \in Places
    BY <1>1 DEF Writing, Places
  <2> QED
    BY <2>1, <2>2, CallMoves
<1>10. CASE rtTargets' = ctl[c].next /\ Finished(c)
  <2>1. CASE ctl[c].by = "ai"
    <3>1. ctl' = [ctl EXCEPT ![c] = Deciding(TRUE)]
      BY <1>0, <1>10, <2>1 DEF Finished, CtlInv
    <3> QED
      BY <1>10, <3>1, DecidingChecked, CallReplaced
  <2>2. CASE ctl[c].by # "ai"
    <3>1. ctl' = [ctl EXCEPT ![c] = FreeCall]
      BY <1>10, <2>2 DEF Finished
    <3> QED
      BY <1>10, <3>1, StopSetFacts, CallReplaced
  <2> QED
    BY <2>1, <2>2
<1>11. CASE WriteComponent(c)
  BY <1>8, <1>9, <1>11 DEF WriteComponent
<1>12. CASE AuditComponent(c)
  BY <1>8, <1>9, <1>12 DEF AuditComponent
<1>13. CASE CommitComponent(c)
  BY <1>8, <1>10, <1>13 DEF CommitComponent
<1> QED
  BY <1>11, <1>12, <1>13 DEF ComponentStep

\* A recommended set is checked as a whole before it may be sent.
LEMMA AdviceChecked ==
  ASSUME CtlInv, NEW c \in ControlCalls, PairAllowed(ctl[c].next),
         ctl' = [ctl EXCEPT ![c].pc = "ai_write", ![c].gens = Generations]
  PROVE  /\ ctl' \in [ControlCalls -> CheckedCalls] /\ ctl'[c].pc = "ai_write"
         /\ \A d \in ControlCalls : d # c => ctl'[d] = ctl[d]
<1> DEFINE r == [ctl[c] EXCEPT !.pc = "ai_write", !.gens = Generations]
<1>1. ctl \in [ControlCalls -> CheckedCalls] /\ ctl[c] \in CtlRecords
  BY DEF CtlInv, CheckedCalls
<1>2. Generations \in [latch : Nat, fault : Nat]
  BY GenerationsTyped
<1>3. r \in CtlRecords /\ r.pc = "ai_write" /\ r.next = ctl[c].next /\ r.next \in TargetSets
  BY <1>1, <1>2 DEF CtlRecords, Places, Writing
<1>4. ctl' = [ctl EXCEPT ![c] = r]
  BY <1>1
<1> HIDE DEF r
<1>5. r \in CheckedCalls
  BY <1>3 DEF CheckedCalls, AllowedSets
<1> QED
  BY <1>3, <1>4, <1>5, CallReplaced

\* What a request notes down on its way, while it sends nothing.
LEMMA CallNotes ==
  ASSUME CtlInv, NEW c \in ControlCalls, NEW pc \in Places \ Writing,
         \/ ctl' = [ctl EXCEPT ![c].pc = pc, ![c].base = rtTargets]
         \/ ctl' = [ctl EXCEPT ![c].pc = pc, ![c].base = StopSet, ![c].gens = FreeCall.gens]
         \/ \E motor \in BOOLEAN : ctl' = [ctl EXCEPT ![c].pc = pc, ![c].motor = motor]
  PROVE  /\ ctl' \in [ControlCalls -> CheckedCalls] /\ ctl'[c].pc = pc
         /\ \A d \in ControlCalls : d # c => ctl'[d] = ctl[d]
<1>1. /\ ctl \in [ControlCalls -> CheckedCalls] /\ ctl[c] \in CtlRecords
      /\ rtTargets \in TargetSets /\ StopSet \in TargetSets
      /\ FreeCall.gens \in [latch : Nat, fault : Nat]
  BY StopSetFacts DEF CtlInv, CheckedCalls, AllowedSets, CtlRecords
<1>2. PICK r : /\ ctl' = [ctl EXCEPT ![c] = r] /\ r \in CtlRecords /\ r.pc = pc
  <2>1. CASE ctl' = [ctl EXCEPT ![c].pc = pc, ![c].base = rtTargets]
    <3>1. ctl' = [ctl EXCEPT ![c] = [ctl[c] EXCEPT !.pc = pc, !.base = rtTargets]]
      BY <1>1, <2>1
    <3>2. [ctl[c] EXCEPT !.pc = pc, !.base = rtTargets] \in CtlRecords
      BY <1>1 DEF CtlRecords
    <3>3. [ctl[c] EXCEPT !.pc = pc, !.base = rtTargets].pc = pc
      BY <1>1 DEF CtlRecords
    <3> QED
      BY <3>1, <3>2, <3>3
  <2>2. CASE ctl' = [ctl EXCEPT ![c].pc = pc, ![c].base = StopSet, ![c].gens = FreeCall.gens]
    <3>1. ctl' = [ctl EXCEPT ![c] = [ctl[c] EXCEPT !.pc = pc, !.base = StopSet,
                                                   !.gens = FreeCall.gens]]
      BY <1>1, <2>2
    <3>2. [ctl[c] EXCEPT !.pc = pc, !.base = StopSet, !.gens = FreeCall.gens] \in CtlRecords
      BY <1>1 DEF CtlRecords
    <3>3. [ctl[c] EXCEPT !.pc = pc, !.base = StopSet, !.gens = FreeCall.gens].pc = pc
      BY <1>1 DEF CtlRecords
    <3> QED
      BY <3>1, <3>2, <3>3
  <2>3. ASSUME NEW motor \in BOOLEAN, ctl' = [ctl EXCEPT ![c].pc = pc, ![c].motor = motor]
        PROVE  \E r : ctl' = [ctl EXCEPT ![c] = r] /\ r \in CtlRecords /\ r.pc = pc
    <3>1. ctl' = [ctl EXCEPT ![c] = [ctl[c] EXCEPT !.pc = pc, !.motor = motor]]
      BY <1>1, <2>3
    <3>2. [ctl[c] EXCEPT !.pc = pc, !.motor = motor] \in CtlRecords
      BY <1>1 DEF CtlRecords
    <3>3. [ctl[c] EXCEPT !.pc = pc, !.motor = motor].pc = pc
      BY <1>1 DEF CtlRecords
    <3> QED
      BY <3>1, <3>2, <3>3
  <2> QED
    BY <2>1, <2>2, <2>3
<1>3. r \in CheckedCalls
  BY <1>2 DEF CheckedCalls
<1> QED
  BY <1>2, <1>3, CallReplaced

\* What an AI step does to the targets, the fault and the switches.
LEMMA AiFields ==
  ASSUME CtlInv, NEW c \in ControlCalls, AiStep(c)
  PROVE  CtlScalars' /\ rtTargets' \in AllowedSets /\ devTargets' \in AllowedSets
<1>0. /\ ctl[c] \in CheckedCalls /\ ctl[c] \in CtlRecords
      /\ rtTargets \in AllowedSets /\ devTargets \in AllowedSets /\ StopSet \in AllowedSets
      /\ auto_on \in BOOLEAN /\ batchOn \in BOOLEAN
  BY StopSetFacts DEF CtlInv, CtlScalars, CheckedCalls
<1>1. UNCHANGED <<latch, begun, dropped>>
  BY DEF AiStep, ExpectCurrent, ApplyAiTargets, WriteAiTargets, CommitAiTargets, AiStart, AiStop,
         PlanShake, AiShake, AuditDecision, KeepField
<1>2. \/ ctlFault' = ctlFault
      \/ LatchFault(ctlFault)
  BY DEF AiStep, ExpectCurrent, ApplyAiTargets, WriteAiTargets, CommitAiTargets, AiStart, AiStop,
         PlanShake, AiShake, AuditDecision, LifecycleFails, LifecycleRefuses
<1>3. ctlFault' \in [on : BOOLEAN, gen : Nat]
  BY <1>2, FaultLatched DEF CtlInv, CtlScalars
<1>4. ASSUME /\ rtTargets' \in AllowedSets /\ devTargets' \in AllowedSets
             /\ auto_on' \in BOOLEAN /\ batchOn' \in BOOLEAN
      PROVE  CtlScalars' /\ rtTargets' \in AllowedSets /\ devTargets' \in AllowedSets
  BY <1>1, <1>3, <1>4 DEF CtlInv, CtlScalars
<1>5. CASE ExpectCurrent(c) \/ ApplyAiTargets(c) \/ PlanShake(c)
  BY <1>0, <1>4, <1>5 DEF ExpectCurrent, ApplyAiTargets, PlanShake, KeepField
<1>6. CASE WriteAiTargets(c) \/ CommitAiTargets(c)
  <2>1. ctl[c].next \in AllowedSets
    BY <1>0, <1>6 DEF WriteAiTargets, CommitAiTargets, CheckedCalls, Writing
  <2> QED
    BY <1>0, <1>4, <1>6, <2>1 DEF WriteAiTargets, CommitAiTargets, KeepField
<1>7. CASE AiStart(c)
  BY <1>0, <1>4, <1>7 DEF AiStart, LifecycleFails, LifecycleRefuses, AllowedSets
<1>8. CASE AiStop(c)
  BY <1>0, <1>4, <1>8 DEF AiStop, LifecycleFails, LifecycleRefuses
<1>9. CASE AiShake(c)
  <2>1. auto_on' \in BOOLEAN
    BY <1>0, <1>9, BeginChecked DEF AiShake
  <2> QED
    BY <1>0, <1>4, <1>9, <2>1 DEF AiShake, KeepField
<1>10. CASE AuditDecision(c)
  BY <1>0, <1>4, <1>10 DEF AuditDecision, KeepField
<1> QED
  BY <1>5, <1>6, <1>7, <1>8, <1>9, <1>10 DEF AiStep

\* Where a request that has sent targets stands until it commits them.
Uncommitted == {"audit", "commit", "ai_commit"}

\* What it does to the requests: the AI's own moves on, or ends in a fault once it has written.
LEMMA AiCalls ==
  ASSUME CtlInv, NEW c \in ControlCalls, AiStep(c)
  PROVE  /\ ctl' \in [ControlCalls -> CheckedCalls]
         /\ \A d \in ControlCalls : d # c => ctl'[d] = ctl[d]
         /\ ctl[c].pc \in Uncommitted /\ ctl'[c].pc = "idle" =>
              rtTargets' = ctl[c].next \/ (ctlFault'.on /\ ctlFault'.gen > ctlFault.gen)
<1>0. ctl[c] \in CtlRecords /\ rtTargets \in TargetSets
  BY DEF CtlInv, CheckedCalls, AllowedSets
<1>1. ASSUME ctl' = [ctl EXCEPT ![c] = FreeCall],
             ctl[c].pc \notin Uncommitted \/ LatchFault(ctlFault)
      PROVE  /\ ctl' \in [ControlCalls -> CheckedCalls]
             /\ \A d \in ControlCalls : d # c => ctl'[d] = ctl[d]
             /\ ctl[c].pc \in Uncommitted => ctlFault'.on /\ ctlFault'.gen > ctlFault.gen
  BY <1>1, StopSetFacts, CallReplaced, FaultLatched
<1>2. CASE ExpectCurrent(c)
  <2>1. "ai_gate" \in Places \ Writing /\ "ai_gate" # "idle"
    BY DEF Places, Writing
  <2> QED
    BY <1>2, <2>1, CallNotes DEF ExpectCurrent
<1>3. CASE ApplyAiTargets(c)
  <2>1. ctl[c].pc \notin Uncommitted
    BY <1>3 DEF ApplyAiTargets, Uncommitted
  <2>2. CASE ctl' = [ctl EXCEPT ![c] = FreeCall]
    BY <1>1, <2>1, <2>2
  <2>3. CASE PairAllowed(ctl[c].next) /\ ctl' = [ctl EXCEPT ![c].pc = "ai_write", ![c].gens = Generations]
    BY <2>1, <2>3, AdviceChecked
  <2> QED
    BY <1>3, <2>2, <2>3 DEF ApplyAiTargets
<1>4. CASE WriteAiTargets(c)
  <2>0. ctl[c].pc = "ai_write" /\ "ai_write" \in Writing /\ "ai_commit" \in Writing
    BY <1>4 DEF WriteAiTargets, Writing
  <2>1. CASE ctl' = [ctl EXCEPT ![c].pc = "ai_commit", ![c].acted = TRUE]
    <3>1. "ai_commit" \in Places
      BY <2>0 DEF Places
    <3> QED
      BY <2>0, <2>1, <3>1, CallMoves
  <2>2. CASE LatchFault(ctlFault) /\ ctl' = [ctl EXCEPT ![c] = FreeCall]
    BY <1>1, <2>2
  <2> QED
    BY <1>4, <2>1, <2>2 DEF WriteAiTargets
<1>5. CASE CommitAiTargets(c)
  <2>1. CASE rtTargets' = ctl[c].next
             /\ ctl' = [ctl EXCEPT ![c].pc = "process", ![c].base = StopSet, ![c].gens = FreeCall.gens]
    <3>1. "process" \in Places \ Writing
      BY DEF Places, Writing
    <3> QED
      BY <2>1, <3>1, CallNotes
  <2>2. CASE LatchFault(ctlFault) /\ ctl' = [ctl EXCEPT ![c] = FreeCall]
    BY <1>1, <2>2
  <2> QED
    BY <1>5, <2>1, <2>2 DEF CommitAiTargets
<1>6. CASE AiStart(c)
  <2>1. ctl[c].pc \notin Uncommitted /\ "after" \in Places /\ "after" \notin Writing
    BY <1>6 DEF AiStart, Uncommitted, Places, Writing
  <2>2. CASE \/ ctl' = [ctl EXCEPT ![c].pc = "after"]
             \/ ctl' = [ctl EXCEPT ![c].pc = "after", ![c].acted = TRUE]
    BY <2>1, <2>2, CallMoves
  <2>3. CASE ctl' = [ctl EXCEPT ![c] = FreeCall]
    BY <1>1, <2>1, <2>3
  <2> QED
    BY <1>6, <2>2, <2>3 DEF AiStart, LifecycleFails, LifecycleRefuses
<1>7. CASE AiStop(c)
  <2>1. ctl[c].pc \notin Uncommitted
    BY <1>7 DEF AiStop, Uncommitted
  <2>2. CASE ctl' = [ctl EXCEPT ![c] = Deciding(TRUE)]
    BY <2>1, <2>2, DecidingChecked, CallReplaced
  <2>3. CASE ctl' = [ctl EXCEPT ![c] = FreeCall]
    BY <1>1, <2>1, <2>3
  <2> QED
    BY <1>7, <2>2, <2>3 DEF AiStop, LifecycleFails, LifecycleRefuses
<1>8. CASE PlanShake(c)
  <2>1. ctl[c].pc \notin Uncommitted /\ "shake" \in Places \ Writing
    BY <1>8 DEF PlanShake, Uncommitted, Places, Writing
  <2>2. CASE ctl' = [ctl EXCEPT ![c].pc = "shake", ![c].motor = plan_shake_component_action(c)]
    <3>1. plan_shake_component_action(c) \in BOOLEAN
      BY DEF plan_shake_component_action
    <3> QED
      BY <2>1, <2>2, <3>1, CallNotes
  <2>3. CASE ctl' = [ctl EXCEPT ![c] = Deciding(ctl[c].acted)]
    <3>1. ctl[c].acted \in BOOLEAN
      BY <1>0 DEF CtlRecords
    <3> QED
      BY <2>1, <2>3, <3>1, DecidingChecked, CallReplaced
  <2>4. CASE ctl' = [ctl EXCEPT ![c] = Deciding(@.acted)]
    <3>1. ctl' = [ctl EXCEPT ![c] = Deciding(ctl[c].acted)]
      BY <2>4 DEF CtlInv
    <3> QED
      BY <2>3, <3>1
  <2> QED
    BY <1>8, <2>2, <2>4 DEF PlanShake
<1>9. CASE AiShake(c)
  <2>1. ctl[c].pc \notin Uncommitted
    BY <1>9 DEF AiShake, Uncommitted
  <2> QED
    BY <1>9, <2>1, BeginChecked DEF AiShake
<1>10. CASE AuditDecision(c)
  BY <1>1, <1>10 DEF AuditDecision, Uncommitted
<1> QED
  BY <1>2, <1>3, <1>4, <1>5, <1>6, <1>7, <1>8, <1>9, <1>10 DEF AiStep

\* A new request, an operator's or the AI's.
LEMMA NewCallKeepsInv ==
  ASSUME CtlInv, NEW c \in ControlCalls,
         (\E cmd \in Commands : execute_component_control(c, cmd)) \/ ai_control(c)
  PROVE  /\ CtlInv' /\ ctl[c].pc = "idle"
         /\ \A d \in ControlCalls : d # c => ctl'[d] = ctl[d]
<1>1. ctl[c].pc = "idle" /\ begun' \in 0 .. MaxCalls
  <2>1. NewCall(c)
    BY DEF execute_component_control, ai_control
  <2>2. begun \in 0 .. MaxCalls /\ MaxCalls \in Nat
    BY ControlConstants DEF CtlInv, CtlScalars
  <2>3. begun < MaxCalls /\ begun' = begun + 1 /\ ctl[c].pc = "idle"
    BY <2>1 DEF NewCall
  <2> QED
    BY <2>2, <2>3
<1>2. UNCHANGED <<rtTargets, devTargets, latch, ctlFault, batchOn, dropped>>
  BY DEF execute_component_control, ai_control
<1>3. CASE \E cmd \in Commands : execute_component_control(c, cmd)
  <2>1. PICK cmd \in Commands : BeginComponent(c, cmd, "operator")
    BY <1>3 DEF execute_component_control
  <2>2. /\ ctl' \in [ControlCalls -> CheckedCalls] /\ auto_on' \in BOOLEAN
        /\ \A d \in ControlCalls : d # c => ctl'[d] = ctl[d]
    BY <2>1, BeginChecked
  <2> QED
    BY <1>1, <1>2, <2>2 DEF CtlInv, CtlScalars
<1>4. CASE ai_control(c)
  <2>1. auto_on' \in BOOLEAN
    BY <1>4 DEF ai_control, CtlInv, CtlScalars
  <2>2. CASE UNCHANGED ctl
    BY <1>1, <1>2, <2>1, <2>2 DEF CtlInv, CtlScalars
  <2>3. ASSUME NEW r \in CtlRecords, r.pc \in {"advise", "process"}, ctl' = [ctl EXCEPT ![c] = r]
        PROVE  CtlInv' /\ \A d \in ControlCalls : d # c => ctl'[d] = ctl[d]
    <3>1. r \in CheckedCalls
      BY <2>3 DEF CheckedCalls, Writing
    <3>2. ctl' \in [ControlCalls -> CheckedCalls] /\ \A d \in ControlCalls : d # c => ctl'[d] = ctl[d]
      BY <2>3, <3>1, CallReplaced
    <3> QED
      BY <1>1, <1>2, <2>1, <3>2 DEF CtlInv, CtlScalars
  <2>4. ASSUME NEW alarm \in BOOLEAN
        PROVE  LET call == [FreeCall EXCEPT !.by = "ai", !.alarm = alarm, !.batch = batchOn]
               IN  call \in CtlRecords
    <3>1. FreeCall \in CtlRecords /\ batchOn \in BOOLEAN
      BY StopSetFacts DEF CheckedCalls, CtlInv, CtlScalars
    <3> QED
      BY <2>4, <3>1 DEF CtlRecords
  <2>5. ASSUME NEW call \in CtlRecords, NEW a \in Advice, NEW pc \in {"advise", "process"}
        PROVE  LET next == ai_targets_from_recommendation(a)
                   r == [call EXCEPT !.pc = pc, !.next = next, !.advised = TRUE]
               IN  r \in CtlRecords /\ r.pc = pc
    <3>1. rtTargets \in TargetSets /\ a.temp \in Temps /\ a.rpm \in Rpms
      BY ControlConstants DEF CtlInv, AllowedSets
    <3>2. ai_targets_from_recommendation(a) \in TargetSets
      BY <3>1 DEF ai_targets_from_recommendation, TargetSets
    <3>3. pc \in Places
      BY DEF Places
    <3> HIDE DEF ai_targets_from_recommendation
    <3> QED
      BY <3>2, <3>3 DEF CtlRecords
  <2>6. ASSUME NEW call \in CtlRecords
        PROVE  /\ [call EXCEPT !.pc = "process"] \in CtlRecords
               /\ [call EXCEPT !.pc = "process"].pc = "process"
    BY DEF CtlRecords, Places
  <2>7. CASE ai_control_safety
    <3>1. PICK alarm \in BOOLEAN :
            LET call == [FreeCall EXCEPT !.by = "ai", !.alarm = alarm, !.batch = batchOn]
            IN  \/ ctl' = [ctl EXCEPT ![c] = [call EXCEPT !.pc = "process"]]
                \/ \E a \in Advice, pc \in {"advise", "process"} :
                    LET next == ai_targets_from_recommendation(a) IN
                    ctl' = [ctl EXCEPT ![c] = [call EXCEPT !.pc = pc, !.next = next,
                                                           !.advised = TRUE]]
      BY <1>4, <2>7 DEF ai_control
    <3> DEFINE call == [FreeCall EXCEPT !.by = "ai", !.alarm = alarm, !.batch = batchOn]
    <3>2. call \in CtlRecords
      BY <2>4
    <3> HIDE DEF call
    <3>3. CASE ctl' = [ctl EXCEPT ![c] = [call EXCEPT !.pc = "process"]]
      <4> DEFINE r == [call EXCEPT !.pc = "process"]
      <4>1. r \in CtlRecords /\ r.pc \in {"advise", "process"}
        BY <2>6, <3>2
      <4>2. ctl' = [ctl EXCEPT ![c] = r]
        BY <3>3
      <4> HIDE DEF r
      <4> QED
        BY <1>1, <2>3, <4>1, <4>2
    <3>4. ASSUME NEW a \in Advice, NEW pc \in {"advise", "process"},
                 ctl' = [ctl EXCEPT ![c] = [call EXCEPT !.pc = pc,
                                                !.next = ai_targets_from_recommendation(a),
                                                !.advised = TRUE]]
          PROVE  CtlInv' /\ \A d \in ControlCalls : d # c => ctl'[d] = ctl[d]
      <4> DEFINE r == [call EXCEPT !.pc = pc, !.next = ai_targets_from_recommendation(a),
                                   !.advised = TRUE]
      <4>1. r \in CtlRecords /\ r.pc \in {"advise", "process"}
        BY <2>5, <3>2
      <4>2. ctl' = [ctl EXCEPT ![c] = r]
        BY <3>4
      <4> HIDE DEF r
      <4> QED
        BY <2>3, <4>1, <4>2
    <3>5. \/ ctl' = [ctl EXCEPT ![c] = [call EXCEPT !.pc = "process"]]
          \/ \E a \in Advice, pc \in {"advise", "process"} :
              ctl' = [ctl EXCEPT ![c] = [call EXCEPT !.pc = pc,
                                             !.next = ai_targets_from_recommendation(a),
                                             !.advised = TRUE]]
      BY <3>1 DEF call
    <3> QED
      BY <1>1, <3>3, <3>4, <3>5
  <2> QED
    BY <1>1, <1>4, <2>2, <2>7 DEF ai_control
<1> QED
  BY <1>1, <1>3, <1>4

\* Latches, their clearing and everybody else's target updates leave the requests alone.
LEMMA OthersKeepInv ==
  ASSUME CtlInv, Engage \/ Clear \/ OthersSetTargets
  PROVE  CtlInv' /\ ctl' = ctl
<1>0. /\ ctl' = ctl /\ ctl \in [ControlCalls -> CheckedCalls]
      /\ auto_on \in BOOLEAN /\ batchOn \in BOOLEAN /\ StopSet \in AllowedSets
      /\ rtTargets \in AllowedSets /\ devTargets \in AllowedSets
  BY StopSetFacts DEF Engage, Clear, OthersSetTargets, CtlInv, CtlScalars
<1>1. CASE Engage
  <2>1. latch' \in [on : BOOLEAN, gen : 0 .. MaxLatchings]
    <3>1. latch.gen + 1 \in 0 .. MaxLatchings
      BY <1>1, ControlConstants DEF Engage, CtlInv, CtlScalars
    <3> QED
      BY <1>1, <3>1 DEF Engage
  <2>2. devTargets' \in AllowedSets /\ auto_on' \in BOOLEAN
    BY <1>0, <1>1 DEF Engage
  <2> QED
    BY <1>0, <1>1, <2>1, <2>2 DEF Engage, KeepField, CtlInv, CtlScalars
<1>2. CASE Clear
  <2>1. latch' \in [on : BOOLEAN, gen : 0 .. MaxLatchings] /\ ctlFault' \in [on : BOOLEAN, gen : Nat]
    BY <1>2 DEF Clear, CtlInv, CtlScalars
  <2> QED
    BY <1>0, <1>2, <2>1 DEF Clear, KeepField, CtlInv, CtlScalars
<1>3. CASE OthersSetTargets
  <2>1. begun' \in 0 .. MaxCalls
    BY <1>3, ControlConstants DEF OthersSetTargets, CtlInv, CtlScalars
  <2>2. rtTargets' \in AllowedSets
    BY <1>3 DEF OthersSetTargets, AllowedSets
  <2>3. devTargets' \in AllowedSets /\ auto_on' \in BOOLEAN /\ batchOn' \in BOOLEAN
    BY <1>0, <1>3, <2>2 DEF OthersSetTargets
  <2> QED
    BY <1>0, <1>3, <2>1, <2>2, <2>3 DEF OthersSetTargets, CtlInv, CtlScalars
<1> QED
  BY <1>1, <1>2, <1>3

\* A request that loses its client leaves the rest as it is, but for the allowed set whose
\* write may still get through.
LEMMA DropKeepsInv ==
  ASSUME CtlInv, NEW c \in ControlCalls, DropCall(c)
  PROVE  CtlInv' /\ dropped' # dropped
<1>1. ctl' \in [ControlCalls -> CheckedCalls]
  BY StopSetFacts, CallReplaced DEF DropCall
<1>2. dropped' \in 0 .. MaxDropped /\ dropped' # dropped
  BY ControlConstants DEF DropCall, CtlInv, CtlScalars
<1>3. UnderWay(c) \subseteq AllowedSets
  <2>1. ctl[c] \in CheckedCalls
    BY DEF CtlInv
  <2>2. ctl[c].pc \in {"write", "ai_write"} => ctl[c].next \in AllowedSets
    BY <2>1 DEF CheckedCalls, Writing
  <2>3. {t \in TargetSets : PairAllowed(t)} \subseteq AllowedSets
    BY DEF AllowedSets
  <2> QED
    BY <2>2, <2>3, StopSetFacts DEF UnderWay
<1>4. devTargets' \in AllowedSets
  BY <1>3 DEF DropCall, CtlInv
<1> QED
  BY <1>1, <1>2, <1>4 DEF DropCall, CtlInv, CtlScalars

\* Every step keeps the invariant, and ends no write without committing or latching it.
LEMMA CtlStep ==
  ASSUME CtlInv, [CtlNext]_ctlVars
  PROVE  /\ CtlInv'
         /\ \A c \in ControlCalls :
              ctl[c].pc \in Uncommitted /\ ctl'[c].pc = "idle" /\ dropped' = dropped =>
                rtTargets' = ctl[c].next \/ (ctlFault'.on /\ ctlFault'.gen > ctlFault.gen)
<1>1. ASSUME NEW c \in ControlCalls,
             (\E cmd \in Commands : execute_component_control(c, cmd)) \/ ai_control(c)
      PROVE  /\ CtlInv' /\ ctl[c].pc \notin Uncommitted
             /\ \A d \in ControlCalls : d # c => ctl'[d] = ctl[d]
  BY <1>1, NewCallKeepsInv DEF Uncommitted
<1>2. ASSUME NEW c \in ControlCalls, ComponentStep(c)
      PROVE  /\ CtlInv'
             /\ \A d \in ControlCalls : d # c => ctl'[d] = ctl[d]
             /\ ctl[c].pc \in Uncommitted /\ ctl'[c].pc = "idle" =>
                  rtTargets' = ctl[c].next \/ (ctlFault'.on /\ ctlFault'.gen > ctlFault.gen)
  <2>1. ctl[c].pc # "ai_commit"
    BY <1>2 DEF ComponentStep, WriteComponent, AuditComponent, CommitComponent
  <2> QED
    BY <1>2, <2>1, ComponentKeepsInv DEF Uncommitted
<1>3. ASSUME NEW c \in ControlCalls, AiStep(c)
      PROVE  /\ CtlInv'
             /\ \A d \in ControlCalls : d # c => ctl'[d] = ctl[d]
             /\ ctl[c].pc \in Uncommitted /\ ctl'[c].pc = "idle" =>
                  rtTargets' = ctl[c].next \/ (ctlFault'.on /\ ctlFault'.gen > ctlFault.gen)
  BY <1>3, AiFields, AiCalls DEF CtlInv
<1>4. CASE Engage \/ Clear \/ OthersSetTargets
  <2>1. CtlInv' /\ ctl' = ctl
    BY <1>4, OthersKeepInv
  <2> QED
    BY <2>1 DEF Uncommitted
<1>5. CASE UNCHANGED ctlVars
  BY <1>5 DEF ctlVars, CtlInv, CtlScalars, Uncommitted
<1>6. ASSUME NEW c \in ControlCalls, DropCall(c)
      PROVE  CtlInv' /\ dropped' # dropped
  BY <1>6, DropKeepsInv
<1>7. ASSUME CtlInv',
             NEW c \in ControlCalls, \A d \in ControlCalls : d # c => ctl'[d] = ctl[d],
             ctl[c].pc \in Uncommitted /\ ctl'[c].pc = "idle" =>
                  rtTargets' = ctl[c].next \/ (ctlFault'.on /\ ctlFault'.gen > ctlFault.gen)
      PROVE  \A d \in ControlCalls :
              ctl[d].pc \in Uncommitted /\ ctl'[d].pc = "idle" =>
                rtTargets' = ctl[d].next \/ (ctlFault'.on /\ ctlFault'.gen > ctlFault.gen)
  BY <1>7 DEF Uncommitted
<1> QED
  BY <1>1, <1>2, <1>3, <1>4, <1>5, <1>6, <1>7 DEF CtlNext

\* The plant is at rest when the daemon starts.
LEMMA CtlInitial ==
  ASSUME CtlInit
  PROVE  CtlInv
<1>1. ctl \in [ControlCalls -> CheckedCalls] /\ rtTargets \in AllowedSets /\ devTargets \in AllowedSets
  BY StopSetFacts DEF CtlInit
<1>2. auto_on \in BOOLEAN /\ batchOn \in BOOLEAN
  BY DEF CtlInit
<1>3. /\ begun \in 0 .. MaxCalls /\ dropped \in 0 .. MaxDropped
      /\ latch \in [on : BOOLEAN, gen : 0 .. MaxLatchings] /\ ctlFault \in [on : BOOLEAN, gen : Nat]
  BY ControlConstants DEF CtlInit
<1> QED
  BY <1>1, <1>2, <1>3 DEF CtlInv, CtlScalars

\* Every reachable state of component control satisfies the invariant.
LEMMA CtlInvariant == CtlSpec => []CtlInv
<1>1. CtlInit => CtlInv
  BY CtlInitial
<1>2. CtlInv /\ [CtlNext]_ctlVars => CtlInv'
  BY CtlStep
<1> QED
  BY <1>1, <1>2, PTL DEF CtlSpec

(***************************************************************************)
(* For any forbidden zones and any number of requests, neither the runtime *)
(* nor the device ever holds a temperature and a stirrer speed that lie in *)
(* a zone together: a set is checked as a whole when its request begins,   *)
(* and what is sent and committed later is that set                        *)
(* (component_control_temperature_rpm_pair, apply_ai_targets).             *)
(***************************************************************************)
THEOREM PairsStayAllowed == CtlSpec => []NoForbiddenPair
<1>1. CtlInv => NoForbiddenPair
  BY DEF CtlInv, AllowedSets, NoForbiddenPair
<1> QED
  BY <1>1, CtlInvariant, PTL

(***************************************************************************)
(* A request that sent targets and answers without committing them has    *)
(* latched a control fault of a new generation, whichever requests and     *)
(* latches came in between (latch_tail_failure_after_device_action); one   *)
(* that lost its client is dropped and answers nothing (serve).            *)
(***************************************************************************)
THEOREM UncommittedIsLatched == CtlSpec => UncommittedWriteIsLatched
<1> DEFINE Committed ==
        \A c \in ControlCalls :
            /\ ctl[c].pc \in {"audit", "commit", "ai_commit"} /\ ctl'[c].pc = "idle"
            /\ dropped' = dropped
            => rtTargets' = ctl[c].next \/ (ctlFault'.on /\ ctlFault'.gen > ctlFault.gen)
<1>1. CtlInv /\ [CtlNext]_ctlVars => [Committed]_ctlVars
  BY CtlStep DEF Uncommitted
<1> QED
  BY <1>1, CtlInvariant, PTL DEF CtlSpec, UncommittedWriteIsLatched

\* The targets, latches and requests keep their types.
THEOREM CtlTypeCorrect == CtlSpec => []CtlTypeOK
<1>1. ASSUME CtlInv
      PROVE  CtlTypeOK
  <2>1. \A c \in ControlCalls : ctl[c] \in CtlRecords
    BY <1>1 DEF CtlInv, CheckedCalls
  <2>2. rtTargets \in TargetSets /\ devTargets \in TargetSets
    BY <1>1 DEF CtlInv, AllowedSets
  <2> QED
    BY <1>1, <2>1, <2>2 DEF CtlInv, CtlScalars, CtlTypeOK, CtlRecords, Places, Writing
<1> QED
  BY <1>1, CtlInvariant, PTL
-----------------------------------------------------------------------------
(* Accounts.                                                               *)

Overrides == [set : BOOLEAN, secret : Secrets, password : Passwords]
Changes == [pc : {"idle", "checked", "written"}, user : Accounts, password : Passwords]

AuthTypes ==
    /\ hour \in Nat /\ secret \in Secrets /\ starts \in Nat
    /\ overrides \in [Accounts -> Overrides]
    /\ sessions \subseteq [user : Accounts, expires : Nat, secret : Secrets]
    /\ changes \in [ChangeCalls -> Changes]
    /\ changeLog \in [written : Nat, audited : Nat, failed : Nat]

\* Changes whose override is written and whose event is not.
Unreported == {c \in ChangeCalls : changes[c].pc = "written"}

AuthInv == AuthTypes /\ ChangeIsAuditedOrFailed

\* The values at rest.
LEMMA AuthFacts ==
  /\ NoChange \in Changes /\ NoChange.pc = "idle"
  /\ Secrets # {} => NoOverride \in Overrides /\ NoOverride.set = FALSE
<1>1. PICK u \in Accounts : TRUE
  BY AuthConstants
<1>2. EnvPassword[u] \in Passwords
  BY AuthConstants
<1>3. (CHOOSE v \in Accounts : TRUE) \in Accounts /\ (CHOOSE p \in Passwords : TRUE) \in Passwords
  BY <1>1, <1>2
<1>4. NoChange \in Changes /\ NoChange.pc = "idle"
  BY <1>3 DEF NoChange, Changes
<1>5. Secrets # {} => (CHOOSE s \in Secrets : TRUE) \in Secrets
  OBVIOUS
<1>6. Secrets # {} => NoOverride \in Overrides /\ NoOverride.set = FALSE
  BY <1>3, <1>5 DEF NoOverride, Overrides
<1> QED
  BY <1>4, <1>6

\* An account accepts one password, or none when its override was hashed with another secret.
LEMMA OneIsAccepted == AuthTypes => OnePasswordPerAccount
<1> SUFFICES ASSUME AuthTypes, NEW u \in Accounts
             PROVE  LET accepted == {p \in Passwords : role_for_login(overrides, secret, u, p)}
                        stranded == overrides[u].set /\ overrides[u].secret # secret
                    IN  Cardinality(accepted) = IF stranded THEN 0 ELSE 1
  BY DEF OnePasswordPerAccount
<1> DEFINE accepted == {p \in Passwords : role_for_login(overrides, secret, u, p)}
<1>1. overrides[u] \in Overrides
  BY DEF AuthTypes
<1>2. PICK b \in BOOLEAN, s \in Secrets, w \in Passwords :
         overrides[u] = [set |-> b, secret |-> s, password |-> w]
  BY <1>1 DEF Overrides
<1>3. CASE ~b
  <2>1. accepted = {EnvPassword[u]}
    BY <1>2, <1>3, AuthConstants DEF role_for_login
  <2>2. ~overrides[u].set
    BY <1>2, <1>3
  <2> HIDE DEF accepted
  <2>3. Cardinality(accepted) = 1
    BY <2>1, FS_Singleton
  <2> QED
    BY <2>2, <2>3 DEF accepted
<1>4. CASE b /\ s = secret
  <2>1. \A p \in Passwords : role_for_login(overrides, secret, u, p) <=> p = w
    <3>1. overrides[u] = [set |-> TRUE, secret |-> secret, password |-> w]
      BY <1>2, <1>4
    <3>2. ASSUME NEW p \in Passwords
          PROVE  role_for_login(overrides, secret, u, p) <=>
                    overrides[u] = [set |-> TRUE, secret |-> secret, password |-> p]
      BY <3>1 DEF role_for_login, password_override_hash
    <3>3. ASSUME NEW p \in Passwords
          PROVE  overrides[u] = [set |-> TRUE, secret |-> secret, password |-> p] <=> p = w
      <4>1. overrides[u].password = w
        BY <3>1
      <4>2. overrides[u] = [set |-> TRUE, secret |-> secret, password |-> p] => overrides[u].password = p
        OBVIOUS
      <4> QED
        BY <3>1, <4>1, <4>2
    <3> QED
      BY <3>2, <3>3
  <2>2. accepted = {w}
    BY <2>1
  <2>3. overrides[u].secret = secret
    BY <1>2, <1>4
  <2> HIDE DEF accepted
  <2>4. Cardinality(accepted) = 1
    BY <2>2, FS_Singleton
  <2> QED
    BY <2>3, <2>4 DEF accepted
<1>5. CASE b /\ s # secret
  <2>1. accepted = {}
    BY <1>2, <1>5 DEF role_for_login, password_override_hash
  <2>2. overrides[u].set /\ overrides[u].secret # secret
    BY <1>2, <1>5
  <2> HIDE DEF accepted
  <2>3. Cardinality(accepted) = 0
    BY <2>1, FS_EmptySet
  <2> QED
    BY <2>2, <2>3 DEF accepted
<1> QED
  BY <1>3, <1>4, <1>5

\* Startup: nothing is changed, nothing is open.
LEMMA AuthInvInit == AuthInit => AuthInv
<1> SUFFICES ASSUME AuthInit
             PROVE  AuthInv
  OBVIOUS
<1>1. secret \in Secrets
  BY DEF AuthInit
<1>2. changeLog = [written |-> 0, audited |-> 0, failed |-> 0]
  BY DEF AuthInit
<1>3. AuthTypes
  BY <1>1, <1>2, AuthFacts DEF AuthInit, AuthTypes
<1>4. Unreported = {}
  BY AuthFacts DEF AuthInit, Unreported
<1>5. Cardinality(Unreported) = 0
  BY <1>4, FS_EmptySet
<1>6. ChangeIsAuditedOrFailed
  BY <1>2, <1>5 DEF ChangeIsAuditedOrFailed, Unreported
<1> QED
  BY <1>3, <1>6 DEF AuthInv

\* Steps that leave calls and log alone.
LEMMA AuthQuietSteps ==
  ASSUME AuthInv, UNCHANGED <<changes, changeLog>>, AuthTypes'
  PROVE  AuthInv'
BY DEF AuthInv, ChangeIsAuditedOrFailed

\* A call whose pc is replaced leaves the others' alone.
LEMMA OneCallChanges ==
  ASSUME AuthTypes, IsFiniteSet(ChangeCalls), NEW c \in ChangeCalls, NEW call \in Changes,
         changes' = [changes EXCEPT ![c] = call]
  PROVE  /\ changes' \in [ChangeCalls -> Changes]
         /\ IsFiniteSet(Unreported) /\ Cardinality(Unreported) \in Nat
         /\ call.pc = changes[c].pc => Cardinality(Unreported') = Cardinality(Unreported)
         /\ call.pc # "written" /\ changes[c].pc # "written" =>
               Cardinality(Unreported') = Cardinality(Unreported)
         /\ call.pc = "written" /\ changes[c].pc # "written" =>
               Cardinality(Unreported') = Cardinality(Unreported) + 1
         /\ call.pc # "written" /\ changes[c].pc = "written" =>
               Cardinality(Unreported') = Cardinality(Unreported) - 1
<1>1. changes' \in [ChangeCalls -> Changes] /\ changes'[c] = call
      /\ \A d \in ChangeCalls : d # c => changes'[d] = changes[d]
  BY DEF AuthTypes
<1>2. IsFiniteSet(Unreported) /\ Cardinality(Unreported) \in Nat
  <2>1. Unreported \subseteq ChangeCalls
    BY DEF Unreported
  <2> QED
    BY <2>1, FS_Subset, FS_CardinalityType
<1>3. (call.pc = changes[c].pc \/ (call.pc # "written" /\ changes[c].pc # "written")) =>
         Unreported' = Unreported
  BY <1>1 DEF Unreported
<1>4. call.pc = "written" /\ changes[c].pc # "written" =>
         Unreported' = Unreported \cup {c} /\ c \notin Unreported
  BY <1>1 DEF Unreported
<1>5. call.pc # "written" /\ changes[c].pc = "written" =>
         Unreported' = Unreported \ {c} /\ c \in Unreported
  BY <1>1 DEF Unreported
<1>6. c \notin Unreported => Cardinality(Unreported \cup {c}) = Cardinality(Unreported) + 1
  BY <1>2, FS_AddElement
<1>7. c \in Unreported => Cardinality(Unreported \ {c}) = Cardinality(Unreported) - 1
  BY <1>2, FS_RemoveElement
<1> QED
  BY <1>1, <1>2, <1>3, <1>4, <1>5, <1>6, <1>7
\* Logging in, asking for a permission, the clock.
LEMMA SessionSteps ==
  ASSUME AuthInv,
         \/ \E u \in Accounts, p \in Passwords : auth_login(u, p)
         \/ \E x \in sessions, permission \in all_permissions : require_permission(x, permission)
         \/ HourPasses
  PROVE  AuthInv'
<1>0. AuthTypes
  BY DEF AuthInv
<1>1. ASSUME NEW u \in Accounts, NEW p \in Passwords, auth_login(u, p)
      PROVE  AuthInv'
  <2>1. [user |-> u, expires |-> hour + SessionHours, secret |-> secret]
           \in [user : Accounts, expires : Nat, secret : Secrets]
    BY <1>0, AuthConstants DEF AuthTypes
  <2>2. AuthTypes'
    BY <1>0, <1>1, <2>1 DEF auth_login, AuthTypes
  <2> QED
    BY <1>1, <2>2, AuthQuietSteps DEF auth_login
<1>2. ASSUME NEW x \in sessions, NEW permission \in all_permissions,
             require_permission(x, permission)
      PROVE  AuthInv'
  <2>1. AuthTypes'
    BY <1>0, <1>2 DEF require_permission, AuthTypes
  <2> QED
    BY <1>2, <2>1, AuthQuietSteps DEF require_permission
<1>3. CASE HourPasses
  <2>1. AuthTypes'
    BY <1>0, <1>3 DEF HourPasses, AuthTypes
  <2> QED
    BY <1>3, <2>1, AuthQuietSteps DEF HourPasses
<1> QED
  BY <1>1, <1>2, <1>3

\* A password change: its check, its write and its event.
LEMMA ChangeSteps ==
  ASSUME AuthInv, IsFiniteSet(ChangeCalls), NEW c \in ChangeCalls,
         \/ \E x \in sessions, old, new \in Passwords : prepare_password_change(c, x, old, new)
         \/ set_password_override(c) \/ AuditChange(c)
  PROVE  AuthInv'
<1>0. AuthTypes /\ changes[c] \in Changes
      /\ changeLog.written = changeLog.audited + changeLog.failed + Cardinality(Unreported)
      /\ changeLog.written \in Nat /\ changeLog.audited \in Nat /\ changeLog.failed \in Nat
      /\ changeLog = [written |-> changeLog.written, audited |-> changeLog.audited,
                      failed |-> changeLog.failed]
  BY DEF AuthInv, AuthTypes, ChangeIsAuditedOrFailed, Unreported
<1>1. ASSUME AuthTypes',
             changeLog'.written = changeLog'.audited + changeLog'.failed + Cardinality(Unreported')
      PROVE  AuthInv'
  BY <1>1 DEF AuthInv, ChangeIsAuditedOrFailed, Unreported
<1>2. ASSUME NEW x \in sessions, NEW old \in Passwords, NEW new \in Passwords,
             prepare_password_change(c, x, old, new)
      PROVE  AuthInv'
  <2> DEFINE call == [pc |-> "checked", user |-> x.user, password |-> new]
  <2>1. x.user \in Accounts
    BY <1>0 DEF AuthTypes
  <2>2. call \in Changes /\ call.pc = "checked" /\ changes' = [changes EXCEPT ![c] = call]
    BY <1>2, <2>1 DEF prepare_password_change, Changes
  <2> HIDE DEF call
  <2>3. changes[c].pc = "idle" /\ changeLog' = changeLog
    BY <1>2 DEF prepare_password_change
  <2>4. changes' \in [ChangeCalls -> Changes] /\ Cardinality(Unreported') = Cardinality(Unreported)
    BY <1>0, <2>2, <2>3, OneCallChanges
  <2>5. AuthTypes'
    BY <1>0, <1>2, <2>4 DEF prepare_password_change, AuthTypes
  <2> QED
    BY <1>0, <1>1, <2>3, <2>4, <2>5
<1>3. CASE set_password_override(c)
  <2>1. CASE /\ overrides' = [overrides EXCEPT ![changes[c].user] =
                    password_override_hash(secret, changes[c].password)]
             /\ changes' = [changes EXCEPT ![c].pc = "written"]
             /\ changeLog' = [changeLog EXCEPT !.written = @ + 1]
    <3> DEFINE call == [changes[c] EXCEPT !.pc = "written"]
               hash == password_override_hash(secret, changes[c].password)
    <3>1. call \in Changes /\ call.pc = "written"
      BY <1>0 DEF Changes
    <3>2. changes' = [changes EXCEPT ![c] = call]
      BY <1>0, <2>1 DEF AuthTypes
    <3>3. hash \in Overrides
      BY <1>0 DEF password_override_hash, Overrides, Changes, AuthTypes
    <3> HIDE DEF call, hash
    <3>4. overrides' \in [Accounts -> Overrides]
      BY <1>0, <2>1, <3>3 DEF AuthTypes, hash
    <3>5. changes[c].pc = "checked"
      BY <1>3 DEF set_password_override
    <3>6. /\ changes' \in [ChangeCalls -> Changes] /\ Cardinality(Unreported) \in Nat
          /\ Cardinality(Unreported') = Cardinality(Unreported) + 1
      BY <1>0, <3>1, <3>2, <3>5, OneCallChanges
    <3>7. changeLog' = [written |-> changeLog.written + 1, audited |-> changeLog.audited,
                        failed |-> changeLog.failed]
      BY <1>0, <2>1
    <3>8. AuthTypes'
      BY <1>0, <1>3, <3>4, <3>6, <3>7 DEF set_password_override, AuthTypes
    <3> QED
      BY <1>0, <1>1, <3>6, <3>7, <3>8
  <2>2. CASE changes' = [changes EXCEPT ![c] = NoChange] /\ UNCHANGED <<overrides, changeLog>>
    <3>1. changes[c].pc = "checked"
      BY <1>3 DEF set_password_override
    <3>2. /\ changes' \in [ChangeCalls -> Changes]
          /\ Cardinality(Unreported') = Cardinality(Unreported)
      BY <1>0, <2>2, <3>1, AuthFacts, OneCallChanges
    <3>3. AuthTypes'
      BY <1>0, <1>3, <2>2, <3>2 DEF set_password_override, AuthTypes
    <3> QED
      BY <1>0, <1>1, <2>2, <3>2, <3>3
  <2> QED
    BY <1>3, <2>1, <2>2 DEF set_password_override
<1>4. CASE AuditChange(c)
  <2>1. changes[c].pc = "written" /\ changes' = [changes EXCEPT ![c] = NoChange]
    BY <1>4 DEF AuditChange
  <2>2. /\ changes' \in [ChangeCalls -> Changes] /\ Cardinality(Unreported) \in Nat
        /\ Cardinality(Unreported') = Cardinality(Unreported) - 1
    BY <1>0, <2>1, AuthFacts, OneCallChanges
  <2>3. \/ changeLog' = [written |-> changeLog.written, audited |-> changeLog.audited + 1,
                         failed |-> changeLog.failed]
        \/ changeLog' = [written |-> changeLog.written, audited |-> changeLog.audited,
                         failed |-> changeLog.failed + 1]
    BY <1>0, <1>4 DEF AuditChange
  <2>4. changeLog' \in [written : Nat, audited : Nat, failed : Nat]
    BY <1>0, <2>3
  <2>5. AuthTypes'
    BY <1>0, <1>4, <2>2, <2>4 DEF AuditChange, AuthTypes
  <2>6. changeLog'.written = changeLog'.audited + changeLog'.failed + Cardinality(Unreported')
    BY <1>0, <2>2, <2>3
  <2> QED
    BY <1>1, <2>5, <2>6
<1> QED
  BY <1>2, <1>3, <1>4

\* A restart ends the calls in flight: a written change without its event counts as failed.
LEMMA RestartStep ==
  ASSUME AuthInv, IsFiniteSet(ChangeCalls),
         NEW s \in Secrets, NEW loopback \in BOOLEAN, StartDaemon(s, loopback)
  PROVE  AuthInv'
<1>0. AuthTypes
      /\ changeLog.written = changeLog.audited + changeLog.failed + Cardinality(Unreported)
      /\ changeLog.written \in Nat /\ changeLog.audited \in Nat /\ changeLog.failed \in Nat
      /\ changeLog = [written |-> changeLog.written, audited |-> changeLog.audited,
                      failed |-> changeLog.failed]
  BY DEF AuthInv, AuthTypes, ChangeIsAuditedOrFailed, Unreported
<1>1. Cardinality(Unreported) \in Nat
  <2>1. Unreported \subseteq ChangeCalls
    BY DEF Unreported
  <2> QED
    BY <2>1, FS_Subset, FS_CardinalityType
<1>2. changeLog' = [written |-> changeLog.written, audited |-> changeLog.audited,
                    failed |-> changeLog.failed + Cardinality(Unreported)]
  <2>1. changeLog' = [changeLog EXCEPT !.failed = @ + Cardinality(Unreported)]
    BY DEF StartDaemon, Unreported
  <2> QED
    BY <1>0, <2>1
<1>3. Unreported' = {}
  BY AuthFacts DEF StartDaemon, Unreported
<1>4. Cardinality(Unreported') = 0
  BY <1>3, FS_EmptySet
<1>5. changes' \in [ChangeCalls -> Changes]
  BY AuthFacts DEF StartDaemon
<1>6. AuthTypes'
  BY <1>0, <1>1, <1>2, <1>5 DEF StartDaemon, AuthTypes
<1>7. changeLog'.written = changeLog'.audited + changeLog'.failed + Cardinality(Unreported')
  BY <1>0, <1>1, <1>2, <1>4
<1> QED
  BY <1>6, <1>7 DEF AuthInv, ChangeIsAuditedOrFailed, Unreported

\* Every reachable state of the accounts satisfies the invariant.
LEMMA AuthInvariant ==
  ASSUME IsFiniteSet(ChangeCalls)
  PROVE  AuthSpec => []AuthInv
<1>1. ASSUME AuthInv, [AuthNext]_authVars
      PROVE  AuthInv'
  <2>1. CASE UNCHANGED authVars
    <3>1. AuthTypes'
      BY <1>1, <2>1 DEF authVars, AuthInv, AuthTypes
    <3> QED
      BY <1>1, <2>1, <3>1, AuthQuietSteps DEF authVars
  <2>2. CASE AuthNext
    BY <1>1, <2>2, SessionSteps, ChangeSteps, RestartStep DEF AuthNext
  <2> QED
    BY <1>1, <2>1, <2>2
<1> QED
  BY <1>1, AuthInvInit, PTL DEF AuthSpec

(***************************************************************************)
(* An account has one password, the environment's or the changed one, or   *)
(* none once the secret it was changed under is gone; a change that took   *)
(* effect is audited or reported as failed; and only a live session of     *)
(* this daemon's secret is let through.  For any accounts, passwords and   *)
(* secrets, any finite number of overlapping changes, any number of        *)
(* restarts (auth_change_password, role_for_login, authenticated_user).    *)
(***************************************************************************)
THEOREM AccountsStayGuarded ==
  ASSUME IsFiniteSet(ChangeCalls)
  PROVE  AuthSpec => AccountsAreGuarded
<1>1. AuthInv => OnePasswordPerAccount /\ ChangeIsAuditedOrFailed
  BY OneIsAccepted DEF AuthInv
<1>2. ASSUME AuthInv, [AuthNext]_authVars
      PROVE  GrantNeedsLiveSession
  <2>0. SUFFICES ASSUME granted' # granted, granted'.ok
                 PROVE  granted'.secret = secret /\ granted'.expires >= hour
    BY DEF GrantNeedsLiveSession
  <2>1. PICK x \in sessions, permission \in all_permissions : require_permission(x, permission)
    BY <1>2, <2>0
       DEF AuthNext, authVars, auth_login, prepare_password_change, set_password_override,
           AuditChange, HourPasses, StartDaemon
  <2>2. /\ granted'.expires = x.expires /\ granted'.secret = x.secret
        /\ granted'.ok = (authenticated_user(x) /\ role_allows(x.user, permission))
    BY <2>1 DEF require_permission
  <2>3. authenticated_user(x)
    BY <2>0, <2>2
  <2>4. x.expires \in Nat /\ hour \in Nat
    BY <1>2 DEF AuthInv, AuthTypes
  <2> QED
    BY <2>2, <2>3, <2>4 DEF authenticated_user
<1> QED
  BY <1>1, <1>2, AuthInvariant, PTL DEF AuthSpec, AccountsAreGuarded

\* The clock and the restarts stop at their bounds, and no session outlives the clock's last hour.
AuthBounds ==
    /\ hour <= MaxHours /\ starts <= MaxStarts
    /\ \A x \in sessions : x.expires <= MaxHours + SessionHours

\* The types say where each value lies, once the bounds hold and no event is counted twice.
LEMMA AuthTypesSuffice ==
  ASSUME AuthInv, AuthBounds, IsFiniteSet(ChangeCalls)
  PROVE  AuthTypeOK
<1>0. /\ AuthTypes /\ hour \in Nat /\ starts \in Nat /\ secret \in Secrets
      /\ overrides \in [Accounts -> Overrides]
  BY DEF AuthInv, AuthTypes
<1>1. hour \in 0 .. MaxHours /\ starts \in 0 .. MaxStarts
  BY <1>0, AuthConstants DEF AuthBounds
<1>2. sessions \subseteq [user : Accounts, expires : 0 .. (MaxHours + SessionHours), secret : Secrets]
  <2> SUFFICES ASSUME NEW x \in sessions
               PROVE  x \in [user : Accounts, expires : 0 .. (MaxHours + SessionHours), secret : Secrets]
    OBVIOUS
  <2>1. PICK u \in Accounts, n \in Nat, s \in Secrets : x = [user |-> u, expires |-> n, secret |-> s]
    BY <1>0 DEF AuthTypes
  <2>2. x.expires = n /\ x.expires <= MaxHours + SessionHours
    BY <2>1 DEF AuthBounds
  <2>3. n \in 0 .. (MaxHours + SessionHours)
    BY <2>2, AuthConstants
  <2> QED
    BY <2>1, <2>3
<1>3. \A c \in ChangeCalls : changes[c].pc \in {"idle", "checked", "written"}
  BY <1>0 DEF AuthTypes, Changes
<1>4. changeLog.audited + changeLog.failed <= changeLog.written
  <2>1. Cardinality(Unreported) \in Nat
    <3>1. Unreported \subseteq ChangeCalls
      BY DEF Unreported
    <3> QED
      BY <3>1, FS_Subset, FS_CardinalityType
  <2>2. /\ changeLog.written = changeLog.audited + changeLog.failed + Cardinality(Unreported)
        /\ changeLog.written \in Nat /\ changeLog.audited \in Nat /\ changeLog.failed \in Nat
    BY <1>0 DEF AuthInv, AuthTypes, ChangeIsAuditedOrFailed, Unreported
  <2> QED
    BY <2>1, <2>2
<1> QED
  BY <1>0, <1>1, <1>2, <1>3, <1>4 DEF AuthTypeOK, Overrides

\* A login adds a session of this hour; the clock and a restart stop at their bounds.
LEMMA AuthBoundsStep ==
  ASSUME AuthTypes, AuthBounds, [AuthNext]_authVars
  PROVE  AuthBounds'
<1>0. hour \in Nat /\ starts \in Nat
  BY DEF AuthTypes
<1>1. ASSUME UNCHANGED <<hour, starts, sessions>>
      PROVE  AuthBounds'
  BY <1>1 DEF AuthBounds
<1>2. ASSUME NEW u \in Accounts, NEW p \in Passwords, auth_login(u, p)
      PROVE  AuthBounds'
  <2>1. hour + SessionHours <= MaxHours + SessionHours
    BY <1>0, AuthConstants DEF AuthBounds
  <2> QED
    BY <1>2, <2>1 DEF auth_login, AuthBounds
<1>3. CASE HourPasses
  BY <1>0, <1>3, AuthConstants DEF HourPasses, AuthBounds
<1>4. ASSUME NEW s \in Secrets, NEW loopback \in BOOLEAN, StartDaemon(s, loopback)
      PROVE  AuthBounds'
  BY <1>0, <1>4, AuthConstants DEF StartDaemon, AuthBounds
<1> QED
  BY <1>1, <1>2, <1>3, <1>4
     DEF AuthNext, authVars, require_permission, prepare_password_change, set_password_override,
         AuditChange

(***************************************************************************)
(* The types of the accounts: every override, session and call in flight   *)
(* stays in its range, a session expires at most its lifetime after the    *)
(* last hour, and no more password changes are reported than were written  *)
(* (auth_login, auth_change_password, a restart in between).               *)
(***************************************************************************)
THEOREM AuthTypeCorrect ==
  ASSUME IsFiniteSet(ChangeCalls)
  PROVE  AuthSpec => []AuthTypeOK
<1>1. AuthInit => AuthBounds
  BY AuthConstants DEF AuthInit, AuthBounds
<1>2. ASSUME AuthInv, AuthBounds, [AuthNext]_authVars
      PROVE  AuthBounds'
  BY <1>2, AuthBoundsStep DEF AuthInv
<1>3. AuthInv /\ AuthBounds => AuthTypeOK
  BY AuthTypesSuffice
<1> QED
  BY <1>1, <1>2, <1>3, AuthInvariant, PTL DEF AuthSpec
=============================================================================
