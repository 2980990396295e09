------------------------------ MODULE AuditStore ------------------------------
(***************************************************************************)
(* The audited part of the database: the hash chain of control_events, the *)
(* recipes (processes and their steps), product results and                *)
(* recommendations, whose rows are committed in one transaction with the   *)
(* audit event that reports them.                                          *)
(*                                                                         *)
(* SQLite is external and taken as documented: WAL, several connections.   *)
(* A transaction sees the database as of its first statement, and the      *)
(* first write of one that has begun with a read fails when another        *)
(* connection has committed since.                                         *)
(***************************************************************************)
EXTENDS Naturals, Sequences, FiniteSets, SequencesExt

CONSTANTS
    StoreCallers,        \* HTTP handlers and the control loop, each with a connection
    Statuses,            \* what an operator may set a recipe's status to
    MaxEvents,           \* bound on events, what is done to them from outside included
    MaxRecipes, MaxSteps, MaxBatches,
    CheckLimit,          \* AUDIT_CHAIN_CHECK_LIMIT
    MaxDamage            \* bound on damage done to stored events

ASSUME StoreConstants ==
    /\ CheckLimit \in Nat \ {0} /\ MaxEvents \in Nat /\ MaxRecipes \in Nat
    /\ MaxSteps \in Nat /\ MaxBatches \in Nat /\ MaxDamage \in Nat

VARIABLES
    events,      \* control_events with a hash, in id order
    recipes,     \* processes and process_steps
    batchRows,   \* batches: finished or not
    results,     \* batches with a product result
    advice,      \* ai_recommendations, counted
    moved,       \* a commit happened since the open transaction's first statement
    txs,         \* open transactions
    chainRead,   \* a status request between its two queries
    damage       \* history: damage done to stored events

storeVars == <<events, recipes, batchRows, results, advice, moved, txs, chainRead, damage>>

-----------------------------------------------------------------------------
(* The chain.  A digest is the sequence of everything it covers.           *)

NoHash == <<>>

control_event_hash(previous, content) == Append(previous, content)

\* Mutant: the newest event by its clock, not by its id.
LastHashByClock(evs) ==
    IF evs = <<>> THEN NoHash
    ELSE LET newest == {i \in DOMAIN evs : \A j \in DOMAIN evs : evs[j].content.at <= evs[i].content.at}
         IN  evs[CHOOSE i \in newest : \A j \in newest : j <= i].hash

\* SELECT event_hash ... ORDER BY id DESC LIMIT 1
LastHash(evs) == IF evs = <<>> THEN NoHash ELSE Last(evs).hash

Event(previous, content) ==
    [content |-> content, prev |-> previous, hash |-> control_event_hash(previous, content)]

\* Mutant: each event is checked against the predecessor it names itself.
BrokenByOwnWord(evs, truncated) ==
    {i \in DOMAIN evs : evs[i].hash # control_event_hash(evs[i].prev, evs[i].content)}

\* audit_chain_status_from_events: the first event of a truncated window is taken at its word.
BrokenEvents(evs, truncated) ==
    {i \in DOMAIN evs :
        LET previous == IF i > 1 THEN evs[i - 1].hash
                        ELSE IF truncated THEN evs[1].prev ELSE NoHash
        IN  evs[i].prev # previous \/ evs[i].hash # control_event_hash(previous, evs[i].content)}

\* full_audit_chain_status_for_diagnostics
FullChainValid(evs) == BrokenEvents(evs, FALSE) = {}

-----------------------------------------------------------------------------
(* Audited operations.                                                     *)

Ops == [kind : {"event", "create", "recommend"}, about : {0}, status : {"draft"}]
       \cup [kind : {"update"}, about : 1 .. MaxRecipes, status : Statuses]
       \cup [kind : {"addStep", "updateStep"}, about : 1 .. MaxRecipes, status : {"draft"}]
       \cup [kind : {"result"}, about : 1 .. MaxBatches, status : {"draft"}]

\* Operations whose transaction begins with a SELECT.
ReadsFirst(op) == op.kind \in {"event", "addStep", "updateStep"}

\* The rows the operation needs; without them it returns None or fails, and nothing is written.
Applicable(op) ==
    CASE op.kind = "create" -> Len(recipes) < MaxRecipes
      [] op.kind = "update" -> op.about \in DOMAIN recipes
      [] op.kind = "addStep" -> op.about \in DOMAIN recipes /\ Len(recipes[op.about].steps) < MaxSteps
      [] op.kind = "updateStep" -> op.about \in DOMAIN recipes /\ recipes[op.about].steps # <<>>
      [] op.kind = "result" -> op.about \in DOMAIN batchRows /\ batchRows[op.about] = "finished"
      [] OTHER -> TRUE

create_process == Append(recipes, [version |-> 1, status |-> "draft", steps |-> <<>>])

update_process(p, status) == [recipes EXCEPT ![p].version = @ + 1, ![p].status = status]

\* SELECT COALESCE(MAX(step_index), 0) + 1
NextStepIndex(p) == IF p \in DOMAIN recipes THEN Len(recipes[p].steps) + 1 ELSE 1

\* A step's values are not kept, only its index; an update leaves that alone.
add_process_step(p, index) == [recipes EXCEPT ![p].steps = Append(@, index)]

RecipesAfter(op, index) ==
    CASE op.kind = "create" -> create_process
      [] op.kind = "update" -> update_process(op.about, op.status)
      [] op.kind = "addStep" -> add_process_step(op.about, index)
      [] OTHER -> recipes

NoTx == [open |-> FALSE, op |-> [kind |-> "event", about |-> 0, status |-> "draft"],
         prev |-> NoHash, index |-> 0]

\* Mutant: a transaction begins whoever holds the lock.
NoWriteLock == TRUE

\* sqlx_write_lock and audit_write_lock: one audited transaction at a time.
WriteLockFree == \A c \in StoreCallers : ~txs[c].open

StoreTypeOK ==
    /\ Len(events) <= MaxEvents /\ Len(recipes) <= MaxRecipes /\ Len(batchRows) <= MaxBatches
    /\ \A p \in DOMAIN recipes :
          /\ recipes[p].version \in Nat \ {0} /\ recipes[p].status \in Statuses \cup {"draft", "applied"}
          /\ recipes[p].steps \in Seq(1 .. MaxSteps)
    /\ results \subseteq DOMAIN batchRows /\ advice \in Nat /\ moved \in BOOLEAN
    /\ Cardinality({c \in StoreCallers : txs[c].open}) <= 1
    /\ chainRead.pc \in {"idle", "counted"} /\ damage \in 0 .. MaxDamage

StoreInit ==
    /\ events = <<>> /\ recipes = <<>> /\ batchRows = <<>> /\ results = {} /\ advice = 0
    /\ moved = FALSE
    /\ txs = [c \in StoreCallers |-> NoTx]
    /\ chainRead = [pc |-> "idle", total |-> 0, valid |-> TRUE]
    /\ damage = 0

RowsSame == UNCHANGED <<events, recipes, batchRows, results, advice>>

\* The locks, BEGIN, and what the first statement reads.
BeginTx(c, op) ==
    /\ WriteLockFree
    /\ Len(events) + damage < MaxEvents /\ Applicable(op)
    /\ txs' = [txs EXCEPT ![c] =
           [open |-> TRUE, op |-> op, prev |-> LastHash(events), index |-> NextStepIndex(op.about)]]
    /\ moved' = FALSE
    /\ RowsSame /\ UNCHANGED <<chainRead, damage>>

\* One row per finished batch: a second result replaces the first.
insert_product_result(b) == results \cup {b}

insert_recommendation == advice + 1

Rows(op, index) ==
    /\ recipes' = RecipesAfter(op, index)
    /\ results' = IF op.kind = "result" THEN insert_product_result(op.about) ELSE results
    /\ advice' = IF op.kind = "recommend" THEN insert_recommendation ELSE advice

\* Mutant: the rows are committed first, and the event may then fail.
CommitRowsThenEvent(c, at) ==
    LET tx == txs[c] IN
    /\ tx.open
    /\ ~(ReadsFirst(tx.op) /\ moved)
    /\ Rows(tx.op, tx.index)
    /\ \/ events' = Append(events, Event(LastHash(events), [kind |-> tx.op.kind, about |-> tx.op.about, at |-> at]))
       \/ UNCHANGED events
    /\ moved' = FALSE
    /\ txs' = [txs EXCEPT ![c] = NoTx]
    /\ UNCHANGED <<batchRows, chainRead, damage>>

(***************************************************************************)
(* The writes and COMMIT.  The event goes in with the rows it reports, its *)
(* predecessor read inside the transaction.                                *)
(***************************************************************************)
CommitTx(c, at) ==
    LET tx == txs[c]
        prev == IF tx.op.kind = "event" THEN tx.prev ELSE LastHash(events) IN
    /\ tx.open
    /\ ~(ReadsFirst(tx.op) /\ moved)
    /\ Rows(tx.op, tx.index)
    /\ events' = Append(events, Event(prev, [kind |-> tx.op.kind, about |-> tx.op.about, at |-> at]))
    /\ moved' = FALSE
    /\ txs' = [txs EXCEPT ![c] = NoTx]
    /\ UNCHANGED <<batchRows, chainRead, damage>>

\* Any statement fails, SQLITE_BUSY_SNAPSHOT included, the daemon dies, or the client goes away
\* and the handler is dropped with its transaction: rolled back.
RollbackTx(c) ==
    /\ txs[c].open
    /\ txs' = [txs EXCEPT ![c] = NoTx]
    /\ moved' = FALSE
    /\ RowsSame /\ UNCHANGED <<chainRead, damage>>

(***************************************************************************)
(* Writers that take neither lock.                                         *)
(***************************************************************************)
create_batch_for_process ==
    /\ Len(batchRows) < MaxBatches
    /\ batchRows' = Append(batchRows, "open") /\ moved' = ~WriteLockFree
    /\ UNCHANGED <<events, recipes, results, advice, txs, chainRead, damage>>

finish_batch(b) ==
    /\ b \in DOMAIN batchRows /\ batchRows[b] = "open"
    /\ batchRows' = [batchRows EXCEPT ![b] = "finished"] /\ moved' = ~WriteLockFree
    /\ UNCHANGED <<events, recipes, results, advice, txs, chainRead, damage>>

\* Under process_write_lock, which the audited recipe operations hold too.
mark_process_applied(p) ==
    /\ p \in DOMAIN recipes /\ recipes[p].status # "applied"
    /\ \A c \in StoreCallers : ~(txs[c].open /\ txs[c].op.kind \in {"create", "update", "addStep", "updateStep"})
    /\ recipes' = [recipes EXCEPT ![p].status = "applied"] /\ moved' = ~WriteLockFree
    /\ UNCHANGED <<events, batchRows, results, advice, txs, chainRead, damage>>

-----------------------------------------------------------------------------
(* audit_chain_status: a count and a window, two queries.                  *)

CountEvents ==
    /\ chainRead.pc = "idle"
    /\ chainRead' = [chainRead EXCEPT !.pc = "counted", !.total = Len(events)]
    /\ RowsSame /\ UNCHANGED <<moved, txs, damage>>

ReadWindow ==
    LET truncated == chainRead.total > CheckLimit
        first == IF Len(events) > CheckLimit THEN Len(events) - CheckLimit + 1 ELSE 1
        window == SubSeq(events, first, Len(events)) IN
    /\ chainRead.pc = "counted"
    /\ chainRead' = [pc |-> "idle", total |-> 0,
                         valid |-> BrokenEvents(window, truncated) = {} /\ ~truncated]
    /\ RowsSame /\ UNCHANGED <<moved, txs, damage>>

(***************************************************************************)
(* Damage from outside the program: a covered field of a stored event is   *)
(* changed, or an event that has a successor is lost.                      *)
(***************************************************************************)
DamageEvents(i) ==
    /\ damage < MaxDamage /\ i \in DOMAIN events
    /\ \/ events' = [events EXCEPT ![i].content.at = 9]
       \/ i < Len(events) /\ events' = RemoveAt(events, i)
    /\ damage' = damage + 1
    /\ UNCHANGED <<recipes, batchRows, results, advice, moved, txs, chainRead>>

StoreNext ==
    \/ \E c \in StoreCallers :
          \/ \E op \in Ops : BeginTx(c, op)
          \/ \E at \in 0 .. 1 : CommitTx(c, at)       \* the clock may have been set back
          \/ RollbackTx(c)
    \/ create_batch_for_process
    \/ \E b \in 1 .. MaxBatches : finish_batch(b)
    \/ \E p \in 1 .. MaxRecipes : mark_process_applied(p)
    \/ CountEvents \/ ReadWindow
    \/ \E i \in 1 .. MaxEvents : DamageEvents(i)

StoreSpec == StoreInit /\ [][StoreNext]_storeVars

-----------------------------------------------------------------------------
(* Properties.                                                             *)

(***************************************************************************)
(* Whatever writers interleave and fail, and even when the clock is set    *)
(* back, the chain the program itself wrote verifies from its first event  *)
(* to its last (insert_control_event, insert_control_event_in_sqlx_tx).    *)
(***************************************************************************)
ChainUnbroken == damage = 0 => FullChainValid(events)

(***************************************************************************)
(* Recipes and results say what the audit log says: every change has its   *)
(* event and every event its change, and a recipe's steps are numbered     *)
(* without gap or repetition (the *_with_audit operations).                *)
(***************************************************************************)
RowsMatchAudit ==
    damage = 0 =>
        LET Count(kind, about) ==
                Cardinality({i \in DOMAIN events :
                    events[i].content.kind = kind /\ events[i].content.about = about})
        IN  /\ Len(recipes) = Count("create", 0)
            /\ advice = Count("recommend", 0)
            /\ results = {b \in 1 .. MaxBatches : Count("result", b) > 0}
            /\ \A p \in DOMAIN recipes :
                  /\ recipes[p].version = 1 + Count("update", p)
                  /\ recipes[p].steps = [k \in 1 .. Count("addStep", p) |-> k]

(***************************************************************************)
(* A chain reported valid was not damaged; one that is neither damaged nor *)
(* longer than the window is reported valid unless an event was added      *)
(* between the two queries (audit_chain_status_sqlx).                      *)
(***************************************************************************)
ChainStatusIsTrue ==
    [][chainRead.pc = "counted" /\ chainRead'.pc = "idle" =>
          /\ chainRead'.valid => damage = 0
          /\ damage = 0 /\ Len(events) = chainRead.total /\ chainRead.total <= CheckLimit
                => chainRead'.valid]_storeVars

\* The log as its readers see it: the operation and its row, in id order.
LogEntries ==
    [i \in DOMAIN events |-> [kind |-> events[i].content.kind, about |-> events[i].content.about]]

Ledger == INSTANCE AuditLedger WITH log <- LogEntries, batches <- batchRows

(***************************************************************************)
(* Transactions that read first and write later, beside writers that take  *)
(* no lock, behave as if each audited operation happened at its commit, on *)
(* the rows of that moment and with its entry: no step number is given     *)
(* twice, no result is recorded for an open batch, and one that is rolled  *)
(* back leaves neither row nor entry (the *_with_audit operations).        *)
(***************************************************************************)
ImplementsLedger == Ledger!Spec

=============================================================================
