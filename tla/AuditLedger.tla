----------------------------- MODULE AuditLedger -----------------------------
(***************************************************************************)
(* What the audited operations of the database promise to whoever reads    *)
(* the log: each of them happens at one point in time, on the rows as they *)
(* are at that point, together with its entry in the log; one that fails   *)
(* has not happened.  No transaction, lock or hash is visible.  Entries    *)
(* are never changed or reordered, but may be lost to damage from outside. *)
(***************************************************************************)
EXTENDS Naturals, Sequences, SequencesExt

CONSTANTS
    Statuses    \* what an operator may set a recipe's status to

VARIABLES
    log,        \* entries: what was done, to which row
    recipes,    \* version, status and the numbers of the steps
    batches,    \* "open" or "finished"
    results,    \* batches with a product result
    advice      \* recommendations, counted

ledger == <<log, recipes, batches, results, advice>>

Init == log = <<>> /\ recipes = <<>> /\ batches = <<>> /\ results = {} /\ advice = 0

-----------------------------------------------------------------------------
(* Audited operations.                                                     *)

Enter(kind, about) == log' = Append(log, [kind |-> kind, about |-> about])

Note ==
    /\ Enter("event", 0)
    /\ UNCHANGED <<recipes, batches, results, advice>>

Create ==
    /\ Enter("create", 0)
    /\ recipes' = Append(recipes, [version |-> 1, status |-> "draft", steps |-> <<>>])
    /\ UNCHANGED <<batches, results, advice>>

Update(p, status) ==
    /\ Enter("update", p)
    /\ recipes' = [recipes EXCEPT ![p].version = @ + 1, ![p].status = status]
    /\ UNCHANGED <<batches, results, advice>>

\* Steps are numbered from one, without gap or repetition.
AddStep(p) ==
    /\ Enter("addStep", p)
    /\ recipes' = [recipes EXCEPT ![p].steps = Append(@, Len(@) + 1)]
    /\ UNCHANGED <<batches, results, advice>>

UpdateStep(p) ==
    /\ recipes[p].steps # <<>>
    /\ Enter("updateStep", p)
    /\ UNCHANGED <<recipes, batches, results, advice>>

\* A batch has at most one result, and only once it is over.
Result(b) ==
    /\ batches[b] = "finished"
    /\ Enter("result", b)
    /\ results' = results \cup {b}
    /\ UNCHANGED <<recipes, batches, advice>>

Recommend ==
    /\ Enter("recommend", 0)
    /\ advice' = advice + 1
    /\ UNCHANGED <<recipes, batches, results>>

-----------------------------------------------------------------------------
(* What happens without an entry.                                          *)

OpenBatch ==
    /\ batches' = Append(batches, "open")
    /\ UNCHANGED <<log, recipes, results, advice>>

FinishBatch(b) ==
    /\ batches[b] = "open"
    /\ batches' = [batches EXCEPT ![b] = "finished"]
    /\ UNCHANGED <<log, recipes, results, advice>>

Apply(p) ==
    /\ recipes' = [recipes EXCEPT ![p].status = "applied"]
    /\ UNCHANGED <<log, batches, results, advice>>

Lose(i) ==
    /\ log' = RemoveAt(log, i)
    /\ UNCHANGED <<recipes, batches, results, advice>>

-----------------------------------------------------------------------------
Next ==
    \/ Note \/ Create \/ Recommend \/ OpenBatch
    \/ \E p \in DOMAIN recipes :
          (\E status \in Statuses : Update(p, status)) \/ AddStep(p) \/ UpdateStep(p) \/ Apply(p)
    \/ \E b \in DOMAIN batches : Result(b) \/ FinishBatch(b)
    \/ \E i \in 1 .. (Len(log) - 1) : Lose(i)

Spec == Init /\ [][Next]_ledger
=============================================================================
