------------------------------ MODULE MCServices ------------------------------
(***************************************************************************)
(* The services behind the API for TLC: integration tasks, the database's  *)
(* audited transactions, accounts, the maintenance commands, component     *)
(* control, and two overlapping requests at the gate of automatic control. *)
(* Their states are disjoint at this level of detail, so they are put side *)
(* by side: a behaviour is about one of them, named by part.               *)
(***************************************************************************)
EXTENDS IntegrationTasks, AuditStore, AuthSessions, Maintenance, ComponentControl

CONSTANTS
    NoBatch,        \* no active batch
    GateRequests    \* requests at the gate

VARIABLES
    part,
    gateRt, gateRows, req, fired, inherited, restarts    \* SafetyLatches

Parts == {"tasks", "store", "accounts", "maintenance", "control", "gate"}

gateVars == <<gateRt, gateRows, req, fired, inherited, restarts>>
servicesVars == <<part, taskVars, storeVars, authVars, maintVars, ctlVars, gateVars>>

-----------------------------------------------------------------------------
(* Values of the constants.                                                *)

MCPayloads == {[action |-> "start", process |-> TRUE, content |-> 1],
               [action |-> "set_targets", process |-> FALSE, content |-> 1]}

\* An empty table; two live rows of one id, as before the index; a row no reader accepts.
MCLegacyTables ==
    LET old == Request([action |-> "start", process |-> TRUE, content |-> 1]) IN
    {<<>>,
     <<Row("ainas", "e1", old, "executed"), Row("ainas", "e1", old, "received")>>,
     <<[Row("ainas", "e1", old, "executed") EXCEPT !.valid = FALSE]>>}

MCPasswords == {[id |-> 1, strong |-> TRUE, long |-> TRUE], [id |-> 2, strong |-> FALSE, long |-> TRUE]}
MCEnvPassword == [u \in Accounts |-> [id |-> 1, strong |-> TRUE, long |-> TRUE]]

\* Hot and not stirred is forbidden; the advice is hot and stirred.
MCForbidden == {<<1, 0>>}
MCAdvice == {[temp |-> 1, rpm |-> 1]}
MCStopSet == [temp |-> 0, rpm |-> 0, shake |-> 0]

-----------------------------------------------------------------------------
\* Two requests of the kinds that move the gate, without production.
G == INSTANCE SafetyLatches WITH
        Batches <- {}, Temperatures <- {1}, Recipes <- {1},
        DefaultTargets <- [temperature_c |-> 1, hold_time_s |-> 1],
        ManualLockDefault <- FALSE, RequireDeviceStatus <- TRUE, GenerationLimit <- 1,
        Requests <- GateRequests, Kinds <- {"auto_on", "unlock", "fault_reset", "estop_reset"},
        Samples <- {"fresh"}, Statuses <- {"healthy", "command"}, MaxRestarts <- 0,
        rt <- gateRt, unfinished <- gateRows

-----------------------------------------------------------------------------
ServicesInit ==
    /\ part \in Parts
    /\ TasksInit /\ StoreInit /\ AuthInit /\ MaintInit /\ CtlInit /\ G!Init
    /\ part # "tasks" => tasks = <<>>          \* one state of the parts that rest
    /\ part # "accounts" => secret = CHOOSE s \in StrongSecrets : TRUE

ServicesNext ==
    /\ UNCHANGED part
    /\ \/ /\ part = "tasks" /\ TasksNext
          /\ UNCHANGED <<storeVars, authVars, maintVars, ctlVars, gateVars>>
       \/ /\ part = "store" /\ StoreNext
          /\ UNCHANGED <<taskVars, authVars, maintVars, ctlVars, gateVars>>
       \/ /\ part = "accounts" /\ AuthNext
          /\ UNCHANGED <<taskVars, storeVars, maintVars, ctlVars, gateVars>>
       \/ /\ part = "maintenance" /\ MaintNext
          /\ UNCHANGED <<taskVars, storeVars, authVars, ctlVars, gateVars>>
       \/ /\ part = "control" /\ CtlNext
          /\ UNCHANGED <<taskVars, storeVars, authVars, maintVars, gateVars>>
       \/ /\ part = "gate" /\ G!Next
          /\ UNCHANGED <<taskVars, storeVars, authVars, maintVars, ctlVars>>

ServicesSpec == ServicesInit /\ [][ServicesNext]_servicesVars

\* The type invariant of the module a behaviour is about; the others rest in their Init.
ServicesTypeOK ==
    /\ part \in Parts
    /\ part = "tasks" => TasksTypeOK
    /\ part = "store" => StoreTypeOK
    /\ part = "accounts" => AuthTypeOK
    /\ part = "maintenance" => MaintTypeOK
    /\ part = "control" => CtlTypeOK
    /\ part = "gate" => G!TypeOK

(* A latch engaged while a request waits is seen when it commits, also if *)
(* another request has reset it by then (SafetyLatches).                   *)
NoLatchSlipsPastACommit == G!NoLatchSlipsPastACommit
=============================================================================
