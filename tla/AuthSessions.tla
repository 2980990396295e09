----------------------------- MODULE AuthSessions -----------------------------
(***************************************************************************)
(* Local accounts: login, signed bearer sessions, permission checks,       *)
(* password changes, and the check of the environment at startup.  A       *)
(* session is stateless: it is good until it expires, for the daemon that  *)
(* holds the secret it was signed with.  A changed password is stored as a *)
(* hash that includes the same secret and then replaces the password of    *)
(* the environment.                                                        *)
(***************************************************************************)
EXTENDS Naturals, FiniteSets

CONSTANTS
    Accounts,       \* of operator, engineer and admin
    Passwords,      \* records: id, strong (login_password_is_exposure_safe), long (6 or more)
    EnvPassword,    \* XINGSHU_*_PASSWORD or its default, per account
    Secrets,        \* values of XINGSHU_AUTH_SECRET
    StrongSecrets,  \* those auth_secret_is_exposure_safe accepts
    ChangeCalls,    \* password changes in flight
    SessionHours,   \* session_ttl_hours
    MaxHours,       \* bound on the clock
    MaxStarts,      \* bound on restarts
    MaxSessions,    \* bound on sessions
    MaxChanges      \* bound on password changes

ASSUME AuthConstants ==
    /\ Accounts \subseteq {"operator", "engineer", "admin"} /\ Accounts # {}
    /\ EnvPassword \in [Accounts -> Passwords] /\ StrongSecrets \subseteq Secrets
    /\ SessionHours \in Nat /\ MaxHours \in Nat /\ MaxStarts \in Nat
    /\ MaxSessions \in Nat /\ MaxChanges \in Nat

VARIABLES
    hour,
    secret,      \* of the running daemon
    starts,
    overrides,   \* auth_password_overrides
    sessions,    \* bearer tokens handed out
    granted,     \* the last request: its session, and whether it was let through
    changes,     \* auth_change_password calls
    changeLog    \* history: the override's writes, "password_changed" events, errors returned

authVars == <<hour, secret, starts, overrides, sessions, granted, changes, changeLog>>

-----------------------------------------------------------------------------
Viewing == {"view_monitor", "view_history", "export_reports"}
Operating == {"start_stop_process", "set_safe_targets", "apply_ai_suggestion", "emergency_stop"}
Engineering == {"view_audit", "edit_process", "modbus_debug", "ingest_sensor_sample",
                "apply_integration_task"}
Administering == {"edit_system_config", "delete_data", "manage_users"}
all_permissions == Viewing \cup Operating \cup Engineering \cup Administering

role_allows(role, permission) ==
    \/ role = "admin"
    \/ role = "engineer" /\ permission \notin Administering
    \/ role = "operator" /\ permission \in Viewing \cup Operating

NoOverride == [set |-> FALSE, secret |-> CHOOSE s \in Secrets : TRUE,
               password |-> CHOOSE p \in Passwords : TRUE]
password_override_hash(s, p) == [set |-> TRUE, secret |-> s, password |-> p]

\* role_for_login, whose role is the account's own name.
role_for_login(table, s, user, p) ==
    IF table[user].set THEN table[user] = password_override_hash(s, p) ELSE p = EnvPassword[user]

\* enforce_network_auth_gate: a loopback bind is always allowed.
enforce_network_auth_gate(loopback, s) ==
    loopback \/ (s \in StrongSecrets /\ \A u \in Accounts : EnvPassword[u].strong)

-----------------------------------------------------------------------------
NoChange == [pc |-> "idle", user |-> CHOOSE u \in Accounts : TRUE, password |-> CHOOSE p \in Passwords : TRUE]
Nobody == [expires |-> 0, secret |-> CHOOSE s \in Secrets : TRUE, ok |-> FALSE]

AuthTypeOK ==
    /\ hour \in 0 .. MaxHours /\ secret \in Secrets /\ starts \in 0 .. MaxStarts
    /\ overrides \in [Accounts -> [set : BOOLEAN, secret : Secrets, password : Passwords]]
    /\ sessions \subseteq [user : Accounts, expires : 0 .. (MaxHours + SessionHours), secret : Secrets]
    /\ \A c \in ChangeCalls : changes[c].pc \in {"idle", "checked", "written"}
    /\ changeLog.audited + changeLog.failed <= changeLog.written

AuthInit ==
    /\ hour = 0 /\ starts = 0
    /\ secret \in {s \in Secrets : \E loopback \in BOOLEAN : enforce_network_auth_gate(loopback, s)}
    /\ overrides = [u \in Accounts |-> NoOverride]
    /\ sessions = {} /\ granted = Nobody
    /\ changes = [c \in ChangeCalls |-> NoChange]
    /\ changeLog = [written |-> 0, audited |-> 0, failed |-> 0]

auth_login(user, p) ==
    /\ role_for_login(overrides, secret, user, p)
    /\ Cardinality(sessions) < MaxSessions
    /\ sessions' = sessions \cup {[user |-> user, expires |-> hour + SessionHours, secret |-> secret]}
    /\ UNCHANGED <<hour, secret, starts, overrides, granted, changes, changeLog>>

\* A session is accepted up to and including the second it expires.
authenticated_user(session) == session.secret = secret /\ hour <= session.expires

require_permission(session, permission) ==
    /\ granted' = [expires |-> session.expires, secret |-> session.secret,
                   ok |-> authenticated_user(session) /\ role_allows(session.user, permission)]
    /\ UNCHANGED <<hour, secret, starts, overrides, sessions, changes, changeLog>>

\* auth_change_password up to its first write: the old password against the table as read.
prepare_password_change(c, session, old, new) ==
    /\ changes[c].pc = "idle" /\ changeLog.written < MaxChanges
    /\ authenticated_user(session)
    /\ role_for_login(overrides, secret, session.user, old)
    /\ new.long /\ new # old
    /\ changes' = [changes EXCEPT ![c] = [pc |-> "checked", user |-> session.user, password |-> new]]
    /\ UNCHANGED <<hour, secret, starts, overrides, sessions, granted, changeLog>>

set_password_override(c) ==
    /\ changes[c].pc = "checked"
    /\ \/ /\ overrides' = [overrides EXCEPT ![changes[c].user] =
                 password_override_hash(secret, changes[c].password)]
          /\ changes' = [changes EXCEPT ![c].pc = "written"]
          /\ changeLog' = [changeLog EXCEPT !.written = @ + 1]
       \/ /\ changes' = [changes EXCEPT ![c] = NoChange]   \* the database failed, or the client left
          /\ UNCHANGED <<overrides, changeLog>>
    /\ UNCHANGED <<hour, secret, starts, sessions, granted>>

\* Mutant: a failed audit is only logged.
AuditChangeQuietly(c) ==
    /\ changes[c].pc = "written"
    /\ \/ changeLog' = [changeLog EXCEPT !.audited = @ + 1]
       \/ UNCHANGED changeLog
    /\ changes' = [changes EXCEPT ![c] = NoChange]
    /\ UNCHANGED <<hour, secret, starts, overrides, sessions, granted>>

\* The event after the change; without it the change stands and the caller gets an error, or
\* had gone away, and the server dropped the handler with it.
AuditChange(c) ==
    /\ changes[c].pc = "written"
    /\ \/ changeLog' = [changeLog EXCEPT !.audited = @ + 1]
       \/ changeLog' = [changeLog EXCEPT !.failed = @ + 1]
    /\ changes' = [changes EXCEPT ![c] = NoChange]
    /\ UNCHANGED <<hour, secret, starts, overrides, sessions, granted>>

HourPasses ==
    /\ hour < MaxHours /\ hour' = hour + 1
    /\ UNCHANGED <<secret, starts, overrides, sessions, granted, changes, changeLog>>

\* The daemon starts again, maybe with another secret; calls in flight are gone.
StartDaemon(s, loopback) ==
    /\ starts < MaxStarts /\ starts' = starts + 1
    /\ enforce_network_auth_gate(loopback, s)
    /\ secret' = s
    /\ changes' = [c \in ChangeCalls |-> NoChange]
    /\ changeLog' = [changeLog EXCEPT !.failed =
           @ + Cardinality({c \in ChangeCalls : changes[c].pc = "written"})]
    /\ UNCHANGED <<hour, overrides, sessions, granted>>

AuthNext ==
    \/ \E u \in Accounts, p \in Passwords : auth_login(u, p)
    \/ \E x \in sessions, permission \in all_permissions : require_permission(x, permission)
    \/ \E c \in ChangeCalls, x \in sessions, old, new \in Passwords : prepare_password_change(c, x, old, new)
    \/ \E c \in ChangeCalls : set_password_override(c) \/ AuditChange(c)
    \/ HourPasses
    \/ \E s \in Secrets, loopback \in BOOLEAN : StartDaemon(s, loopback)

AuthSpec == AuthInit /\ [][AuthNext]_authVars

-----------------------------------------------------------------------------
(* Properties.                                                             *)

(***************************************************************************)
(* An account has one password: the environment's, or the changed one,     *)
(* never both, through changes that overlap and restarts.  Only an account *)
(* whose password was changed under another secret has none                *)
(* (role_for_login, password_override_hash).                               *)
(***************************************************************************)
OnePasswordPerAccount ==
    \A u \in Accounts :
        LET accepted == {p \in Passwords : role_for_login(overrides, secret, u, p)}
            stranded == overrides[u].set /\ overrides[u].secret # secret
        IN  Cardinality(accepted) = IF stranded THEN 0 ELSE 1

(***************************************************************************)
(* A password change that took effect has its audit event, or its caller   *)
(* was told of an error or cut off (auth_change_password writes before it  *)
(* audits).                                                                *)
(***************************************************************************)
ChangeIsAuditedOrFailed ==
    changeLog.written = changeLog.audited + changeLog.failed
                        + Cardinality({c \in ChangeCalls : changes[c].pc = "written"})

(***************************************************************************)
(* A request that is let through carries a session that has not expired    *)
(* and that this daemon's secret signed: one from before a restart with    *)
(* another secret opens nothing (authenticated_user).                      *)
(***************************************************************************)
GrantNeedsLiveSession ==
    granted' # granted /\ granted'.ok => granted'.secret = secret /\ granted'.expires >= hour

(***************************************************************************)
(* The three together, over overlapping changes, a clock that runs and     *)
(* restarts with another secret: the accounts stay guarded.                *)
(***************************************************************************)
AccountsAreGuarded ==
    [][OnePasswordPerAccount' /\ ChangeIsAuditedOrFailed' /\ GrantNeedsLiveSession]_authVars
=============================================================================
