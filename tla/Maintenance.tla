----------------------------- MODULE Maintenance -----------------------------
(***************************************************************************)
(* The offline commands of the operations tool on the database file:       *)
(* ops backup, ops restore, ops wipe, data delete, key generate and key    *)
(* rekey-integration-tasks.  Each is a sequence of file operations; any of *)
(* them can fail, and the tool can be killed between two of them.          *)
(*                                                                         *)
(* SQLite in WAL mode is external: what a reader sees is the -wal file     *)
(* where there is one, over the main file.  A -wal left by a killed daemon *)
(* is replayed over whatever main file the next opener finds.  The         *)
(* operator is taken at his word: where the service manager cannot be      *)
(* asked, the daemon is stopped as he confirmed, and it is not started     *)
(* while a command other than a backup runs.                               *)
(*                                                                         *)
(* No key command gives the daemon its key: the operator exports it before *)
(* a start, and no start checks it against the rows.  He goes by what the  *)
(* commands reported.  A rekeying that reports an error may have committed,*)
(* for the database is compacted after the commit; so after an error, or a *)
(* kill, he has two keys to try, and may try the wrong one first.          *)
(***************************************************************************)
EXTENDS Naturals, FiniteSets

CONSTANTS
    DataKeys,      \* encryption keys
    MaxVersions,   \* bound on commits of the daemon
    MaxCommands,   \* bound on commands of the tool
    MaxKilled,     \* bound on kills of the daemon or of the tool
    MaxRot         \* bound on damage to a stored backup

ASSUME MaintenanceConstants ==
    /\ DataKeys \cap {"plain", "inactive"} = {}
    /\ MaxVersions \in Nat /\ MaxCommands \in Nat /\ MaxKilled \in Nat /\ MaxRot \in Nat

NoFile == [version |-> 0, openBatch |-> FALSE, ciphers |-> {}, state |-> "absent"]

(* What a database file holds: which commit it is, whether a batch is      *)
(* unfinished, how the payloads of integration tasks are encrypted.  A     *)
(* "flipped" image still opens; a "broken" one fails integrity_check.      *)
FileContents == [version : 1 .. MaxVersions + 1, openBatch : BOOLEAN,
                 ciphers : SUBSET (DataKeys \cup {"plain"}), state : {"sound", "flipped", "broken"}]

VARIABLES
    service,    \* the daemon: "inactive", or the key it was started with, "plain" for none
    mainFile,   \* the SQLite main file
    walFile,    \* its -wal sidecar
    image,      \* the backup snapshot at --out
    digest,     \* its .sha256 sidecar: what it is the digest of
    tmpImage,   \* the temporary file of the running backup or restore
    evidence,   \* *.pre-restore copies: of main files and of -wal files
    recordedKeys, \* the keys the operator's records name for the rows
    job,        \* the running command, how far it is, and the new key of a rekeying
    commits, commands, killed, rot

maintVars == <<service, mainFile, walFile, image, digest, tmpImage, evidence,
               recordedKeys, job, commits, commands, killed, rot>>
maintFiles == <<mainFile, walFile, image, digest, tmpImage, evidence>>
maintBounds == <<commits, killed, rot>>

FileExists(f) == f.state # "absent"

DaemonActive == service # "inactive"

\* What a connection reads.
LiveData == IF FileExists(walFile) THEN walFile ELSE mainFile

\* decrypt_json_if_needed passes a plaintext value through.
ReadableWith(key) == LiveData.ciphers \subseteq {"plain", key}

NoJob == [kind |-> "none", pc |-> "idle", key |-> "plain"]
JobOf(kind, pc) == [NoJob EXCEPT !.kind = kind, !.pc = pc]
JobAt(kind, pc) == job.kind = kind /\ job.pc = pc
JobGoto(pc) == job' = [job EXCEPT !.pc = pc]
JobDone == job' = NoJob

\* A command begins; while one runs no other does.
JobBegin == job = NoJob /\ commands < MaxCommands /\ commands' = commands + 1

-----------------------------------------------------------------------------
(* The daemon and the operator (external).                                 *)

DaemonCommits ==
    /\ DaemonActive /\ commits < MaxVersions /\ FileExists(mainFile)
    /\ \E unfinished \in BOOLEAN, task \in BOOLEAN :
        walFile' = [LiveData EXCEPT !.version = commits + 2, !.openBatch = unfinished,
                        !.ciphers = IF task THEN @ \cup {service} ELSE @]
    /\ commits' = commits + 1
    /\ UNCHANGED <<service, mainFile, image, digest, tmpImage, evidence, recordedKeys,
                   job, killed, rot>>

Checkpoint ==
    /\ DaemonActive /\ FileExists(walFile)
    /\ mainFile' = walFile /\ walFile' = NoFile
    /\ UNCHANGED <<service, image, digest, tmpImage, evidence, recordedKeys, job, maintBounds>>

\* An orderly stop checkpoints; a kill leaves the -wal behind.
DaemonStops ==
    /\ DaemonActive /\ service' = "inactive"
    /\ \/ mainFile' = LiveData /\ walFile' = NoFile /\ UNCHANGED killed
       \/ /\ killed < MaxKilled /\ killed' = killed + 1
          /\ UNCHANGED <<mainFile, walFile>>
    /\ UNCHANGED <<image, digest, tmpImage, evidence, recordedKeys, job, commits, rot>>

\* A database as the first start makes it.
NewDatabase == [version |-> 1, openBatch |-> FALSE, ciphers |-> {}, state |-> "sound"]

\* The operator exports a key his records name.  A database that is missing is created, and
\* SQLite discards a -wal that has no main file.
DaemonStarts ==
    /\ ~DaemonActive /\ job.kind \in {"none", "backup"}
    /\ LiveData.state # "broken"
    /\ service' \in recordedKeys
    /\ IF FileExists(mainFile) THEN UNCHANGED <<mainFile, walFile>>
       ELSE mainFile' = NewDatabase /\ walFile' = NoFile
    /\ UNCHANGED <<image, digest, tmpImage, evidence, recordedKeys, job, maintBounds>>

\* The operator has the daemon list the tasks; a row under another key is an error, so once
\* there is none its key is the right one.
ReadsVerified ==
    /\ DaemonActive /\ job = NoJob /\ ReadableWith(service)
    /\ recordedKeys # {service} /\ recordedKeys' = {service}
    /\ UNCHANGED <<service, maintFiles, job, maintBounds>>

\* The operator discards a snapshot, with or without its sidecar.
DiscardImage ==
    /\ job = NoJob /\ FileExists(image)
    /\ image' = NoFile
    /\ digest' \in {digest, NoFile}
    /\ UNCHANGED <<service, mainFile, walFile, tmpImage, evidence, recordedKeys, job, maintBounds>>

ImageRots ==
    /\ job = NoJob /\ FileExists(image) /\ rot < MaxRot
    /\ \E s \in {"flipped", "broken"} : image' = [image EXCEPT !.state = s]
    /\ rot' = rot + 1
    /\ UNCHANGED <<service, mainFile, walFile, digest, tmpImage, evidence, recordedKeys,
                   job, commits, killed>>

-----------------------------------------------------------------------------
(* Preflight checks.                                                       *)

\* systemctl says so, or the operator confirmed: then no daemon is active.
ensure_destructive_ops_daemon_stopped == ~DaemonActive

ensure_no_unfinished_batches_for_offline_maintenance == LiveData.state # "broken" /\ ~LiveData.openBatch

\* A target that is missing or cannot be inspected is replaced all the same.
ensure_no_unfinished_batches_for_restore_target ==
    ~FileExists(mainFile) \/ LiveData.state = "broken" \/ ~LiveData.openBatch

\* Mutant: the check opens the main file alone, without its -wal.
MainFileHoldsNoPayload == mainFile.ciphers \subseteq {"plain"}

ensure_no_encrypted_integration_payloads_for_key_generate == LiveData.ciphers \subseteq {"plain"}

verify_restore_backup_hash_sidecar_if_present == FileExists(digest) => digest = image

-----------------------------------------------------------------------------
(* ops backup.                                                             *)

\* VACUUM INTO a temporary file; the output must be absent.
ops_backup ==
    /\ JobBegin /\ FileExists(mainFile) /\ LiveData.state # "broken" /\ ~FileExists(image)
    /\ tmpImage' = LiveData
    /\ job' = JobOf("backup", "hashed")
    /\ UNCHANGED <<service, mainFile, walFile, image, digest, evidence, recordedKeys, maintBounds>>

\* Mutant: an old sidecar is left to be replaced by the rename that publishes the new one.
KeepOldHashSidecar ==
    /\ JobAt("backup", "hashed")
    /\ JobGoto("cleared")
    /\ UNCHANGED <<service, maintFiles, recordedKeys, maintBounds>>

remove_existing_hash_sidecar_file ==
    /\ JobAt("backup", "hashed")
    /\ digest' = NoFile
    /\ JobGoto("cleared")
    /\ UNCHANGED <<service, mainFile, walFile, image, tmpImage, evidence, recordedKeys, maintBounds>>

PublishImage ==
    /\ JobAt("backup", "cleared")
    /\ image' = tmpImage /\ tmpImage' = NoFile
    /\ JobGoto("published")
    /\ UNCHANGED <<service, mainFile, walFile, digest, evidence, recordedKeys, maintBounds>>

\* A sidecar that cannot be published takes the snapshot with it.
PublishDigest ==
    /\ JobAt("backup", "published")
    /\ \/ digest' = image /\ UNCHANGED image
       \/ image' = NoFile /\ UNCHANGED digest
    /\ JobDone
    /\ UNCHANGED <<service, mainFile, walFile, tmpImage, evidence, recordedKeys, maintBounds>>

-----------------------------------------------------------------------------
(* ops restore.                                                            *)

ops_restore ==
    /\ JobBegin /\ FileExists(image)
    /\ ensure_destructive_ops_daemon_stopped
    /\ ensure_no_unfinished_batches_for_restore_target
    /\ verify_restore_backup_hash_sidecar_if_present
    /\ image.state # "broken"            \* integrity_check of the temporary copy
    /\ tmpImage' = image
    /\ job' = JobOf("restore", "copied")
    /\ UNCHANGED <<service, mainFile, walFile, image, digest, evidence, recordedKeys, maintBounds>>

\* unique_path: a copy never replaces an earlier one.
copy_evidence_file_atomic(file, content) == evidence \cup {[file |-> file, content |-> content]}

PreserveMain ==
    /\ JobAt("restore", "copied")
    /\ evidence' = IF FileExists(mainFile) THEN copy_evidence_file_atomic("main", mainFile) ELSE evidence
    /\ JobGoto("main_kept")
    /\ UNCHANGED <<service, mainFile, walFile, image, digest, tmpImage, recordedKeys, maintBounds>>

PreserveWal ==
    /\ JobAt("restore", "main_kept")
    /\ evidence' = IF FileExists(walFile) THEN copy_evidence_file_atomic("wal", walFile) ELSE evidence
    /\ JobGoto("wal_kept")
    /\ UNCHANGED <<service, mainFile, walFile, image, digest, tmpImage, recordedKeys, maintBounds>>

\* Should the restore end here, an older main file has come to light, under the keys of its time.
RemoveWal ==
    /\ JobAt("restore", "wal_kept")
    /\ walFile' = NoFile
    /\ recordedKeys' = recordedKeys \cup (mainFile.ciphers \ {"plain"})
    /\ JobGoto("ready")
    /\ UNCHANGED <<service, mainFile, image, digest, tmpImage, evidence, maintBounds>>

\* The operator keeps the keys of a snapshot with it.
PublishRestored ==
    /\ JobAt("restore", "ready")
    /\ mainFile' = tmpImage /\ tmpImage' = NoFile
    /\ recordedKeys' = IF tmpImage.ciphers \subseteq {"plain"} THEN recordedKeys
                       ELSE tmpImage.ciphers \ {"plain"}
    /\ JobDone
    /\ UNCHANGED <<service, walFile, image, digest, evidence, maintBounds>>

-----------------------------------------------------------------------------
(* ops wipe, data delete, the key commands.                                *)

\* A file is gone when it begins to be overwritten; nothing is undone by a failure.
ops_wipe ==
    /\ JobBegin /\ FileExists(mainFile)
    /\ ensure_destructive_ops_daemon_stopped
    /\ ensure_no_unfinished_batches_for_offline_maintenance
    /\ mainFile' = NoFile
    /\ job' = JobOf("wipe", "main")
    /\ UNCHANGED <<service, walFile, image, digest, tmpImage, evidence, recordedKeys, maintBounds>>

\* The -wal, then <db>.key, then the snapshot and its digest in the order of the directory.
WipeSidecars ==
    /\ \/ JobAt("wipe", "main") /\ walFile' = NoFile /\ JobGoto("wal")
          /\ UNCHANGED <<recordedKeys, image, digest>>
       \/ JobAt("wipe", "wal") /\ recordedKeys' = {"plain"} /\ JobGoto("key")
          /\ UNCHANGED <<walFile, image, digest>>
       \/ /\ JobAt("wipe", "key") /\ UNCHANGED <<walFile, recordedKeys>>
          /\ \/ FileExists(image) /\ image' = NoFile /\ UNCHANGED <<digest, job>>
             \/ FileExists(digest) /\ digest' = NoFile /\ UNCHANGED <<image, job>>
             \/ ~FileExists(image) /\ ~FileExists(digest) /\ JobDone /\ UNCHANGED <<image, digest>>
    /\ UNCHANGED <<service, mainFile, tmpImage, evidence, maintBounds>>

\* clear_runtime_data_for_tests, one transaction on a connection of the tool; closing it checkpoints.
data_delete ==
    /\ JobBegin /\ FileExists(mainFile)
    /\ ensure_destructive_ops_daemon_stopped
    /\ ensure_no_unfinished_batches_for_offline_maintenance
    /\ mainFile' = [LiveData EXCEPT !.ciphers = {}]
    /\ walFile' = NoFile
    /\ UNCHANGED <<service, image, digest, tmpImage, evidence, recordedKeys, job, maintBounds>>

\* <db>.key is written; the rows are not touched.  A write that fails may have left a new key.
key_rotate ==
    /\ JobBegin /\ FileExists(mainFile)
    /\ ensure_destructive_ops_daemon_stopped
    /\ ensure_no_unfinished_batches_for_offline_maintenance
    /\ ensure_no_encrypted_integration_payloads_for_key_generate
    /\ \E new \in DataKeys : recordedKeys' \in {{new}, recordedKeys \cup {new}}
    /\ UNCHANGED <<service, mainFile, walFile, image, digest, tmpImage, evidence, job, maintBounds>>

\* One field of one row: decrypted with the old key or passed through, encrypted with the new one.
rekey_integration_field(cipher, new) == new

\* All rows in one transaction, refused when one cannot be decrypted; a dry run rolls back.
\* No file of keys is written, and the command has yet to report.
key_rekey_integration_tasks ==
    /\ JobBegin /\ FileExists(mainFile)
    /\ ensure_destructive_ops_daemon_stopped
    /\ ensure_no_unfinished_batches_for_offline_maintenance
    /\ \E old, new \in DataKeys :
        /\ old # new
        /\ LiveData.ciphers \subseteq {"plain", old}
        /\ walFile' = [LiveData EXCEPT !.ciphers = {rekey_integration_field(c, new) : c \in @}]
        /\ recordedKeys' = recordedKeys \cup {new}
        /\ job' = [kind |-> "rekey", pc |-> "committed", key |-> new]
    /\ UNCHANGED <<service, mainFile, image, digest, tmpImage, evidence, maintBounds>>

\* The last step of a rekeying; its report names the new key.
compact_rekeyed_database ==
    /\ JobAt("rekey", "committed")
    /\ mainFile' = LiveData /\ walFile' = NoFile
    /\ recordedKeys' = {job.key}
    /\ JobDone
    /\ UNCHANGED <<service, image, digest, tmpImage, evidence, maintBounds>>

-----------------------------------------------------------------------------
(* Failures.                                                               *)

\* A file operation fails: the command returns its error and drops its temporary file.
StepFails ==
    /\ job # NoJob /\ ~JobAt("backup", "published")
    /\ tmpImage' = NoFile
    /\ JobDone
    /\ UNCHANGED <<service, mainFile, walFile, image, digest, evidence, recordedKeys, maintBounds>>

\* The tool is killed; its temporary file carries its process id and is never looked at again.
ToolKilled ==
    /\ job # NoJob /\ killed < MaxKilled
    /\ killed' = killed + 1
    /\ tmpImage' = NoFile
    /\ JobDone
    /\ UNCHANGED <<service, mainFile, walFile, image, digest, evidence, recordedKeys, commits, rot>>

MaintInit ==
    /\ service = "plain" /\ mainFile = NewDatabase
    /\ walFile = NoFile /\ image = NoFile /\ digest = NoFile /\ tmpImage = NoFile
    /\ evidence = {} /\ recordedKeys = {"plain"} /\ job = NoJob
    /\ commits = 0 /\ commands = 0 /\ killed = 0 /\ rot = 0

MaintNext ==
    \/ ops_backup \/ ops_restore \/ ops_wipe \/ data_delete
    \/ key_rotate \/ key_rekey_integration_tasks
    \/ /\ \/ remove_existing_hash_sidecar_file \/ PublishImage \/ PublishDigest
          \/ PreserveMain \/ PreserveWal \/ RemoveWal \/ PublishRestored
          \/ WipeSidecars \/ compact_rekeyed_database
          \/ StepFails \/ ToolKilled
          \/ DaemonCommits \/ Checkpoint \/ DaemonStops \/ DaemonStarts \/ ReadsVerified
          \/ DiscardImage \/ ImageRots
       /\ UNCHANGED commands

MaintSpec == MaintInit /\ [][MaintNext]_maintVars

-----------------------------------------------------------------------------

MaintTypeOK ==
    /\ service \in DataKeys \cup {"plain", "inactive"}
    /\ \A f \in {mainFile, walFile, image, digest, tmpImage} : f \in FileContents \cup {NoFile}
    /\ evidence \subseteq [file : {"main", "wal"}, content : FileContents]
    /\ recordedKeys \subseteq DataKeys \cup {"plain"}
    /\ job.kind \in {"none", "backup", "restore", "wipe", "rekey"}

(* A snapshot and a sidecar lying next to it belong together, whatever     *)
(* step of ops backup failed or was cut off and whatever sidecar an older  *)
(* snapshot of that name left behind: a restore never refuses a good       *)
(* snapshot for the digest of another one.                                 *)
BackupPairMatches ==
    FileExists(image) /\ FileExists(digest) /\ image.state = "sound" => digest = image

(* No step of a restore, and no kill during one, loses data: what the live *)
(* database holds before the step it still holds afterwards, or a          *)
(* pre-restore copy of the file it was read from does.                     *)
RestoreKeepsData ==
    job.kind = "restore" /\ FileExists(mainFile) =>
        \/ LiveData' = LiveData
        \/ \E e \in evidence' : e.content = LiveData

(* A restore that publishes leaves a database that reads as the snapshot,  *)
(* not as a -wal of the database it replaced; and where the snapshot has a *)
(* digest, it reads as what the digest was taken of.                       *)
RestoreIsFaithful ==
    JobAt("restore", "ready") /\ mainFile' # mainFile =>
            /\ LiveData' = image
            /\ FileExists(digest) => LiveData' = digest

(* The operator's records are right.  Every row is under a key they name,  *)
(* or in plain: under the one key that the last successful key command     *)
(* reported or that was last verified, and otherwise under the new key or  *)
(* an older one of a command that failed or was killed.  So no command     *)
(* that reports success leaves a row behind under the old key, none that   *)
(* fails puts one under a third, and a daemon that was started with the    *)
(* wrong one of two keys writes its own rows under a key still on record.  *)
RowsUnderRecordedKeys == LiveData.ciphers \subseteq recordedKeys \cup {"plain"}

(* What a maintenance command, failed, killed or run to its end, does to   *)
(* the data: a restore loses nothing of the database it replaces (it may   *)
(* take the operator to put a pre-restore copy back) and publishes its     *)
(* snapshot, and no step, of a command or of the daemon, leaves a row      *)
(* under a key that is not on record.  Wipe and data delete are there to   *)
(* lose data, and nothing else is claimed of them.                         *)
CommandsKeepData ==
    [][RestoreKeepsData /\ RestoreIsFaithful /\ RowsUnderRecordedKeys']_maintVars
=============================================================================
