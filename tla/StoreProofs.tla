----------------------------- MODULE StoreProofs -----------------------------
(***************************************************************************)
(* The audited database and the offline commands on its file, for every    *)
(* number of transactions, events, recipes, commands, failures and kills.  *)
(***************************************************************************)
EXTENDS AuditStore, Maintenance, FiniteSetTheorems, SequenceTheorems, WellFoundedInduction, TLAPS

-----------------------------------------------------------------------------
(* Maintenance commands: the inductive invariant.                          *)

Files == FileContents \cup {NoFile}

Places == {"idle", "hashed", "cleared", "published", "copied", "main_kept", "wal_kept",
           "ready", "main", "wal", "key", "committed"}

JobPlaces == [kind : {"none", "backup", "restore", "wipe", "rekey"}, pc : Places,
              key : DataKeys \cup {"plain"}]

FilesOK ==
    /\ mainFile \in Files /\ walFile \in Files /\ image \in Files /\ digest \in Files
    /\ tmpImage \in Files

FileTypes ==
    /\ FilesOK /\ evidence \subseteq [file : {"main", "wal"}, content : FileContents]
    /\ job \in JobPlaces /\ commits \in Nat

RecordsOK == service \in DataKeys \cup {"plain", "inactive"} /\ recordedKeys \subseteq DataKeys \cup {"plain"}

MaintTypes == FileTypes /\ RecordsOK

\* The daemon rests while a command other than a backup runs.
DaemonRests == job.kind \notin {"none", "backup"} => ~DaemonActive

\* A backup has no snapshot beside an old digest at any of its steps.
BackupSteps ==
    /\ JobAt("backup", "hashed") => ~FileExists(image)
    /\ JobAt("backup", "cleared") => ~FileExists(image) /\ ~FileExists(digest)
    /\ JobAt("backup", "published") => ~FileExists(digest)

\* A restore works on a copy of a snapshot that its digest vouches for, and has its copies made.
RestoreSteps ==
    job.kind = "restore" =>
        /\ tmpImage = image /\ (FileExists(digest) => digest = image)
        /\ job.pc \in {"copied", "main_kept", "wal_kept", "ready"}
        /\ job.pc \in {"main_kept", "wal_kept", "ready"} /\ FileExists(mainFile) =>
              [file |-> "main", content |-> mainFile] \in evidence
        /\ job.pc = "wal_kept" /\ FileExists(walFile) =>
              [file |-> "wal", content |-> walFile] \in evidence
        /\ job.pc = "ready" => walFile = NoFile

\* A wipe has removed what it has come past.
WipeSteps ==
    job.kind = "wipe" =>
        /\ mainFile = NoFile
        /\ job.pc \in {"wal", "key"} => walFile = NoFile

MaintInv == DaemonRests /\ BackupSteps /\ RestoreSteps /\ WipeSteps /\ BackupPairMatches

\* A file exists if it holds something, and the live data is a file.
LEMMA FileFacts ==
  /\ ~FileExists(NoFile) /\ NoFile.ciphers = {}
  /\ \A f \in Files : FileExists(f) <=> f \in FileContents
  /\ \A f \in FileContents : f.ciphers \subseteq DataKeys \cup {"plain"}
  BY DEF FileExists, NoFile, Files, FileContents

\* The data a reader of the live database sees is a file of the known kind.
LEMMA LiveFacts ==
  ASSUME MaintTypes
  PROVE  /\ LiveData \in Files
         /\ FileExists(mainFile) => LiveData \in FileContents
  BY FileFacts DEF LiveData, MaintTypes, FileTypes, FilesOK

\* A command begins, goes from one of its steps to another, and ends.
LEMMA JobMoves ==
  ASSUME MaintTypes
  PROVE  /\ \A k, p, q : JobAt(k, p) /\ JobGoto(q) =>
              job'.kind = k /\ job'.pc = q /\ (q \in Places => job' \in JobPlaces)
         /\ \A k \in {"backup", "restore", "wipe"}, p \in Places :
              job' = JobOf(k, p) => job'.kind = k /\ job'.pc = p /\ job' \in JobPlaces
         /\ NoJob \in JobPlaces /\ NoJob.kind = "none" /\ NoJob.pc = "idle"
<1>1. NoJob \in JobPlaces /\ NoJob.kind = "none" /\ NoJob.pc = "idle"
  BY DEF NoJob, JobPlaces, Places
<1>2. ASSUME NEW k, NEW p, NEW q, JobAt(k, p), JobGoto(q)
      PROVE  job'.kind = k /\ job'.pc = q /\ (q \in Places => job' \in JobPlaces)
  BY <1>2 DEF JobAt, JobGoto, MaintTypes, FileTypes, JobPlaces
<1>3. ASSUME NEW k \in {"backup", "restore", "wipe"}, NEW p \in Places, job' = JobOf(k, p)
      PROVE  job'.kind = k /\ job'.pc = p /\ job' \in JobPlaces
  BY <1>1, <1>3 DEF JobOf, JobPlaces
<1> QED
  BY <1>1, <1>2, <1>3

\* What no step of a restore may do to the data, as CommandsKeepData states it.
DataKept == RestoreKeepsData /\ RestoreIsFaithful

\* Outside a restore there is nothing to keep.
LEMMA NothingAtStake ==
  ASSUME job.kind # "restore"
  PROVE  DataKept
  BY DEF DataKept, RestoreKeepsData, RestoreIsFaithful, JobAt

\* Of the invariant only the pair is left to show when a command has ended.
LEMMA CommandEnds ==
  ASSUME job' = NoJob, BackupPairMatches'
  PROVE  MaintInv'
  BY DEF NoJob, MaintInv, DaemonRests, BackupSteps, RestoreSteps, WipeSteps, JobAt

\* The daemon writes, checkpoints, stops or starts, and the operator handles snapshots.
LEMMA DaemonKeeps ==
  ASSUME MaintTypes, MaintInv,
         \/ DaemonCommits \/ Checkpoint \/ DaemonStops \/ DaemonStarts \/ ReadsVerified
         \/ DiscardImage \/ ImageRots
  PROVE  FileTypes' /\ MaintInv' /\ DataKept
<1>0. /\ job' = job /\ tmpImage' = tmpImage /\ evidence' = evidence
      /\ job.kind \in {"none", "backup"}
  <2>1. UNCHANGED <<job, tmpImage, evidence>>
    BY DEF DaemonCommits, Checkpoint, DaemonStops, DaemonStarts, ReadsVerified, DiscardImage, ImageRots, maintFiles
  <2>2. CASE DaemonCommits \/ Checkpoint \/ DaemonStops
    <3>1. DaemonActive
      BY <2>2 DEF DaemonCommits, Checkpoint, DaemonStops
    <3> QED
      BY <2>1, <3>1 DEF MaintInv, DaemonRests
  <2>3. CASE DaemonStarts
    BY <2>1, <2>3 DEF DaemonStarts
  <2>4. CASE DiscardImage \/ ImageRots \/ ReadsVerified
    BY <2>1, <2>4 DEF DiscardImage, ImageRots, ReadsVerified, NoJob
  <2> QED
    BY <2>2, <2>3, <2>4
<1>1. DataKept
  BY <1>0, NothingAtStake
<1>2. commits' \in Nat
  <2>1. commits \in Nat
    BY DEF MaintTypes, FileTypes
  <2>2. commits' = commits \/ commits' = commits + 1
    BY DEF DaemonCommits, Checkpoint, DaemonStops, DaemonStarts, ReadsVerified, DiscardImage, ImageRots, maintBounds
  <2> QED
    BY <2>1, <2>2
<1>3. NoFile \in Files /\ NewDatabase \in Files
  BY MaintenanceConstants DEF Files, NewDatabase, FileContents
<1>4. walFile' \in Files /\ mainFile' \in Files
  <2>1. CASE DaemonCommits
    <3>1. PICK unfinished \in BOOLEAN, task \in BOOLEAN :
            walFile' = [LiveData EXCEPT !.version = commits + 2, !.openBatch = unfinished,
                            !.ciphers = IF task THEN @ \cup {service} ELSE @]
      BY <2>1 DEF DaemonCommits
    <3>2. LiveData \in FileContents
      BY <2>1, LiveFacts DEF DaemonCommits
    <3>3. commits + 2 \in 1 .. MaxVersions + 1
      <4>1. commits < MaxVersions
        BY <2>1 DEF DaemonCommits
      <4>2. commits \in Nat /\ MaxVersions \in Nat
        BY MaintenanceConstants DEF MaintTypes, FileTypes
      <4> QED
        BY <4>1, <4>2
    <3>4. service \in DataKeys \cup {"plain"}
      BY <2>1 DEF DaemonCommits, DaemonActive, MaintTypes, RecordsOK
    <3>5. walFile' \in FileContents
      BY <3>1, <3>2, <3>3, <3>4 DEF FileContents
    <3> QED
      BY <2>1, <3>5 DEF DaemonCommits, MaintTypes, FileTypes, FilesOK, Files
  <2>2. CASE ~DaemonCommits
    BY <1>3, <2>2, LiveFacts DEF Checkpoint, DaemonStops, DaemonStarts, ReadsVerified, DiscardImage, ImageRots, MaintTypes, FileTypes,
          FilesOK, maintFiles
  <2> QED
    BY <2>1, <2>2
<1>5. /\ image' \in Files /\ digest' \in Files
      /\ BackupPairMatches'
      /\ job # NoJob => image' = image /\ digest' = digest
  <2>1. CASE DiscardImage
    BY <1>3, <2>1, FileFacts DEF DiscardImage, MaintTypes, FileTypes, FilesOK, BackupPairMatches
  <2>2. CASE ImageRots
    <3>1. PICK s \in {"flipped", "broken"} : image' = [image EXCEPT !.state = s]
      BY <2>2 DEF ImageRots
    <3>2. image \in FileContents /\ digest' = digest
      BY <2>2, FileFacts DEF ImageRots, MaintTypes, FileTypes, FilesOK
    <3>3. image' \in FileContents /\ image'.state # "sound"
      BY <3>1, <3>2 DEF FileContents
    <3> QED
      BY <2>2, <3>2, <3>3 DEF ImageRots, BackupPairMatches, MaintTypes, FileTypes, FilesOK, Files
  <2>3. CASE ~DiscardImage /\ ~ImageRots
    <3>1. image' = image /\ digest' = digest
      BY <2>3 DEF DaemonCommits, Checkpoint, DaemonStops, DaemonStarts, ReadsVerified, maintFiles
    <3> QED
      BY <3>1 DEF MaintInv, BackupPairMatches, MaintTypes, FileTypes, FilesOK
  <2> QED
    BY <2>1, <2>2, <2>3
<1>6. FileTypes'
  BY <1>0, <1>2, <1>4, <1>5 DEF MaintTypes, FileTypes, FilesOK
<1>7. BackupSteps'
  <2>1. ASSUME NEW p \in {"hashed", "cleared", "published"}, JobAt("backup", p)
        PROVE  job # NoJob
    BY <2>1 DEF JobAt, NoJob
  <2> QED
    BY <1>0, <1>5, <2>1 DEF MaintInv, BackupSteps, JobAt
<1>8. DaemonRests' /\ RestoreSteps' /\ WipeSteps'
  BY <1>0 DEF DaemonRests, RestoreSteps, WipeSteps
<1> QED
  BY <1>1, <1>5, <1>6, <1>7, <1>8 DEF MaintInv

\* A backup: the old digest goes before the new snapshot comes.
LEMMA BackupKeeps ==
  ASSUME MaintTypes, MaintInv,
         ops_backup \/ remove_existing_hash_sidecar_file \/ PublishImage \/ PublishDigest
  PROVE  FileTypes' /\ MaintInv' /\ DataKept
<1>0. /\ UNCHANGED <<service, mainFile, walFile, evidence>> /\ commits' = commits
      /\ NoFile \in Files
  BY DEF ops_backup, remove_existing_hash_sidecar_file, PublishImage, PublishDigest, maintBounds, Files
<1>1. job.kind \in {"none", "backup"}
  BY DEF ops_backup, remove_existing_hash_sidecar_file, PublishImage, PublishDigest, JobBegin,
         JobAt, NoJob
<1>2. DataKept
  BY <1>0, <1>1, NothingAtStake
<1>3. job' \in JobPlaces /\ job'.kind \in {"none", "backup"}
  <2>1. \/ job' = NoJob \/ job' = JobOf("backup", "hashed")
        \/ \E p \in Places, q \in Places : JobAt("backup", p) /\ JobGoto(q)
    BY DEF ops_backup, remove_existing_hash_sidecar_file, PublishImage, PublishDigest, JobDone, Places
  <2> QED
    BY <2>1, JobMoves DEF Places
<1>4. image' \in Files /\ digest' \in Files /\ tmpImage' \in Files
  BY <1>0, LiveFacts DEF ops_backup, remove_existing_hash_sidecar_file, PublishImage, PublishDigest,
         MaintTypes, FileTypes, FilesOK
<1>5. FileTypes'
  BY <1>0, <1>3, <1>4 DEF MaintTypes, FileTypes, FilesOK
<1>6. DaemonRests' /\ RestoreSteps' /\ WipeSteps'
  BY <1>3 DEF DaemonRests, RestoreSteps, WipeSteps
<1>7. BackupSteps' /\ BackupPairMatches'
  <2>1. CASE ops_backup
    <3>1. job'.kind = "backup" /\ job'.pc = "hashed" /\ job' \in JobPlaces /\ image' = image /\ ~FileExists(image)
      BY <2>1, JobMoves DEF ops_backup, Places
    <3> QED
      BY <3>1 DEF BackupSteps, BackupPairMatches, JobAt
  <2>2. CASE remove_existing_hash_sidecar_file
    <3>1. job'.kind = "backup" /\ job'.pc = "cleared" /\ job' \in JobPlaces
      BY <2>2, JobMoves DEF remove_existing_hash_sidecar_file, Places
    <3>2. image' = image /\ digest' = NoFile /\ ~FileExists(image)
      BY <2>2 DEF remove_existing_hash_sidecar_file, MaintInv, BackupSteps
    <3> QED
      BY <3>1, <3>2, FileFacts DEF BackupSteps, BackupPairMatches, JobAt
  <2>3. CASE PublishImage
    <3>1. job'.kind = "backup" /\ job'.pc = "published" /\ job' \in JobPlaces
      BY <2>3, JobMoves DEF PublishImage, Places
    <3>2. digest' = digest /\ ~FileExists(digest)
      BY <2>3 DEF PublishImage, MaintInv, BackupSteps
    <3> QED
      BY <3>1, <3>2 DEF BackupSteps, BackupPairMatches, JobAt
  <2>4. CASE PublishDigest
    <3>1. job' = NoJob
      BY <2>4 DEF PublishDigest, JobDone
    <3>2. BackupPairMatches'
      BY <2>4, FileFacts DEF PublishDigest, BackupPairMatches
    <3> QED
      BY <3>1, <3>2 DEF BackupSteps, JobAt, NoJob
  <2> QED
    BY <2>1, <2>2, <2>3, <2>4
<1> QED
  BY <1>2, <1>5, <1>6, <1>7 DEF MaintInv

\* A restore: the copies come before anything is removed or replaced.
LEMMA RestoreKeeps ==
  ASSUME MaintTypes, MaintInv,
         ops_restore \/ PreserveMain \/ PreserveWal \/ RemoveWal \/ PublishRestored
  PROVE  FileTypes' /\ MaintInv' /\ DataKept
<1>0. /\ UNCHANGED <<service, image, digest>> /\ commits' = commits
      /\ NoFile \in Files
  BY DEF ops_restore, PreserveMain, PreserveWal, RemoveWal, PublishRestored, maintBounds, Files
<1>1. BackupPairMatches' /\ image' \in Files /\ digest' \in Files
  BY <1>0 DEF MaintInv, BackupPairMatches, MaintTypes, FileTypes, FilesOK
<1>2. CASE ops_restore
  <2>1. /\ job.kind # "restore" 
        /\ ~DaemonActive /\ (FileExists(digest) => digest = image)
        /\ tmpImage' = image /\ job'.kind = "restore" /\ job'.pc = "copied" /\ job' \in JobPlaces
        /\ UNCHANGED <<mainFile, walFile, evidence>>
    BY <1>2, JobMoves DEF ops_restore, JobBegin, ensure_destructive_ops_daemon_stopped, Places,
                verify_restore_backup_hash_sidecar_if_present
  <2>2. FileTypes'
    BY <1>0, <1>1, <2>1 DEF MaintTypes, FileTypes, FilesOK, JobPlaces
  <2>3. DaemonRests' /\ BackupSteps' /\ RestoreSteps' /\ WipeSteps'
    BY <1>0, <2>1 DEF DaemonRests, BackupSteps, RestoreSteps, WipeSteps, JobAt, DaemonActive
  <2>4. DataKept
    BY <2>1, NothingAtStake
  <2> QED
    BY <1>1, <2>2, <2>3, <2>4 DEF MaintInv
<1>3. ASSUME NEW file \in {"main", "wal"}, NEW f \in Files,
             evidence' = IF FileExists(f) THEN copy_evidence_file_atomic(file, f) ELSE evidence
      PROVE  /\ evidence \subseteq evidence'
             /\ FileExists(f) => [file |-> file, content |-> f] \in evidence'
             /\ evidence' \subseteq [file : {"main", "wal"}, content : FileContents]
  BY <1>3, FileFacts DEF copy_evidence_file_atomic, MaintTypes, FileTypes
<1>4. ASSUME job.kind = "restore", UNCHANGED <<mainFile, walFile>>
      PROVE  DataKept
  BY <1>4 DEF DataKept, RestoreKeepsData, RestoreIsFaithful, LiveData
<1>5. ASSUME NEW p \in {"copied", "main_kept", "wal_kept", "ready"}, JobAt("restore", p)
      PROVE  /\ job.kind = "restore" /\ job.pc = p
             /\ tmpImage = image /\ (FileExists(digest) => digest = image) /\ ~DaemonActive
             /\ p # "copied" /\ FileExists(mainFile) =>
                  [file |-> "main", content |-> mainFile] \in evidence
             /\ p = "wal_kept" /\ FileExists(walFile) =>
                  [file |-> "wal", content |-> walFile] \in evidence
             /\ p = "ready" => walFile = NoFile
  BY <1>5 DEF JobAt, MaintInv, RestoreSteps, DaemonRests
<1>6. CASE PreserveMain
  <2>1. /\ job'.kind = "restore" /\ job'.pc = "main_kept" /\ job' \in JobPlaces
        /\ UNCHANGED <<mainFile, walFile, tmpImage>> /\ JobAt("restore", "copied")
    BY <1>6, JobMoves DEF PreserveMain, Places
  <2>2. /\ FileExists(mainFile) => [file |-> "main", content |-> mainFile] \in evidence'
        /\ evidence' \subseteq [file : {"main", "wal"}, content : FileContents]
    BY <1>3, <1>6 DEF PreserveMain, MaintTypes, FileTypes, FilesOK
  <2>3. FileTypes'
    BY <1>0, <1>1, <2>1, <2>2 DEF MaintTypes, FileTypes, FilesOK, JobPlaces
  <2>4. DaemonRests' /\ BackupSteps' /\ RestoreSteps' /\ WipeSteps'
    BY <1>0, <1>5, <2>1, <2>2 DEF DaemonRests, BackupSteps, RestoreSteps, WipeSteps, JobAt, DaemonActive
  <2> QED
    BY <1>1, <1>4, <1>5, <2>1, <2>3, <2>4 DEF MaintInv
<1>7. CASE PreserveWal
  <2>1. /\ job'.kind = "restore" /\ job'.pc = "wal_kept" /\ job' \in JobPlaces
        /\ UNCHANGED <<mainFile, walFile, tmpImage>> /\ JobAt("restore", "main_kept")
    BY <1>7, JobMoves DEF PreserveWal, Places
  <2>2. /\ FileExists(walFile) => [file |-> "wal", content |-> walFile] \in evidence'
        /\ evidence \subseteq evidence'
        /\ evidence' \subseteq [file : {"main", "wal"}, content : FileContents]
    BY <1>3, <1>7 DEF PreserveWal, MaintTypes, FileTypes, FilesOK
  <2>3. FileTypes'
    BY <1>0, <1>1, <2>1, <2>2 DEF MaintTypes, FileTypes, FilesOK, JobPlaces
  <2>4. DaemonRests' /\ BackupSteps' /\ RestoreSteps' /\ WipeSteps'
    BY <1>0, <1>5, <2>1, <2>2 DEF DaemonRests, BackupSteps, RestoreSteps, WipeSteps, JobAt, DaemonActive
  <2> QED
    BY <1>1, <1>4, <1>5, <2>1, <2>3, <2>4 DEF MaintInv
<1>8. CASE RemoveWal
  <2>1. /\ job'.kind = "restore" /\ job'.pc = "ready" /\ job' \in JobPlaces /\ walFile' = NoFile
        /\ UNCHANGED <<mainFile, tmpImage, evidence>> /\ JobAt("restore", "wal_kept")
    BY <1>8, JobMoves DEF RemoveWal, Places
  <2>2. FileTypes'
    BY <1>0, <1>1, <2>1 DEF MaintTypes, FileTypes, FilesOK, JobPlaces
  <2>3. DaemonRests' /\ BackupSteps' /\ RestoreSteps' /\ WipeSteps'
    BY <1>0, <1>5, <2>1 DEF DaemonRests, BackupSteps, RestoreSteps, WipeSteps, JobAt, DaemonActive
  <2>4. RestoreKeepsData
    <3>1. CASE FileExists(walFile)
      <4>1. [file |-> "wal", content |-> walFile] \in evidence' /\ LiveData = walFile
        BY <1>5, <2>1, <3>1 DEF LiveData
      <4>2. \E e \in evidence' : e.content = LiveData
        BY <4>1
      <4> QED
        BY <4>2 DEF RestoreKeepsData
    <3>2. CASE ~FileExists(walFile)
      BY <2>1, <3>2, FileFacts DEF RestoreKeepsData, LiveData
    <3> QED
      BY <3>1, <3>2
  <2>5. RestoreIsFaithful
    BY <2>1 DEF RestoreIsFaithful, JobAt
  <2> QED
    BY <1>1, <2>2, <2>3, <2>4, <2>5 DEF MaintInv, DataKept
<1>9. CASE PublishRestored
  <2>1. /\ job' = NoJob /\ mainFile' = tmpImage /\ tmpImage' = NoFile
        /\ UNCHANGED <<walFile, evidence>> /\ JobAt("restore", "ready")
    BY <1>9 DEF PublishRestored, JobDone
  <2>2. walFile = NoFile /\ tmpImage = image /\ (FileExists(digest) => digest = image)
        /\ (FileExists(mainFile) => [file |-> "main", content |-> mainFile] \in evidence)
        /\ job.kind = "restore"
    BY <1>5, <2>1
  <2>4. FileTypes'
    BY <1>0, <1>1, <2>1, JobMoves DEF MaintTypes, FileTypes, FilesOK, JobPlaces, NoJob
  <2>5. MaintInv'
    BY <1>1, <2>1, CommandEnds
  <2>6. LiveData = mainFile /\ LiveData' = image
    BY <2>1, <2>2, FileFacts DEF LiveData
  <2>7. RestoreKeepsData
    <3>1. FileExists(mainFile) => \E e \in evidence' : e.content = LiveData
      BY <2>1, <2>2, <2>6
    <3> QED
      BY <3>1 DEF RestoreKeepsData
  <2>8. RestoreIsFaithful
    BY <1>0, <2>2, <2>6 DEF RestoreIsFaithful
  <2> QED
    BY <2>4, <2>5, <2>7, <2>8 DEF DataKept
<1> QED
  BY <1>2, <1>6, <1>7, <1>8, <1>9

\* A wipe goes on from what it has removed.
LEMMA WipeKeeps ==
  ASSUME MaintTypes, MaintInv, ops_wipe \/ WipeSidecars
  PROVE  FileTypes' /\ MaintInv' /\ DataKept
<1>0. /\ UNCHANGED <<service, tmpImage, evidence>> /\ commits' = commits
      /\ NoFile \in Files
  BY DEF ops_wipe, WipeSidecars, maintBounds, Files
<1>1. job.kind # "restore"
  BY DEF ops_wipe, WipeSidecars, JobBegin, NoJob, JobAt
<1>2. image' \in {image, NoFile} /\ digest' \in {digest, NoFile}
  BY DEF ops_wipe, WipeSidecars
<1>3. BackupPairMatches'
  BY <1>2, FileFacts DEF MaintInv, BackupPairMatches
<1>4. CASE ops_wipe
  <2>1. /\ walFile' = walFile /\ ~DaemonActive /\ mainFile' = NoFile
        /\ job'.kind = "wipe" /\ job'.pc = "main" /\ job' \in JobPlaces
    BY <1>4, JobMoves DEF ops_wipe, ensure_destructive_ops_daemon_stopped, Places
  <2>2. FileTypes'
    BY <1>0, <1>2, <2>1 DEF MaintTypes, FileTypes, FilesOK
  <2>3. DaemonRests' /\ BackupSteps' /\ RestoreSteps' /\ WipeSteps'
    BY <1>0, <2>1 DEF DaemonRests, BackupSteps, RestoreSteps, WipeSteps, JobAt, DaemonActive
  <2> QED
    BY <1>1, <1>3, <2>2, <2>3, NothingAtStake DEF MaintInv
<1>5. CASE WipeSidecars
  <2>1. /\ job.kind = "wipe" /\ mainFile = NoFile /\ mainFile' = NoFile /\ ~DaemonActive
        /\ job.pc \in {"wal", "key"} => walFile = NoFile
    BY <1>5 DEF WipeSidecars, JobAt, MaintInv, WipeSteps, DaemonRests
  <2>2. walFile' = NoFile
    BY <1>5, <2>1 DEF WipeSidecars, JobAt
  <2>3. job' \in JobPlaces /\ job'.kind \in {"wipe", "none"}
    <3>1. \/ JobAt("wipe", "main") /\ JobGoto("wal")
          \/ JobAt("wipe", "wal") /\ JobGoto("key")
          \/ job' = job
          \/ job' = NoJob
      BY <1>5 DEF WipeSidecars, JobDone
    <3> QED
      BY <2>1, <3>1, JobMoves DEF MaintTypes, FileTypes, Places
  <2>4. FileTypes'
    BY <1>0, <1>2, <2>1, <2>2, <2>3 DEF MaintTypes, FileTypes, FilesOK
  <2>5. DaemonRests' /\ BackupSteps' /\ RestoreSteps' /\ WipeSteps'
    BY <1>0, <2>1, <2>2, <2>3 DEF DaemonRests, BackupSteps, RestoreSteps, WipeSteps, JobAt, DaemonActive
  <2> QED
    BY <1>1, <1>3, <2>4, <2>5, NothingAtStake DEF MaintInv
<1> QED
  BY <1>4, <1>5

\* What a rekeying leaves: the rows that there were, all under the new key.
LEMMA RekeyedFile ==
  ASSUME MaintTypes, FileExists(mainFile), NEW new \in DataKeys,
         walFile' = [LiveData EXCEPT !.ciphers = {rekey_integration_field(c, new) : c \in @}]
  PROVE  walFile' \in FileContents /\ walFile'.ciphers \subseteq {new} /\ LiveData' = walFile'
<1> DEFINE rekeyed == {rekey_integration_field(c, new) : c \in LiveData.ciphers}
<1>1. rekeyed \subseteq {new}
  BY DEF rekey_integration_field
<1>2. walFile' = [LiveData EXCEPT !.ciphers = rekeyed] /\ LiveData \in FileContents
  BY LiveFacts
<1> HIDE DEF rekeyed
<1>3. walFile' \in FileContents /\ walFile'.ciphers \subseteq {new}
  BY <1>1, <1>2 DEF FileContents
<1> QED
  BY <1>3, FileFacts DEF LiveData, Files

\* Data delete and the key commands.
LEMMA KeyCommandsKeep ==
  ASSUME MaintTypes, MaintInv,
         data_delete \/ key_rotate \/ key_rekey_integration_tasks \/ compact_rekeyed_database
  PROVE  FileTypes' /\ MaintInv' /\ DataKept
<1>0. /\ UNCHANGED <<service, image, digest, tmpImage, evidence>> /\ commits' = commits
      /\ NoFile \in Files
  BY DEF data_delete, key_rotate, key_rekey_integration_tasks, compact_rekeyed_database,
         maintBounds, Files
<1>1. BackupPairMatches'
  BY <1>0 DEF MaintInv, BackupPairMatches
<1>2. DataKept
  <2>1. job.kind # "restore"
    BY DEF data_delete, key_rotate, key_rekey_integration_tasks, compact_rekeyed_database,
           JobBegin, NoJob, JobAt
  <2> QED
    BY <2>1, NothingAtStake
<1>3. LiveData \in Files /\ (FileExists(mainFile) => LiveData \in FileContents)
  BY LiveFacts
<1>4. CASE data_delete
  <2>1. job' = NoJob /\ walFile' = NoFile
    BY <1>4 DEF data_delete, JobBegin
  <2>2. mainFile' \in FileContents
    <3>1. LiveData \in FileContents /\ mainFile' = [LiveData EXCEPT !.ciphers = {}]
      BY <1>3, <1>4 DEF data_delete
    <3> QED
      BY <3>1 DEF FileContents
  <2>3. FileTypes'
    BY <1>0, <2>1, <2>2, JobMoves DEF MaintTypes, FileTypes, FilesOK, Files
  <2> QED
    BY <1>1, <1>2, <2>1, <2>3, CommandEnds
<1>5. CASE key_rotate
  <2>1. job' = NoJob /\ UNCHANGED <<mainFile, walFile>>
    BY <1>5 DEF key_rotate, JobBegin
  <2>2. FileTypes'
    BY <1>0, <2>1, JobMoves DEF MaintTypes, FileTypes, FilesOK
  <2> QED
    BY <1>1, <1>2, <2>1, <2>2, CommandEnds
<1>6. CASE key_rekey_integration_tasks
  <2>1. PICK new \in DataKeys :
          /\ walFile' = [LiveData EXCEPT !.ciphers = {rekey_integration_field(c, new) : c \in @}]
          /\ job' = [kind |-> "rekey", pc |-> "committed", key |-> new]
    BY <1>6 DEF key_rekey_integration_tasks
  <2>2. mainFile' = mainFile /\ ~DaemonActive /\ FileExists(mainFile)
    BY <1>6 DEF key_rekey_integration_tasks, ensure_destructive_ops_daemon_stopped
  <2>3. walFile' \in Files
    BY <2>1, <2>2, RekeyedFile DEF Files
  <2>4. job' \in JobPlaces /\ job'.kind = "rekey"
    BY <2>1 DEF JobPlaces, Places
  <2>5. FileTypes'
    BY <1>0, <2>2, <2>3, <2>4 DEF MaintTypes, FileTypes, FilesOK
  <2>6. DaemonRests' /\ BackupSteps' /\ RestoreSteps' /\ WipeSteps'
    BY <1>0, <2>2, <2>4 DEF DaemonRests, BackupSteps, RestoreSteps, WipeSteps, JobAt, DaemonActive
  <2> QED
    BY <1>1, <1>2, <2>5, <2>6 DEF MaintInv
<1>7. CASE compact_rekeyed_database
  <2>1. job' = NoJob /\ walFile' = NoFile /\ mainFile' = LiveData
    BY <1>7 DEF compact_rekeyed_database, JobDone
  <2>2. FileTypes'
    BY <1>0, <1>3, <2>1, JobMoves DEF MaintTypes, FileTypes, FilesOK
  <2> QED
    BY <1>1, <1>2, <2>1, <2>2, CommandEnds
<1> QED
  BY <1>4, <1>5, <1>6, <1>7

\* A failure or a kill ends the command where it is; the files stay as they are.
LEMMA FailureKeeps ==
  ASSUME MaintTypes, MaintInv, StepFails \/ ToolKilled
  PROVE  FileTypes' /\ MaintInv' /\ DataKept
<1>1. /\ UNCHANGED <<service, mainFile, walFile, image, digest, evidence>>
      /\ commits' = commits /\ job' = NoJob /\ tmpImage' = NoFile /\ NoFile \in Files
  BY DEF StepFails, ToolKilled, JobDone, maintBounds, Files
<1>2. FileTypes'
  BY <1>1, JobMoves DEF MaintTypes, FileTypes, FilesOK
<1>3. BackupPairMatches'
  BY <1>1 DEF MaintInv, BackupPairMatches
<1>4. DataKept
  BY <1>1 DEF DataKept, RestoreKeepsData, RestoreIsFaithful, LiveData
<1> QED
  BY <1>1, <1>2, <1>3, <1>4, CommandEnds

-----------------------------------------------------------------------------
(* Maintenance commands: the operator's record of the keys.                *)

\* A running daemon has a key of the record, and a rekeying has left its new key alone.
DaemonKeyRecorded == DaemonActive => service \in recordedKeys
RekeyedRows == job.kind = "rekey" => /\ job.pc = "committed" /\ job.key \in DataKeys
                                     /\ LiveData.ciphers \subseteq {"plain", job.key}

KeyInv == RowsUnderRecordedKeys /\ DaemonKeyRecorded /\ RekeyedRows

\* The record grows, and the database gains no other rows.
LEMMA RecordGrows ==
  ASSUME KeyInv, recordedKeys \subseteq recordedKeys', LiveData'.ciphers \subseteq LiveData.ciphers,
         service' = service \/ service' = "inactive" \/ service' \in recordedKeys',
         job' = job \/ job'.kind # "rekey"
  PROVE  KeyInv'
  BY DEF KeyInv, RowsUnderRecordedKeys, DaemonKeyRecorded, DaemonActive, RekeyedRows

\* The daemon's steps: it writes under its own key, and it started with one on record.
LEMMA DaemonKeys ==
  ASSUME MaintTypes, MaintInv, KeyInv,
         \/ DaemonCommits \/ Checkpoint \/ DaemonStops \/ DaemonStarts \/ ReadsVerified
         \/ DiscardImage \/ ImageRots
  PROVE  RecordsOK' /\ KeyInv'
<1>0. /\ service \in DataKeys \cup {"plain", "inactive"} /\ recordedKeys \subseteq DataKeys \cup {"plain"}
      /\ job' = job
  BY DEF MaintTypes, RecordsOK, DaemonCommits, Checkpoint, DaemonStops, DaemonStarts, ReadsVerified,
         DiscardImage, ImageRots
<1>1. CASE DaemonCommits
  <2>1. PICK unfinished \in BOOLEAN, task \in BOOLEAN :
          walFile' = [LiveData EXCEPT !.version = commits + 2, !.openBatch = unfinished,
                          !.ciphers = IF task THEN @ \cup {service} ELSE @]
    BY <1>1 DEF DaemonCommits
  <2>2. LiveData \in FileContents /\ FileExists(LiveData)
    BY <1>1, LiveFacts, FileFacts DEF DaemonCommits
  <2>3. FileExists(walFile') /\ walFile'.ciphers \subseteq LiveData.ciphers \cup {service}
    BY <2>1, <2>2 DEF FileContents, FileExists
  <2>4. LiveData' = walFile'
    BY <2>3 DEF LiveData
  <2>5. /\ DaemonActive /\ job.kind # "rekey" /\ UNCHANGED <<service, recordedKeys>>
    BY <1>1 DEF DaemonCommits, MaintInv, DaemonRests
  <2>6. service \in recordedKeys /\ LiveData.ciphers \subseteq recordedKeys \cup {"plain"}
    BY <2>5 DEF KeyInv, DaemonKeyRecorded, RowsUnderRecordedKeys
  <2> QED
    BY <1>0, <2>3, <2>4, <2>5, <2>6 DEF RecordsOK, KeyInv, DaemonKeyRecorded, RowsUnderRecordedKeys,
                                        DaemonActive, RekeyedRows
<1>2. CASE Checkpoint \/ DaemonStops
  <2>1. LiveData' = LiveData
    <3>1. UNCHANGED <<mainFile, walFile>> \/ (mainFile' = LiveData /\ walFile' = NoFile)
      BY <1>2 DEF Checkpoint, DaemonStops, LiveData
    <3> QED
      BY <3>1, FileFacts DEF LiveData
  <2>2. recordedKeys' = recordedKeys /\ service' \in {service, "inactive"}
    BY <1>2 DEF Checkpoint, DaemonStops
  <2> QED
    BY <1>0, <2>1, <2>2, RecordGrows DEF RecordsOK
<1>3. CASE DaemonStarts
  <2>1. LiveData'.ciphers \subseteq LiveData.ciphers
    <3>1. CASE FileExists(mainFile)
      BY <1>3, <3>1 DEF DaemonStarts, LiveData
    <3>2. CASE ~FileExists(mainFile)
      <4>1. LiveData' = NewDatabase
        BY <1>3, <3>2, FileFacts DEF DaemonStarts, LiveData
      <4> QED
        BY <4>1 DEF NewDatabase
    <3> QED
      BY <3>1, <3>2
  <2>2. recordedKeys' = recordedKeys /\ service' \in recordedKeys
    BY <1>3 DEF DaemonStarts
  <2> QED
    BY <1>0, <2>1, <2>2, RecordGrows DEF RecordsOK
<1>4. CASE ReadsVerified
  <2>1. /\ DaemonActive /\ job = NoJob /\ recordedKeys' = {service} /\ service' = service
        /\ LiveData.ciphers \subseteq {"plain", service} /\ LiveData' = LiveData
    BY <1>4 DEF ReadsVerified, ReadableWith, maintFiles, LiveData
  <2> QED
    BY <1>0, <2>1 DEF RecordsOK, KeyInv, DaemonKeyRecorded, RowsUnderRecordedKeys, DaemonActive,
                      RekeyedRows, NoJob
<1>5. CASE DiscardImage \/ ImageRots
  <2>1. UNCHANGED <<service, recordedKeys, mainFile, walFile>>
    BY <1>5 DEF DiscardImage, ImageRots
  <2>2. LiveData' = LiveData
    BY <2>1 DEF LiveData
  <2> QED
    BY <1>0, <2>1, <2>2, RecordGrows DEF RecordsOK
<1> QED
  BY <1>1, <1>2, <1>3, <1>4, <1>5

\* Backup, failure and kill touch neither the live files nor the record.
LEMMA FilesStayKeys ==
  ASSUME MaintTypes, MaintInv, KeyInv,
         \/ ops_backup \/ remove_existing_hash_sidecar_file \/ PublishImage \/ PublishDigest
         \/ StepFails \/ ToolKilled \/ PreserveMain \/ PreserveWal \/ ops_restore
  PROVE  RecordsOK' /\ KeyInv'
<1>1. UNCHANGED <<service, recordedKeys, mainFile, walFile>>
  BY DEF ops_backup, remove_existing_hash_sidecar_file, PublishImage, PublishDigest, StepFails,
         ToolKilled, PreserveMain, PreserveWal, ops_restore
<1>2. LiveData' = LiveData
  BY <1>1 DEF LiveData
<1>3. job'.kind # "rekey"
  <2>1. \/ job' = NoJob \/ job' = JobOf("backup", "hashed") \/ job' = JobOf("restore", "copied")
        \/ \E p, q : JobAt("backup", p) /\ JobGoto(q)
        \/ \E p, q : JobAt("restore", p) /\ JobGoto(q)
    BY DEF ops_backup, remove_existing_hash_sidecar_file, PublishImage, PublishDigest, StepFails,
           ToolKilled, PreserveMain, PreserveWal, ops_restore, JobDone
  <2> QED
    BY <2>1, JobMoves DEF Places
<1> QED
  BY <1>1, <1>2, <1>3, RecordGrows DEF MaintTypes, RecordsOK

\* A restore brings rows whose keys the operator has.
LEMMA RestoreKeys ==
  ASSUME MaintTypes, MaintInv, KeyInv, RemoveWal \/ PublishRestored
  PROVE  RecordsOK' /\ KeyInv'
<1>0. /\ service \in DataKeys \cup {"plain", "inactive"} /\ recordedKeys \subseteq DataKeys \cup {"plain"}
      /\ mainFile.ciphers \subseteq DataKeys \cup {"plain"} /\ tmpImage.ciphers \subseteq DataKeys \cup {"plain"}
  BY FileFacts DEF MaintTypes, RecordsOK, FileTypes, FilesOK, Files
<1>1. job.kind = "restore" /\ ~DaemonActive /\ service' = service
  BY DEF RemoveWal, PublishRestored, JobAt, MaintInv, DaemonRests
<1>2. CASE RemoveWal
  <2>1. /\ recordedKeys' = recordedKeys \cup (mainFile.ciphers \ {"plain"})
        /\ walFile' = NoFile /\ mainFile' = mainFile /\ job'.kind = "restore"
    BY <1>2, JobMoves DEF RemoveWal
  <2>2. LiveData' = mainFile
    BY <2>1, FileFacts DEF LiveData
  <2> QED
    BY <1>0, <1>1, <2>1, <2>2 DEF RecordsOK, KeyInv, RowsUnderRecordedKeys, DaemonKeyRecorded,
                                  DaemonActive, RekeyedRows
<1>3. CASE PublishRestored
  <2>1. /\ recordedKeys' = IF tmpImage.ciphers \subseteq {"plain"} THEN recordedKeys
                           ELSE tmpImage.ciphers \ {"plain"}
        /\ mainFile' = tmpImage /\ walFile' = walFile /\ job' = NoJob /\ JobAt("restore", "ready")
    BY <1>3 DEF PublishRestored, JobDone
  <2>2. LiveData' = tmpImage
    BY <2>1, FileFacts DEF LiveData, JobAt, MaintInv, RestoreSteps
  <2>3. LiveData'.ciphers \subseteq recordedKeys' \cup {"plain"}
    BY <2>1, <2>2
  <2>4. recordedKeys' \subseteq DataKeys \cup {"plain"}
    BY <1>0, <2>1
  <2> QED
    BY <1>0, <1>1, <2>1, <2>3, <2>4 DEF RecordsOK, KeyInv, RowsUnderRecordedKeys, DaemonKeyRecorded,
                                  DaemonActive, RekeyedRows, NoJob
<1> QED
  BY <1>2, <1>3

\* A wipe removes the key when there is nothing left that it could read.
LEMMA WipeKeys ==
  ASSUME MaintTypes, MaintInv, KeyInv, ops_wipe \/ WipeSidecars
  PROVE  RecordsOK' /\ KeyInv'
<1>0. service \in DataKeys \cup {"plain", "inactive"} /\ recordedKeys \subseteq DataKeys \cup {"plain"}
  BY DEF MaintTypes, RecordsOK
<1>1. service' = service /\ mainFile' = NoFile /\ ~DaemonActive /\ job'.kind # "rekey"
  <2>1. CASE ops_wipe
    BY <2>1, JobMoves DEF ops_wipe, ensure_destructive_ops_daemon_stopped, Places
  <2>2. CASE WipeSidecars
    <3>1. /\ job.kind = "wipe" /\ mainFile = NoFile /\ ~DaemonActive
          /\ service' = service /\ mainFile' = mainFile
      BY <2>2 DEF WipeSidecars, JobAt, MaintInv, WipeSteps, DaemonRests
    <3>2. \/ JobAt("wipe", "main") /\ JobGoto("wal")
          \/ JobAt("wipe", "wal") /\ JobGoto("key")
          \/ job' = job
          \/ job' = NoJob
      BY <2>2 DEF WipeSidecars, JobDone
    <3> QED
      BY <3>1, <3>2, JobMoves
  <2> QED
    BY <2>1, <2>2
<1>2. recordedKeys' = recordedKeys \/ (recordedKeys' = {"plain"} /\ walFile' = NoFile)
  BY DEF ops_wipe, WipeSidecars, JobAt, MaintInv, WipeSteps
<1>3. walFile' = walFile \/ walFile' = NoFile
  BY DEF ops_wipe, WipeSidecars
<1>4. LiveData'.ciphers \subseteq LiveData.ciphers /\ (walFile' = NoFile => LiveData'.ciphers = {})
  BY <1>1, <1>3, FileFacts DEF LiveData
<1> QED
  BY <1>0, <1>1, <1>2, <1>4 DEF RecordsOK, KeyInv, RowsUnderRecordedKeys, DaemonKeyRecorded,
                                DaemonActive, RekeyedRows

\* Key generation refuses what it could not read again, and a rekeying takes all rows with it.
LEMMA KeyCommandKeys ==
  ASSUME MaintTypes, MaintInv, KeyInv,
         data_delete \/ key_rotate \/ key_rekey_integration_tasks \/ compact_rekeyed_database
  PROVE  RecordsOK' /\ KeyInv'
<1>0. /\ service \in DataKeys \cup {"plain", "inactive"} /\ recordedKeys \subseteq DataKeys \cup {"plain"}
      /\ service' = service
  BY DEF MaintTypes, RecordsOK, data_delete, key_rotate, key_rekey_integration_tasks,
         compact_rekeyed_database
<1>1. ~DaemonActive
  BY DEF data_delete, key_rotate, key_rekey_integration_tasks, compact_rekeyed_database, MaintInv,
         DaemonRests, JobAt, ensure_destructive_ops_daemon_stopped
<1>2. CASE data_delete
  <2>1. LiveData'.ciphers = {}
    <3>1. FileExists(mainFile) /\ mainFile' = [LiveData EXCEPT !.ciphers = {}] /\ walFile' = NoFile
      BY <1>2 DEF data_delete
    <3>2. LiveData \in FileContents
      BY <3>1, LiveFacts
    <3> QED
      BY <3>1, <3>2, FileFacts DEF LiveData, FileContents
  <2>2. recordedKeys' = recordedKeys /\ job' = NoJob
    BY <1>2 DEF data_delete, JobBegin
  <2> QED
    BY <1>0, <1>1, <2>1, <2>2 DEF RecordsOK, KeyInv, RowsUnderRecordedKeys, DaemonKeyRecorded,
                                  DaemonActive, RekeyedRows, NoJob
<1>3. CASE key_rotate
  <2>1. /\ LiveData.ciphers \subseteq {"plain"} /\ UNCHANGED <<mainFile, walFile>> /\ job' = NoJob
        /\ recordedKeys' \subseteq recordedKeys \cup DataKeys
    BY <1>3 DEF key_rotate, JobBegin, ensure_no_encrypted_integration_payloads_for_key_generate
  <2>2. LiveData' = LiveData
    BY <2>1 DEF LiveData
  <2> QED
    BY <1>0, <1>1, <2>1, <2>2 DEF RecordsOK, KeyInv, RowsUnderRecordedKeys, DaemonKeyRecorded,
                                  DaemonActive, RekeyedRows, NoJob
<1>4. CASE key_rekey_integration_tasks
  <2>1. PICK new \in DataKeys :
          /\ walFile' = [LiveData EXCEPT !.ciphers = {rekey_integration_field(c, new) : c \in @}]
          /\ recordedKeys' = recordedKeys \cup {new}
          /\ job' = [kind |-> "rekey", pc |-> "committed", key |-> new]
    BY <1>4 DEF key_rekey_integration_tasks
  <2>2. LiveData'.ciphers \subseteq {new}
    BY <1>4, <2>1, RekeyedFile DEF key_rekey_integration_tasks
  <2> QED
    BY <1>0, <1>1, <2>1, <2>2 DEF RecordsOK, KeyInv, RowsUnderRecordedKeys, DaemonKeyRecorded,
                                  DaemonActive, RekeyedRows
<1>5. CASE compact_rekeyed_database
  <2>1. /\ job.kind = "rekey" /\ mainFile' = LiveData /\ walFile' = NoFile
        /\ recordedKeys' = {job.key} /\ job' = NoJob
    BY <1>5 DEF compact_rekeyed_database, JobAt, JobDone
  <2>2. LiveData' = LiveData
    BY <2>1, FileFacts DEF LiveData
  <2>3. job.key \in DataKeys /\ LiveData.ciphers \subseteq {"plain", job.key}
    BY <2>1 DEF KeyInv, RekeyedRows
  <2> QED
    BY <1>0, <1>1, <2>1, <2>2, <2>3 DEF RecordsOK, KeyInv, RowsUnderRecordedKeys, DaemonKeyRecorded,
                                        DaemonActive, RekeyedRows, NoJob
<1> QED
  BY <1>2, <1>3, <1>4, <1>5

\* Every step keeps the invariant and the data.
LEMMA MaintStep ==
  ASSUME MaintTypes, MaintInv, KeyInv, MaintNext
  PROVE  MaintTypes' /\ MaintInv' /\ KeyInv' /\ DataKept
<1>1. FileTypes' /\ MaintInv' /\ DataKept
  BY DaemonKeeps, BackupKeeps, RestoreKeeps, WipeKeeps, KeyCommandsKeep, FailureKeeps DEF MaintNext
<1>2. RecordsOK' /\ KeyInv'
  BY DaemonKeys, FilesStayKeys, RestoreKeys, WipeKeys, KeyCommandKeys DEF MaintNext
<1> QED
  BY <1>1, <1>2 DEF MaintTypes

\* Every reachable state of the maintenance commands satisfies the invariant.
LEMMA MaintInvariant == MaintSpec => [](MaintTypes /\ MaintInv /\ KeyInv)
<1>1. ASSUME MaintInit
      PROVE  MaintTypes /\ MaintInv /\ KeyInv
  <2>1. mainFile \in FileContents
    BY <1>1, MaintenanceConstants DEF MaintInit, NewDatabase, FileContents
  <2>2. job \in JobPlaces
    BY <1>1 DEF MaintInit, NoJob, JobPlaces, Places
  <2>3. MaintTypes
    BY <1>1, <2>1, <2>2 DEF MaintInit, MaintTypes, FileTypes, RecordsOK, FilesOK, Files
  <2>4. MaintInv
    BY <1>1, FileFacts DEF MaintInit, MaintInv, DaemonRests, BackupSteps, RestoreSteps, WipeSteps,
                           JobAt, NoJob, BackupPairMatches
  <2>5. KeyInv
    BY <1>1, FileFacts DEF MaintInit, KeyInv, RowsUnderRecordedKeys, DaemonKeyRecorded, RekeyedRows,
                           NoJob, LiveData, NewDatabase
  <2> QED
    BY <2>3, <2>4, <2>5
<1>2. ASSUME MaintTypes, MaintInv, KeyInv, [MaintNext]_maintVars
      PROVE  MaintTypes' /\ MaintInv' /\ KeyInv'
  <2>1. CASE MaintNext
    BY <1>2, <2>1, MaintStep
  <2>2. CASE UNCHANGED maintVars
    <3>1. UNCHANGED <<service, mainFile, walFile, image, digest, tmpImage, evidence, recordedKeys,
                      job, commits>>
      BY <2>2 DEF maintVars
    <3>2. MaintTypes'
      BY <1>2, <3>1 DEF MaintTypes, FileTypes, RecordsOK, FilesOK
    <3>3. MaintInv'
      BY <1>2, <3>1 DEF MaintInv, DaemonRests, DaemonActive, BackupSteps, RestoreSteps, WipeSteps,
                        JobAt, BackupPairMatches
    <3>4. KeyInv'
      BY <1>2, <3>1 DEF KeyInv, RowsUnderRecordedKeys, DaemonKeyRecorded, DaemonActive, RekeyedRows,
                        LiveData
    <3> QED
      BY <3>2, <3>3, <3>4
  <2> QED
    BY <1>2, <2>1, <2>2
<1> QED
  BY <1>1, <1>2, PTL DEF MaintSpec

(***************************************************************************)
(* Whatever fails or is killed, a sound snapshot and a digest beside it    *)
(* belong together, for any number of commands (ops_backup).               *)
(***************************************************************************)
THEOREM BackupPairsMatch == MaintSpec => []BackupPairMatches
<1>1. MaintInv => BackupPairMatches
  BY DEF MaintInv
<1> QED
  BY <1>1, MaintInvariant, PTL

(***************************************************************************)
(* A restore loses nothing and publishes its snapshot, and every row is    *)
(* always under a key the operator's records name: also when a rekeying    *)
(* reports an error after its commit, when the operator starts the daemon  *)
(* with the wrong one of the two keys he then has, and when a restore is   *)
(* cut off; for any number of commands, failures and kills, and any set of *)
(* keys (ops_restore, key_rotate, key_rekey_integration_tasks).            *)
(***************************************************************************)
THEOREM CommandsLoseNothing == MaintSpec => CommandsKeepData
<1>1. ASSUME MaintTypes, MaintInv, KeyInv, [MaintNext]_maintVars
      PROVE  [RestoreKeepsData /\ RestoreIsFaithful /\ RowsUnderRecordedKeys']_maintVars
  <2>1. CASE UNCHANGED maintVars
    BY <2>1
  <2>2. CASE MaintNext
    BY <1>1, <2>2, MaintStep DEF DataKept, KeyInv
  <2> QED
    BY <1>1, <2>1, <2>2
<1> QED
  BY <1>1, MaintInvariant, PTL DEF MaintSpec, CommandsKeepData

\* The files, the keys and the running command keep their types.
THEOREM MaintTypeCorrect == MaintSpec => []MaintTypeOK
<1>1. ASSUME MaintTypes
      PROVE  MaintTypeOK
  BY <1>1 DEF MaintTypes, FileTypes, RecordsOK, FilesOK, Files, JobPlaces, MaintTypeOK
<1> QED
  BY <1>1, MaintInvariant, PTL

-----------------------------------------------------------------------------
(* The audited database: the inductive invariant.                          *)

Kinds == {"event", "create", "recommend", "update", "addStep", "updateStep", "result"}

Contents == [kind : Kinds, about : Nat, at : {0, 1, 9}]

Digests == Seq(Contents)

EventRecords == [content : Contents, prev : Digests, hash : Digests]

RecipeRecords == [version : Nat \ {0}, status : Statuses \cup {"draft", "applied"},
                  steps : Seq(1 .. MaxSteps)]

TxRecords == [open : BOOLEAN, op : Ops, prev : Digests, index : Nat]

StoreTypes ==
    /\ events \in Seq(EventRecords) /\ Len(events) <= MaxEvents
    /\ recipes \in Seq(RecipeRecords) /\ Len(recipes) <= MaxRecipes
    /\ batchRows \in Seq({"open", "finished"}) /\ Len(batchRows) <= MaxBatches
    /\ results \subseteq DOMAIN batchRows /\ advice \in Nat /\ moved \in BOOLEAN
    /\ txs \in [StoreCallers -> TxRecords]
    /\ chainRead \in [pc : {"idle", "counted"}, total : Nat, valid : BOOLEAN]
    /\ damage \in 0 .. MaxDamage

\* The locks let one audited transaction run at a time.
OneTx == \A c, d \in StoreCallers : txs[c].open /\ txs[d].open => c = d

\* What an open transaction has read still holds when it writes.
TxCurrent(c) ==
    LET tx == txs[c] IN
    /\ Len(events) < MaxEvents
    /\ tx.op.kind = "event" => tx.prev = LastHash(events)
    /\ tx.op.kind = "create" => Len(recipes) < MaxRecipes
    /\ tx.op.kind \in {"update", "addStep", "updateStep"} => tx.op.about \in DOMAIN recipes
    /\ tx.op.kind = "addStep" => /\ tx.index = Len(recipes[tx.op.about].steps) + 1
                                 /\ tx.index <= MaxSteps
    /\ tx.op.kind = "result" => tx.op.about \in DOMAIN batchRows

TxsCurrent == \A c \in StoreCallers : txs[c].open => TxCurrent(c)

\* An operation's fields, and the transaction that rests.
LEMMA OpFacts ==
  /\ NoTx \in TxRecords /\ ~NoTx.open
  /\ \A op \in Ops :
       /\ op.kind \in Kinds /\ op.about \in Nat /\ op.status \in Statuses \cup {"draft"}
       /\ op.kind \in {"create", "recommend"} => op.about = 0
       /\ op.kind = "result" => op.about \in 1 .. MaxBatches
<1>1. \A op \in Ops :
       /\ op.kind \in Kinds /\ op.about \in Nat /\ op.status \in Statuses \cup {"draft"}
       /\ op.kind \in {"create", "recommend"} => op.about = 0
       /\ op.kind = "result" => op.about \in 1 .. MaxBatches
  BY StoreConstants DEF Ops, Kinds
<1>2. [kind |-> "event", about |-> 0, status |-> "draft"] \in Ops
  BY DEF Ops
<1>3. NoHash \in Digests
  BY DEF NoHash, Digests
<1> QED
  BY <1>1, <1>2, <1>3 DEF NoTx, TxRecords

\* Sequences, and their last elements.
LEMMA StoreFacts ==
  ASSUME StoreTypes
  PROVE  /\ Len(events) \in Nat /\ DOMAIN events = 1 .. Len(events)
         /\ \A i \in DOMAIN events : events[i] \in EventRecords
         /\ Len(recipes) \in Nat /\ DOMAIN recipes = 1 .. Len(recipes)
         /\ \A p \in DOMAIN recipes : recipes[p] \in RecipeRecords
         /\ Len(batchRows) \in Nat /\ DOMAIN batchRows = 1 .. Len(batchRows)
         /\ \A c \in StoreCallers : txs[c] \in TxRecords
         /\ damage \in Nat
  BY StoreConstants DEF StoreTypes

\* The hash a new event chains to.
LEMMA LastHashFacts ==
  ASSUME NEW evs \in Seq(EventRecords)
  PROVE  /\ LastHash(evs) \in Digests
         /\ Len(evs) = 0 => LastHash(evs) = NoHash
         /\ Len(evs) > 0 => LastHash(evs) = evs[Len(evs)].hash
<1>1. CASE evs = <<>>
  <2>1. LastHash(evs) = NoHash /\ Len(evs) = 0
    BY <1>1 DEF LastHash
  <2> QED
    BY <2>1 DEF NoHash, Digests
<1>2. CASE evs # <<>>
  <2>1. Len(evs) \in Nat /\ Len(evs) > 0
    BY <1>2
  <2>2. LastHash(evs) = evs[Len(evs)].hash
    BY <1>2 DEF LastHash, Last
  <2>3. evs[Len(evs)] \in EventRecords
    BY <2>1
  <2> QED
    BY <2>1, <2>2, <2>3 DEF EventRecords
<1> QED
  BY <1>1, <1>2

\* A transaction begins or ends; the others are not touched.
LEMMA TxReplaced ==
  ASSUME StoreTypes, NEW c \in StoreCallers, NEW tx \in TxRecords, txs' = [txs EXCEPT ![c] = tx]
  PROVE  /\ txs' \in [StoreCallers -> TxRecords] /\ txs'[c] = tx
         /\ \A d \in StoreCallers : d # c => txs'[d] = txs[d]
  BY DEF StoreTypes

\* A recipe is added, updated or extended.
LEMMA RecipeFields ==
  ASSUME StoreTypes
  PROVE  /\ recipes' = create_process =>
              /\ recipes' \in Seq(RecipeRecords) /\ Len(recipes') = Len(recipes) + 1
              /\ \A p \in DOMAIN recipes : recipes'[p] = recipes[p]
              /\ recipes'[Len(recipes) + 1].version = 1
              /\ recipes'[Len(recipes) + 1].steps = <<>>
         /\ \A p \in DOMAIN recipes, status \in Statuses \cup {"draft"} :
              recipes' = update_process(p, status) =>
                /\ recipes' \in Seq(RecipeRecords) /\ Len(recipes') = Len(recipes)
                /\ \A q \in DOMAIN recipes : q # p => recipes'[q] = recipes[q]
                /\ recipes'[p].version = recipes[p].version + 1
                /\ recipes'[p].steps = recipes[p].steps
         /\ \A p \in DOMAIN recipes, k \in 1 .. MaxSteps :
              recipes' = add_process_step(p, k) =>
                /\ recipes' \in Seq(RecipeRecords) /\ Len(recipes') = Len(recipes)
                /\ \A q \in DOMAIN recipes : q # p => recipes'[q] = recipes[q]
                /\ recipes'[p].version = recipes[p].version
                /\ recipes'[p].steps = Append(recipes[p].steps, k)
         /\ \A p \in DOMAIN recipes :
              recipes' = [recipes EXCEPT ![p].status = "applied"] =>
                /\ recipes' \in Seq(RecipeRecords) /\ Len(recipes') = Len(recipes)
                /\ \A q \in DOMAIN recipes : q # p => recipes'[q] = recipes[q]
                /\ recipes'[p].version = recipes[p].version
                /\ recipes'[p].steps = recipes[p].steps
<1>0. recipes \in Seq(RecipeRecords) /\ Len(recipes) \in Nat /\ DOMAIN recipes = 1 .. Len(recipes)
  BY StoreFacts DEF StoreTypes
<1>1. ASSUME NEW p \in DOMAIN recipes, NEW r \in RecipeRecords, recipes' = [recipes EXCEPT ![p] = r]
      PROVE  /\ recipes' \in Seq(RecipeRecords) /\ Len(recipes') = Len(recipes)
             /\ \A q \in DOMAIN recipes : q # p => recipes'[q] = recipes[q]
             /\ recipes'[p] = r
  BY <1>0, <1>1
<1>2. ASSUME recipes' = create_process
      PROVE  /\ recipes' \in Seq(RecipeRecords) /\ Len(recipes') = Len(recipes) + 1
             /\ \A p \in DOMAIN recipes : recipes'[p] = recipes[p]
             /\ recipes'[Len(recipes) + 1].version = 1
             /\ recipes'[Len(recipes) + 1].steps = <<>>
  <2> DEFINE r == [version |-> 1, status |-> "draft", steps |-> <<>>]
  <2>1. r \in RecipeRecords /\ r.version = 1 /\ r.steps = <<>>
    BY DEF RecipeRecords
  <2>2. recipes' = Append(recipes, r)
    BY <1>2 DEF create_process
  <2> HIDE DEF r
  <2> QED
    BY <1>0, <2>1, <2>2
<1>3. ASSUME NEW p \in DOMAIN recipes, NEW status \in Statuses \cup {"draft"},
             recipes' = update_process(p, status)
      PROVE  /\ recipes' \in Seq(RecipeRecords) /\ Len(recipes') = Len(recipes)
             /\ \A q \in DOMAIN recipes : q # p => recipes'[q] = recipes[q]
             /\ recipes'[p].version = recipes[p].version + 1
             /\ recipes'[p].steps = recipes[p].steps
  <2> DEFINE r == [recipes[p] EXCEPT !.version = recipes[p].version + 1, !.status = status]
  <2>1. recipes[p] \in RecipeRecords
    BY <1>0
  <2>2. recipes[p].version + 1 \in Nat \ {0}
    BY <2>1 DEF RecipeRecords
  <2>3. /\ r \in RecipeRecords /\ r.version = recipes[p].version + 1 /\ r.steps = recipes[p].steps
    BY <2>1, <2>2 DEF RecipeRecords
  <2>4. recipes' = [recipes EXCEPT ![p] = r]
    BY <1>0, <1>3, <2>1 DEF update_process, RecipeRecords
  <2> HIDE DEF r
  <2> QED
    BY <1>1, <2>3, <2>4
<1>4. ASSUME NEW p \in DOMAIN recipes, NEW k \in 1 .. MaxSteps, recipes' = add_process_step(p, k)
      PROVE  /\ recipes' \in Seq(RecipeRecords) /\ Len(recipes') = Len(recipes)
             /\ \A q \in DOMAIN recipes : q # p => recipes'[q] = recipes[q]
             /\ recipes'[p].version = recipes[p].version
             /\ recipes'[p].steps = Append(recipes[p].steps, k)
  <2> DEFINE st == Append(recipes[p].steps, k)
             r == [recipes[p] EXCEPT !.steps = st]
  <2>1. recipes[p] \in RecipeRecords
    BY <1>0
  <2>2. st \in Seq(1 .. MaxSteps)
    BY <2>1 DEF RecipeRecords
  <2>3. recipes' = [recipes EXCEPT ![p] = r]
    BY <1>0, <1>4, <2>1 DEF add_process_step, RecipeRecords
  <2> HIDE DEF st
  <2>4. /\ r \in RecipeRecords /\ r.version = recipes[p].version /\ r.steps = st
    BY <2>1, <2>2 DEF RecipeRecords
  <2> HIDE DEF r
  <2> QED
    BY <1>1, <2>3, <2>4 DEF st
<1>5. ASSUME NEW p \in DOMAIN recipes, recipes' = [recipes EXCEPT ![p].status = "applied"]
      PROVE  /\ recipes' \in Seq(RecipeRecords) /\ Len(recipes') = Len(recipes)
             /\ \A q \in DOMAIN recipes : q # p => recipes'[q] = recipes[q]
             /\ recipes'[p].version = recipes[p].version
             /\ recipes'[p].steps = recipes[p].steps
  <2> DEFINE r == [recipes[p] EXCEPT !.status = "applied"]
  <2>1. recipes[p] \in RecipeRecords
    BY <1>0
  <2>2. /\ r \in RecipeRecords /\ r.version = recipes[p].version /\ r.steps = recipes[p].steps
    BY <2>1 DEF RecipeRecords
  <2>3. recipes' = [recipes EXCEPT ![p] = r]
    BY <1>0, <1>5, <2>1
  <2> HIDE DEF r
  <2> QED
    BY <1>1, <2>2, <2>3
<1> QED
  BY <1>2, <1>3, <1>4, <1>5

\* A new event extends the digest of the one it follows.
LEMMA EventFields ==
  ASSUME StoreTypes, NEW prev \in Digests, NEW content \in Contents,
         events' = Append(events, Event(prev, content))
  PROVE  /\ events' \in Seq(EventRecords) /\ Len(events') = Len(events) + 1
         /\ \A i \in DOMAIN events : events'[i] = events[i]
         /\ events'[Len(events) + 1].content = content
         /\ events'[Len(events) + 1].prev = prev
         /\ events'[Len(events) + 1].hash = Append(prev, content)
<1> DEFINE h == Append(prev, content)
           e == [content |-> content, prev |-> prev, hash |-> h]
<1>0. events \in Seq(EventRecords) /\ Len(events) \in Nat
  BY DEF StoreTypes
<1>1. h \in Digests
  BY DEF Digests
<1>2. events' = Append(events, e)
  BY DEF Event, control_event_hash
<1> HIDE DEF h
<1>3. e \in EventRecords /\ e.content = content /\ e.prev = prev /\ e.hash = h
  BY <1>1 DEF EventRecords
<1> HIDE DEF e
<1>4. /\ events' \in Seq(EventRecords) /\ Len(events') = Len(events) + 1
      /\ \A i \in DOMAIN events : events'[i] = events[i]
      /\ events'[Len(events) + 1] = e
  BY <1>0, <1>2, <1>3
<1> QED
  BY <1>3, <1>4 DEF h

\* An element that is not the last is taken out of a sequence.
LEMMA RemoveAtFields ==
  ASSUME NEW S, NEW s \in Seq(S), NEW i \in 1 .. Len(s), i < Len(s)
  PROVE  /\ RemoveAt(s, i) \in Seq(S) /\ Len(RemoveAt(s, i)) = Len(s) - 1
         /\ \A j \in 1 .. Len(s) - 1 :
              RemoveAt(s, i)[j] = IF j < i THEN s[j] ELSE s[j + 1]
<1> DEFINE a == SubSeq(s, 1, i - 1)
           b == SubSeq(s, i + 1, Len(s))
           r == RemoveAt(s, i)
<1>0. Len(s) \in Nat
  OBVIOUS
<1>1. /\ a \in Seq(S) /\ Len(a) = i - 1
      /\ \A j \in 1 .. i - 1 : a[j] = s[j]
  BY <1>0
<1>2. /\ b \in Seq(S) /\ Len(b) = Len(s) - i
      /\ \A j \in 1 .. Len(s) - i : b[j] = s[j + i]
  BY <1>0
<1>3. r = a \o b
  BY DEF RemoveAt
<1> HIDE DEF a, b, r
<1>4. r \in Seq(S) /\ Len(r) = Len(s) - 1
  <2>1. r \in Seq(S) /\ Len(r) = Len(a) + Len(b)
    BY <1>1, <1>2, <1>3, ConcatProperties
  <2> QED
    BY <1>0, <1>1, <1>2, <2>1
<1>5. ASSUME NEW j \in 1 .. Len(s) - 1
      PROVE  r[j] = IF j < i THEN s[j] ELSE s[j + 1]
  <2>1. CASE j < i
    <3>1. r[j] = a[j]
      BY <1>0, <1>1, <1>2, <1>3, <2>1
    <3> QED
      BY <1>0, <1>1, <2>1, <3>1
  <2>2. CASE ~(j < i)
    <3>1. r[j] = b[j - (i - 1)]
      <4>1. j \in 1 .. Len(a) + Len(b) /\ ~(j <= Len(a))
        BY <1>0, <1>1, <1>2, <2>2
      <4>2. (a \o b)[j] = b[j - Len(a)]
        BY <1>1, <1>2, <4>1, ConcatProperties
      <4> QED
        BY <1>1, <1>3, <4>2
    <3>2. j - (i - 1) \in 1 .. Len(s) - i /\ (j - (i - 1)) + i = j + 1
      BY <1>0, <2>2
    <3> QED
      BY <1>2, <2>2, <3>1, <3>2
  <2> QED
    BY <2>1, <2>2
<1> QED
  BY <1>4, <1>5 DEF r

\* Damage changes the content of an event, or takes one out that is not the last.
LEMMA DamageFields ==
  ASSUME StoreTypes, NEW i \in DOMAIN events
  PROVE  /\ events' = [events EXCEPT ![i].content.at = 9] =>
              /\ events' \in Seq(EventRecords) /\ Len(events') = Len(events)
              /\ \A j \in DOMAIN events : j # i => events'[j] = events[j]
              /\ events'[i].prev = events[i].prev /\ events'[i].hash = events[i].hash
              /\ events'[i].content.at = 9
              /\ events'[i].content.kind = events[i].content.kind
              /\ events'[i].content.about = events[i].content.about
         /\ i < Len(events) /\ events' = RemoveAt(events, i) =>
              /\ events' \in Seq(EventRecords) /\ Len(events') = Len(events) - 1
              /\ \A j \in 1 .. Len(events) - 1 :
                   events'[j] = IF j < i THEN events[j] ELSE events[j + 1]
<1>0. /\ events \in Seq(EventRecords) /\ Len(events) \in Nat /\ i \in 1 .. Len(events)
      /\ events[i] \in EventRecords
  BY DEF StoreTypes
<1>1. ASSUME events' = [events EXCEPT ![i].content.at = 9]
      PROVE  /\ events' \in Seq(EventRecords) /\ Len(events') = Len(events)
             /\ \A j \in DOMAIN events : j # i => events'[j] = events[j]
             /\ events'[i].prev = events[i].prev /\ events'[i].hash = events[i].hash
             /\ events'[i].content.at = 9
             /\ events'[i].content.kind = events[i].content.kind
             /\ events'[i].content.about = events[i].content.about
  <2> DEFINE x == [events[i].content EXCEPT !.at = 9]
             e == [events[i] EXCEPT !.content = x]
  <2>1. events[i].content \in Contents
    BY <1>0 DEF EventRecords
  <2>2. /\ x \in Contents /\ x.at = 9
        /\ x.kind = events[i].content.kind /\ x.about = events[i].content.about
    BY <2>1 DEF Contents
  <2>3. events' = [events EXCEPT ![i] = e]
    BY <1>0, <1>1, <2>1 DEF EventRecords, Contents
  <2> HIDE DEF x
  <2>4. e \in EventRecords /\ e.content = x /\ e.prev = events[i].prev /\ e.hash = events[i].hash
    BY <1>0, <2>2 DEF EventRecords
  <2> HIDE DEF e
  <2>5. /\ events' \in Seq(EventRecords) /\ Len(events') = Len(events)
        /\ \A j \in DOMAIN events : j # i => events'[j] = events[j]
        /\ events'[i] = e
    BY <1>0, <2>3, <2>4
  <2> QED
    BY <2>2, <2>4, <2>5
<1>2. ASSUME i < Len(events), events' = RemoveAt(events, i)
      PROVE  /\ events' \in Seq(EventRecords) /\ Len(events') = Len(events) - 1
             /\ \A j \in 1 .. Len(events) - 1 :
                  events'[j] = IF j < i THEN events[j] ELSE events[j + 1]
  BY <1>0, <1>2, RemoveAtFields
<1> QED
  BY <1>1, <1>2

\* What a commit writes: the event after the last one, and the rows the event reports.
LEMMA CommitFields ==
  ASSUME StoreTypes, OneTx, TxsCurrent, NEW c \in StoreCallers, NEW at \in 0 .. 1, CommitTx(c, at)
  PROVE  LET op == txs[c].op
             content == [kind |-> op.kind, about |-> op.about, at |-> at]
         IN  /\ txs[c].open /\ op \in Ops /\ TxCurrent(c) /\ content \in Contents
             /\ events' = Append(events, Event(LastHash(events), content))
             /\ recipes' = RecipesAfter(op, txs[c].index)
             /\ results' = IF op.kind = "result" THEN insert_product_result(op.about) ELSE results
             /\ advice' = IF op.kind = "recommend" THEN insert_recommendation ELSE advice
             /\ moved' = FALSE /\ UNCHANGED <<batchRows, chainRead, damage>>
             /\ txs' \in [StoreCallers -> TxRecords] /\ \A d \in StoreCallers : ~txs'[d].open
<1>1. txs[c].open /\ txs[c] \in TxRecords
  BY StoreFacts DEF CommitTx
<1>2. txs[c].op \in Ops /\ TxCurrent(c)
  BY <1>1 DEF TxRecords, TxsCurrent
<1>3. [kind |-> txs[c].op.kind, about |-> txs[c].op.about, at |-> at] \in Contents
  BY <1>2, OpFacts DEF Contents
<1>4. txs[c].op.kind = "event" => txs[c].prev = LastHash(events)
  BY <1>2 DEF TxCurrent
<1>5. txs' \in [StoreCallers -> TxRecords] /\ \A d \in StoreCallers : ~txs'[d].open
  <2>1. /\ txs' \in [StoreCallers -> TxRecords] /\ txs'[c] = NoTx
        /\ \A d \in StoreCallers : d # c => txs'[d] = txs[d]
    BY OpFacts, TxReplaced DEF CommitTx
  <2> QED
    BY <1>1, <2>1, OpFacts DEF OneTx
<1> QED
  BY <1>1, <1>2, <1>3, <1>4, <1>5 DEF CommitTx, Rows

\* The recipes after a commit: one more, one changed, or the same.
LEMMA CommitRecipes ==
  ASSUME StoreTypes, NEW c \in StoreCallers, txs[c].open, TxCurrent(c), txs[c].op \in Ops,
         recipes' = RecipesAfter(txs[c].op, txs[c].index)
  PROVE  /\ recipes' \in Seq(RecipeRecords) /\ Len(recipes') <= MaxRecipes
         /\ Len(recipes') = IF txs[c].op.kind = "create" THEN Len(recipes) + 1 ELSE Len(recipes)
         /\ txs[c].op.kind = "create" =>
              /\ recipes'[Len(recipes) + 1].version = 1
              /\ recipes'[Len(recipes) + 1].steps = <<>>
         /\ \A p \in DOMAIN recipes :
              /\ recipes'[p].version = IF txs[c].op.kind = "update" /\ txs[c].op.about = p
                                       THEN recipes[p].version + 1 ELSE recipes[p].version
              /\ recipes'[p].steps = IF txs[c].op.kind = "addStep" /\ txs[c].op.about = p
                                     THEN Append(recipes[p].steps, Len(recipes[p].steps) + 1)
                                     ELSE recipes[p].steps
<1> DEFINE op == txs[c].op
<1>0. /\ Len(recipes) \in Nat /\ Len(recipes) <= MaxRecipes /\ recipes \in Seq(RecipeRecords)
      /\ op.kind \in Kinds /\ op.about \in Nat /\ op.status \in Statuses \cup {"draft"}
      /\ MaxSteps \in Nat /\ MaxRecipes \in Nat
  BY StoreFacts, OpFacts, StoreConstants DEF StoreTypes
<1>1. CASE op.kind = "create"
  <2>1. recipes' = create_process /\ Len(recipes) < MaxRecipes
    BY <1>1 DEF RecipesAfter, TxCurrent
  <2>2. /\ recipes' \in Seq(RecipeRecords) /\ Len(recipes') = Len(recipes) + 1
        /\ \A p \in DOMAIN recipes : recipes'[p] = recipes[p]
        /\ recipes'[Len(recipes) + 1].version = 1
        /\ recipes'[Len(recipes) + 1].steps = <<>>
    BY <2>1, RecipeFields
  <2> QED
    BY <1>0, <1>1, <2>1, <2>2
<1>2. CASE op.kind = "update"
  <2>1. recipes' = update_process(op.about, op.status) /\ op.about \in DOMAIN recipes
    BY <1>2 DEF RecipesAfter, TxCurrent
  <2>2. /\ recipes' \in Seq(RecipeRecords) /\ Len(recipes') = Len(recipes)
        /\ \A q \in DOMAIN recipes : q # op.about => recipes'[q] = recipes[q]
        /\ recipes'[op.about].version = recipes[op.about].version + 1
        /\ recipes'[op.about].steps = recipes[op.about].steps
    BY <1>0, <2>1, RecipeFields
  <2> QED
    BY <1>0, <1>2, <2>1, <2>2
<1>3. CASE op.kind = "addStep"
  <2>1. /\ recipes' = add_process_step(op.about, txs[c].index) /\ op.about \in DOMAIN recipes
        /\ txs[c].index = Len(recipes[op.about].steps) + 1 /\ txs[c].index <= MaxSteps
    BY <1>3 DEF RecipesAfter, TxCurrent
  <2>2. txs[c].index \in 1 .. MaxSteps
    <3> DEFINE n == Len(recipes[op.about].steps)
    <3>1. recipes[op.about] \in RecipeRecords
      BY <2>1, StoreFacts
    <3>2. n \in Nat
      BY <3>1 DEF RecipeRecords
    <3>3. txs[c].index = n + 1 /\ txs[c].index <= MaxSteps
      BY <2>1
    <3> HIDE DEF n
    <3> QED
      BY <1>0, <3>2, <3>3
  <2>3. /\ recipes' \in Seq(RecipeRecords) /\ Len(recipes') = Len(recipes)
        /\ \A q \in DOMAIN recipes : q # op.about => recipes'[q] = recipes[q]
        /\ recipes'[op.about].version = recipes[op.about].version
        /\ recipes'[op.about].steps = Append(recipes[op.about].steps, txs[c].index)
    BY <2>1, <2>2, RecipeFields
  <2> QED
    BY <1>0, <1>3, <2>1, <2>3
<1>4. CASE op.kind \notin {"create", "update", "addStep"}
  <2>1. recipes' = recipes
    BY <1>4 DEF RecipesAfter
  <2> QED
    BY <1>0, <1>4, <2>1
<1> QED
  BY <1>1, <1>2, <1>3, <1>4

\* Types and locks under a commit.
LEMMA CommitTypes ==
  ASSUME StoreTypes, OneTx, TxsCurrent, NEW c \in StoreCallers, NEW at \in 0 .. 1, CommitTx(c, at)
  PROVE  StoreTypes' /\ OneTx' /\ TxsCurrent'
<1> DEFINE op == txs[c].op
           content == [kind |-> op.kind, about |-> op.about, at |-> at]
<1>1. /\ txs[c].open /\ op \in Ops /\ TxCurrent(c) /\ content \in Contents
      /\ events' = Append(events, Event(LastHash(events), content))
      /\ recipes' = RecipesAfter(op, txs[c].index)
      /\ results' = IF op.kind = "result" THEN insert_product_result(op.about) ELSE results
      /\ advice' = IF op.kind = "recommend" THEN insert_recommendation ELSE advice
      /\ moved' = FALSE /\ UNCHANGED <<batchRows, chainRead, damage>>
      /\ txs' \in [StoreCallers -> TxRecords] /\ \A d \in StoreCallers : ~txs'[d].open
  BY CommitFields
<1> HIDE DEF content
<1>2. LastHash(events) \in Digests
  BY LastHashFacts DEF StoreTypes
<1>3. events' \in Seq(EventRecords) /\ Len(events') <= MaxEvents
  <2>1. events' \in Seq(EventRecords) /\ Len(events') = Len(events) + 1
    BY <1>1, <1>2, EventFields
  <2>2. Len(events) < MaxEvents /\ Len(events) \in Nat /\ MaxEvents \in Nat
    BY <1>1, StoreFacts, StoreConstants DEF TxCurrent
  <2> QED
    BY <2>1, <2>2
<1>4. recipes' \in Seq(RecipeRecords) /\ Len(recipes') <= MaxRecipes
  BY <1>1, CommitRecipes
<1>5. results' \subseteq DOMAIN batchRows'
  BY <1>1 DEF TxCurrent, insert_product_result, StoreTypes
<1>6. advice' \in Nat
  BY <1>1 DEF insert_recommendation, StoreTypes
<1>7. StoreTypes'
  BY <1>1, <1>3, <1>4, <1>5, <1>6 DEF StoreTypes
<1> QED
  BY <1>1, <1>7 DEF OneTx, TxsCurrent

\* Types and locks when a transaction begins or is rolled back.
LEMMA TxTypes ==
  ASSUME StoreTypes, OneTx, TxsCurrent, NEW c \in StoreCallers,
         (\E op \in Ops : BeginTx(c, op)) \/ RollbackTx(c)
  PROVE  StoreTypes' /\ OneTx' /\ TxsCurrent'
<1>0. UNCHANGED <<events, recipes, batchRows, results, advice, chainRead, damage>> /\ moved' = FALSE
  BY DEF BeginTx, RollbackTx, RowsSame
<1>1. ASSUME txs' \in [StoreCallers -> TxRecords]
      PROVE  StoreTypes'
  BY <1>0, <1>1 DEF StoreTypes
<1>2. CASE \E op \in Ops : BeginTx(c, op)
  <2>1. PICK op \in Ops : BeginTx(c, op)
    BY <1>2
  <2> DEFINE tx == [open |-> TRUE, op |-> op, prev |-> LastHash(events), index |-> NextStepIndex(op.about)]
  <2>2. LastHash(events) \in Digests
    BY LastHashFacts DEF StoreTypes
  <2>3. NextStepIndex(op.about) \in Nat
    BY StoreFacts DEF NextStepIndex, RecipeRecords
  <2>4. tx \in TxRecords /\ tx.open /\ tx.op = op /\ tx.prev = LastHash(events)
        /\ tx.index = NextStepIndex(op.about)
    BY <2>2, <2>3 DEF TxRecords
  <2>5. txs' = [txs EXCEPT ![c] = tx]
    BY <2>1 DEF BeginTx
  <2> HIDE DEF tx
  <2>6. /\ txs' \in [StoreCallers -> TxRecords] /\ txs'[c] = tx
        /\ \A d \in StoreCallers : d # c => txs'[d] = txs[d] /\ ~txs[d].open
    BY <2>1, <2>4, <2>5, TxReplaced DEF BeginTx, WriteLockFree
  <2>7. OneTx'
    BY <2>6 DEF OneTx
  <2>8. TxCurrent(c)'
    <3>1. /\ Len(events) < MaxEvents
          /\ op.kind = "create" => Len(recipes) < MaxRecipes
          /\ op.kind \in {"update", "addStep", "updateStep"} => op.about \in DOMAIN recipes
          /\ op.kind = "addStep" => Len(recipes[op.about].steps) < MaxSteps
          /\ op.kind = "result" => op.about \in DOMAIN batchRows
      <4>1. Len(events) + damage < MaxEvents
        BY <2>1 DEF BeginTx
      <4>2. Len(events) \in Nat /\ damage \in Nat /\ MaxEvents \in Nat
        BY StoreConstants DEF StoreTypes
      <4>3. Len(events) < MaxEvents
        BY <4>1, <4>2
      <4> QED
        BY <2>1, <4>3 DEF BeginTx, Applicable
    <3>2. op.kind = "addStep" => /\ tx.index = Len(recipes[op.about].steps) + 1
                                 /\ tx.index <= MaxSteps
      <4>1. ASSUME op.kind = "addStep"
            PROVE  /\ Len(recipes[op.about].steps) \in Nat /\ MaxSteps \in Nat
                   /\ NextStepIndex(op.about) = Len(recipes[op.about].steps) + 1
        BY <3>1, <4>1, StoreFacts, StoreConstants DEF NextStepIndex, RecipeRecords
      <4> QED
        BY <2>4, <3>1, <4>1
    <3> QED
      BY <1>0, <2>4, <2>6, <3>1, <3>2 DEF TxCurrent
  <2> QED
    BY <1>1, <2>6, <2>7, <2>8 DEF TxsCurrent
<1>3. CASE RollbackTx(c)
  <2>1. /\ txs' \in [StoreCallers -> TxRecords] /\ txs'[c] = NoTx
        /\ \A d \in StoreCallers : d # c => txs'[d] = txs[d]
    BY <1>3, OpFacts, TxReplaced DEF RollbackTx
  <2>2. \A d \in StoreCallers : ~txs'[d].open
    BY <1>3, <2>1, OpFacts DEF OneTx, RollbackTx
  <2> QED
    BY <1>1, <2>1, <2>2 DEF OneTx, TxsCurrent
<1> QED
  BY <1>2, <1>3

\* Rows change under an open transaction only in ways that it does not notice.
LEMMA TxsStayCurrent ==
  ASSUME StoreTypes, StoreTypes', OneTx, TxsCurrent, txs' = txs,
         Len(events') <= Len(events), LastHash(events') = LastHash(events),
         Len(recipes') = Len(recipes),
         \A p \in DOMAIN recipes : recipes'[p].steps = recipes[p].steps,
         DOMAIN batchRows \subseteq DOMAIN batchRows'
  PROVE  OneTx' /\ TxsCurrent'
<1>1. OneTx'
  BY DEF OneTx
<1>2. /\ Len(events) \in Nat /\ Len(events') \in Nat /\ MaxEvents \in Nat
      /\ Len(recipes) \in Nat /\ DOMAIN recipes = 1 .. Len(recipes)
      /\ DOMAIN recipes' = 1 .. Len(recipes')
  BY StoreConstants DEF StoreTypes
<1>3. ASSUME NEW c \in StoreCallers, txs[c].open
      PROVE  TxCurrent(c)'
  <2>1. TxCurrent(c)
    BY <1>3 DEF TxsCurrent
  <2>2. Len(events') < MaxEvents
    BY <1>2, <2>1 DEF TxCurrent
  <2>3. DOMAIN recipes' = DOMAIN recipes
    BY <1>2
  <2> QED
    BY <2>1, <2>2, <2>3 DEF TxCurrent
<1> QED
  BY <1>1, <1>3 DEF TxsCurrent

\* The last event's digest outlives any damage that the model admits.
LEMMA DamageTypes ==
  ASSUME StoreTypes, OneTx, TxsCurrent, NEW i \in 1 .. MaxEvents, DamageEvents(i)
  PROVE  /\ StoreTypes' /\ OneTx' /\ TxsCurrent'
         /\ damage' = damage + 1 /\ Len(events) > 0
         /\ LastHash(events') = LastHash(events)
<1>0. /\ damage' = damage + 1 /\ damage < MaxDamage /\ i \in DOMAIN events
      /\ UNCHANGED <<recipes, batchRows, results, advice, moved, txs, chainRead>>
  BY DEF DamageEvents
<1>1. damage' \in 0 .. MaxDamage
  BY <1>0, StoreFacts, StoreConstants
<1>2. Len(events) \in Nat /\ i \in 1 .. Len(events) /\ events \in Seq(EventRecords)
  BY <1>0, StoreFacts DEF StoreTypes
<1>3. /\ events' \in Seq(EventRecords) /\ Len(events') <= Len(events)
      /\ LastHash(events') = LastHash(events)
  <2>1. CASE events' = [events EXCEPT ![i].content.at = 9]
    <3>1. /\ events' \in Seq(EventRecords) /\ Len(events') = Len(events)
          /\ \A j \in DOMAIN events : j # i => events'[j] = events[j]
          /\ events'[i].hash = events[i].hash
      BY <1>0, <2>1, DamageFields
    <3>2. events'[Len(events)].hash = events[Len(events)].hash
      BY <1>2, <3>1, StoreFacts
    <3> QED
      BY <1>2, <3>1, <3>2, LastHashFacts
  <2>2. CASE i < Len(events) /\ events' = RemoveAt(events, i)
    <3>1. /\ events' \in Seq(EventRecords) /\ Len(events') = Len(events) - 1
          /\ \A j \in 1 .. Len(events) - 1 :
               events'[j] = IF j < i THEN events[j] ELSE events[j + 1]
      BY <1>0, <2>2, DamageFields
    <3>2. events'[Len(events')] = events[Len(events)] /\ Len(events') > 0
      BY <1>2, <2>2, <3>1
    <3> QED
      BY <1>2, <3>1, <3>2, LastHashFacts
  <2> QED
    BY <2>1, <2>2 DEF DamageEvents
<1>4. StoreTypes'
  <2>1. Len(events') \in Nat /\ Len(events) <= MaxEvents /\ MaxEvents \in Nat
    BY <1>3, StoreConstants DEF StoreTypes
  <2>2. Len(events') <= MaxEvents
    BY <1>2, <1>3, <2>1
  <2> QED
    BY <1>0, <1>1, <1>3, <2>2 DEF StoreTypes
<1>5. Len(events) > 0
  BY <1>2
<1>6. /\ Len(recipes') = Len(recipes) /\ DOMAIN batchRows \subseteq DOMAIN batchRows'
      /\ \A p \in DOMAIN recipes : recipes'[p].steps = recipes[p].steps
  BY <1>0
<1> QED
  BY <1>0, <1>3, <1>4, <1>5, <1>6, TxsStayCurrent

\* Writers without the lock, and the reader of the chain.
LEMMA OtherTypes ==
  ASSUME StoreTypes, OneTx, TxsCurrent,
         \/ create_batch_for_process
         \/ \E b \in 1 .. MaxBatches : finish_batch(b)
         \/ \E p \in 1 .. MaxRecipes : mark_process_applied(p)
         \/ CountEvents \/ ReadWindow
  PROVE  /\ StoreTypes' /\ OneTx' /\ TxsCurrent'
         /\ UNCHANGED <<events, results, advice, damage>>
         /\ Len(recipes') = Len(recipes)
         /\ \A p \in DOMAIN recipes : /\ recipes'[p].steps = recipes[p].steps
                                      /\ recipes'[p].version = recipes[p].version
<1>0. UNCHANGED <<events, results, advice, damage, txs>>
  BY DEF create_batch_for_process, finish_batch, mark_process_applied, CountEvents, ReadWindow, RowsSame
<1>1. moved' \in BOOLEAN
  BY DEF create_batch_for_process, finish_batch, mark_process_applied, CountEvents, ReadWindow,
         WriteLockFree, StoreTypes
<1>2. /\ batchRows' \in Seq({"open", "finished"}) /\ Len(batchRows') <= MaxBatches
      /\ DOMAIN batchRows \subseteq DOMAIN batchRows'
  <2>0. batchRows \in Seq({"open", "finished"}) /\ Len(batchRows) <= MaxBatches
        /\ MaxBatches \in Nat /\ Len(batchRows) \in Nat
    BY StoreConstants DEF StoreTypes
  <2>1. CASE create_batch_for_process
    BY <2>0, <2>1 DEF create_batch_for_process
  <2>2. CASE \E b \in 1 .. MaxBatches : finish_batch(b)
    BY <2>0, <2>2 DEF finish_batch
  <2>3. CASE batchRows' = batchRows
    BY <2>0, <2>3
  <2> QED
    BY <2>1, <2>2, <2>3 DEF mark_process_applied, CountEvents, ReadWindow, RowsSame
<1>3. /\ recipes' \in Seq(RecipeRecords) /\ Len(recipes') = Len(recipes)
      /\ \A p \in DOMAIN recipes : /\ recipes'[p].steps = recipes[p].steps
                                   /\ recipes'[p].version = recipes[p].version
  <2>1. CASE \E p \in 1 .. MaxRecipes : mark_process_applied(p)
    <3>1. PICK p \in DOMAIN recipes : recipes' = [recipes EXCEPT ![p].status = "applied"]
      BY <2>1 DEF mark_process_applied
    <3>2. /\ recipes' \in Seq(RecipeRecords) /\ Len(recipes') = Len(recipes)
          /\ \A q \in DOMAIN recipes : q # p => recipes'[q] = recipes[q]
          /\ recipes'[p].version = recipes[p].version
          /\ recipes'[p].steps = recipes[p].steps
      BY <3>1, RecipeFields
    <3> QED
      BY <3>2
  <2>2. CASE recipes' = recipes
    BY <2>2 DEF StoreTypes
  <2> QED
    BY <2>1, <2>2 DEF create_batch_for_process, finish_batch, CountEvents, ReadWindow, RowsSame
<1>4. chainRead' \in [pc : {"idle", "counted"}, total : Nat, valid : BOOLEAN]
  <2>0. chainRead \in [pc : {"idle", "counted"}, total : Nat, valid : BOOLEAN] /\ Len(events) \in Nat
    BY StoreFacts DEF StoreTypes
  <2>1. CASE CountEvents
    BY <2>0, <2>1 DEF CountEvents
  <2>2. CASE ReadWindow
    <3>1. PICK v \in BOOLEAN : chainRead' = [pc |-> "idle", total |-> 0, valid |-> v]
      BY <2>2 DEF ReadWindow
    <3> QED
      BY <3>1
  <2>3. CASE chainRead' = chainRead
    BY <2>0, <2>3
  <2> QED
    BY <2>1, <2>2, <2>3 DEF create_batch_for_process, finish_batch, mark_process_applied
<1>5. StoreTypes'
  BY <1>0, <1>1, <1>2, <1>3, <1>4 DEF StoreTypes
<1>6. Len(events') <= Len(events) /\ LastHash(events') = LastHash(events)
  BY <1>0, StoreFacts
<1> QED
  BY <1>0, <1>2, <1>3, <1>5, <1>6, TxsStayCurrent

\* Types, one write transaction at a time, transactions that know the current chain.
StoreOK == StoreTypes /\ OneTx /\ TxsCurrent

\* An empty store satisfies the base invariant.
LEMMA StoreOKInit ==
  ASSUME StoreInit
  PROVE  StoreOK
<1>1. <<>> \in Seq(EventRecords) /\ <<>> \in Seq(RecipeRecords) /\ <<>> \in Seq({"open", "finished"})
      /\ Len(<<>>) = 0
  OBVIOUS
<1>2. txs \in [StoreCallers -> TxRecords] /\ \A c \in StoreCallers : ~txs[c].open
  BY OpFacts DEF StoreInit
<1>3. chainRead \in [pc : {"idle", "counted"}, total : Nat, valid : BOOLEAN] /\ moved \in BOOLEAN
  BY DEF StoreInit
<1>4. advice \in Nat /\ damage \in 0 .. MaxDamage /\ results \subseteq DOMAIN batchRows
  BY StoreConstants DEF StoreInit
<1>5. /\ events \in Seq(EventRecords) /\ Len(events) <= MaxEvents
      /\ recipes \in Seq(RecipeRecords) /\ Len(recipes) <= MaxRecipes
      /\ batchRows \in Seq({"open", "finished"}) /\ Len(batchRows) <= MaxBatches
  BY <1>1, StoreConstants DEF StoreInit
<1>6. StoreTypes
  BY <1>2, <1>3, <1>4, <1>5 DEF StoreTypes
<1> QED
  BY <1>2, <1>6 DEF StoreOK, OneTx, TxsCurrent

\* Every step of the store keeps the base invariant.
LEMMA StoreOKStep ==
  ASSUME StoreOK, [StoreNext]_storeVars
  PROVE  StoreOK'
<1>1. ASSUME NEW c \in StoreCallers, NEW at \in 0 .. 1, CommitTx(c, at)
      PROVE  StoreOK'
  BY <1>1, CommitTypes DEF StoreOK
<1>2. ASSUME NEW c \in StoreCallers, (\E op \in Ops : BeginTx(c, op)) \/ RollbackTx(c)
      PROVE  StoreOK'
  BY <1>2, TxTypes DEF StoreOK
<1>3. CASE \/ create_batch_for_process
           \/ \E b \in 1 .. MaxBatches : finish_batch(b)
           \/ \E p \in 1 .. MaxRecipes : mark_process_applied(p)
           \/ CountEvents \/ ReadWindow
  BY <1>3, OtherTypes DEF StoreOK
<1>4. ASSUME NEW i \in 1 .. MaxEvents, DamageEvents(i)
      PROVE  StoreOK'
  BY <1>4, DamageTypes DEF StoreOK
<1>5. CASE UNCHANGED storeVars
  BY <1>5 DEF storeVars, StoreOK, StoreTypes, OneTx, TxsCurrent, TxCurrent
<1> QED
  BY <1>1, <1>2, <1>3, <1>4, <1>5 DEF StoreNext

\* The base invariant holds in every reachable state.
LEMMA StoreOKAlways == StoreSpec => []StoreOK
<1>1. StoreInit => StoreOK
  BY StoreOKInit
<1>2. StoreOK /\ [StoreNext]_storeVars => StoreOK'
  BY StoreOKStep
<1> QED
  BY <1>1, <1>2, PTL DEF StoreSpec

(***************************************************************************)
(* The tables keep their types and at most one audited transaction is      *)
(* open, for any number of callers (sqlx_write_lock, audit_write_lock).    *)
(***************************************************************************)
THEOREM StoreTypeCorrect == StoreSpec => []StoreTypeOK
<1>1. ASSUME StoreOK
      PROVE  StoreTypeOK
  <2> DEFINE opened == {c \in StoreCallers : txs[c].open}
  <2>0. StoreTypes /\ OneTx
    BY <1>1 DEF StoreOK
  <2>1. Cardinality(opened) <= 1
    <3>1. CASE opened = {}
      BY <3>1, FS_EmptySet
    <3>2. CASE opened # {}
      <4>1. PICK c \in StoreCallers : opened = {c}
        BY <2>0, <3>2 DEF OneTx
      <4>2. Cardinality(opened) = 1
        BY <4>1, FS_Singleton
      <4> QED
        BY <4>2
    <3> QED
      BY <3>1, <3>2
  <2>2. \A p \in DOMAIN recipes :
          /\ recipes[p].version \in Nat \ {0} /\ recipes[p].status \in Statuses \cup {"draft", "applied"}
          /\ recipes[p].steps \in Seq(1 .. MaxSteps)
    BY <2>0, StoreFacts DEF RecipeRecords
  <2>3. chainRead.pc \in {"idle", "counted"} /\ damage \in 0 .. MaxDamage
    BY <2>0 DEF StoreTypes
  <2> QED
    BY <2>0, <2>1, <2>2, <2>3 DEF StoreTypes, StoreTypeOK
<1> QED
  BY <1>1, StoreOKAlways, PTL

-----------------------------------------------------------------------------
(* The chain.                                                              *)

\* Every event names the digest before it and extends it by its own content.
Linked(evs) ==
    \A i \in 1 .. Len(evs) :
        /\ evs[i].prev = IF i > 1 THEN evs[i - 1].hash ELSE NoHash
        /\ evs[i].hash = Append(evs[i].prev, evs[i].content)

\* The check of a whole chain finds nothing exactly when the chain is linked.
LEMMA LinkedMeaning ==
  ASSUME NEW evs \in Seq(EventRecords)
  PROVE  BrokenEvents(evs, FALSE) = {} <=> Linked(evs)
<1>1. DOMAIN evs = 1 .. Len(evs)
  OBVIOUS
<1>2. ASSUME NEW i \in DOMAIN evs
      PROVE  i \notin BrokenEvents(evs, FALSE) <=>
               /\ evs[i].prev = IF i > 1 THEN evs[i - 1].hash ELSE NoHash
               /\ evs[i].hash = Append(evs[i].prev, evs[i].content)
  BY <1>2 DEF BrokenEvents, control_event_hash
<1>3. BrokenEvents(evs, FALSE) \subseteq DOMAIN evs
  BY DEF BrokenEvents
<1> QED
  BY <1>1, <1>2, <1>3 DEF Linked

\* An event that follows the last one keeps the chain linked.
LEMMA LinkedGrows ==
  ASSUME StoreTypes, NEW content \in Contents,
         events' = Append(events, Event(LastHash(events), content)), Linked(events)
  PROVE  Linked(events')
<1>0. /\ events \in Seq(EventRecords) /\ Len(events) \in Nat /\ LastHash(events) \in Digests
      /\ DOMAIN events = 1 .. Len(events)
      /\ Len(events) = 0 => LastHash(events) = NoHash
      /\ Len(events) > 0 => LastHash(events) = events[Len(events)].hash
  BY LastHashFacts DEF StoreTypes
<1>1. /\ Len(events') = Len(events) + 1
      /\ \A i \in DOMAIN events : events'[i] = events[i]
      /\ events'[Len(events) + 1].content = content
      /\ events'[Len(events) + 1].prev = LastHash(events)
      /\ events'[Len(events) + 1].hash = Append(LastHash(events), content)
  BY <1>0, EventFields
<1>2. ASSUME NEW i \in 1 .. Len(events')
      PROVE  /\ events'[i].prev = IF i > 1 THEN events'[i - 1].hash ELSE NoHash
             /\ events'[i].hash = Append(events'[i].prev, events'[i].content)
  <2>1. CASE i <= Len(events)
    <3>1. events'[i] = events[i] /\ i \in 1 .. Len(events)
      BY <1>0, <1>1, <2>1
    <3>2. i > 1 => events'[i - 1] = events[i - 1]
      BY <1>0, <1>1, <2>1
    <3>3. /\ events[i].prev = IF i > 1 THEN events[i - 1].hash ELSE NoHash
          /\ events[i].hash = Append(events[i].prev, events[i].content)
      BY <3>1 DEF Linked
    <3> QED
      BY <3>1, <3>2, <3>3
  <2>2. CASE i = Len(events) + 1
    <3>1. i > 1 => events'[i - 1] = events[Len(events)] /\ Len(events) > 0
      <4>1. i - 1 = Len(events) /\ (i > 1 => Len(events) > 0 /\ Len(events) \in DOMAIN events)
        BY <1>0, <2>2
      <4> QED
        BY <1>1, <4>1
    <3>2. ~(i > 1) => Len(events) = 0
      BY <1>0, <2>2
    <3> QED
      BY <1>0, <1>1, <2>2, <3>1, <3>2
  <2> QED
    BY <1>0, <1>1, <2>1, <2>2
<1> QED
  BY <1>2 DEF Linked

\* The chain the program wrote, before any damage.
ChainLinked == damage = 0 => Linked(events)

\* A step that commits an event, one that damages the log, or neither.
LEMMA StoreStepKinds ==
  ASSUME StoreOK, [StoreNext]_storeVars
  PROVE  \/ \E c \in StoreCallers, at \in 0 .. 1 : CommitTx(c, at)
         \/ \E i \in 1 .. MaxEvents : DamageEvents(i)
         \/ /\ UNCHANGED <<events, results, advice, damage>>
            /\ Len(recipes') = Len(recipes)
            /\ \A p \in DOMAIN recipes : /\ recipes'[p].steps = recipes[p].steps
                                         /\ recipes'[p].version = recipes[p].version
<1>1. ASSUME NEW c \in StoreCallers, (\E op \in Ops : BeginTx(c, op)) \/ RollbackTx(c)
      PROVE  UNCHANGED <<events, results, advice, damage, recipes>>
  BY <1>1 DEF BeginTx, RollbackTx, RowsSame
<1>2. CASE \/ create_batch_for_process
           \/ \E b \in 1 .. MaxBatches : finish_batch(b)
           \/ \E p \in 1 .. MaxRecipes : mark_process_applied(p)
           \/ CountEvents \/ ReadWindow
  BY <1>2, OtherTypes DEF StoreOK
<1>3. CASE UNCHANGED storeVars
  BY <1>3 DEF storeVars
<1> QED
  BY <1>1, <1>2, <1>3 DEF StoreNext

\* A commit links its event to the last one.
LEMMA CommitLinks ==
  ASSUME StoreOK, ChainLinked, NEW c \in StoreCallers, NEW at \in 0 .. 1, CommitTx(c, at)
  PROVE  ChainLinked'
<1>0. StoreTypes /\ OneTx /\ TxsCurrent
  BY DEF StoreOK
<1>1. PICK content \in Contents : events' = Append(events, Event(LastHash(events), content))
  BY <1>0, CommitFields
<1>2. damage' = damage
  BY DEF CommitTx
<1> QED
  BY <1>0, <1>1, <1>2, LinkedGrows DEF ChainLinked

\* Every step keeps an undamaged chain linked.
LEMMA ChainStep ==
  ASSUME StoreOK, ChainLinked, [StoreNext]_storeVars
  PROVE  ChainLinked'
<1>1. CASE \E c \in StoreCallers, at \in 0 .. 1 : CommitTx(c, at)
  BY <1>1, CommitLinks
<1>2. CASE \E i \in 1 .. MaxEvents : DamageEvents(i)
  <2>1. damage' = damage + 1 /\ damage \in Nat
    BY <1>2, StoreFacts DEF StoreOK, DamageEvents
  <2> QED
    BY <2>1 DEF ChainLinked
<1>3. CASE UNCHANGED <<events, damage>>
  BY <1>3 DEF ChainLinked
<1> QED
  BY <1>1, <1>2, <1>3, StoreStepKinds

\* The chain is linked until it is damaged.
LEMMA ChainAlwaysLinked == StoreSpec => []ChainLinked
<1>1. StoreInit => ChainLinked
  <2>1. Len(<<>>) = 0
    OBVIOUS
  <2> QED
    BY <2>1 DEF StoreInit, ChainLinked, Linked
<1>2. StoreOK /\ ChainLinked /\ [StoreNext]_storeVars => ChainLinked'
  BY ChainStep
<1> QED
  BY <1>1, <1>2, StoreOKAlways, PTL DEF StoreSpec

(***************************************************************************)
(* Whatever writers interleave and fail, for any number of callers and of  *)
(* events, the chain the program itself wrote verifies from its first      *)
(* event to its last (insert_control_event_in_sqlx_tx).                    *)
(***************************************************************************)
THEOREM ChainStaysUnbroken == StoreSpec => []ChainUnbroken
<1>1. StoreOK /\ ChainLinked => ChainUnbroken
  BY LinkedMeaning DEF StoreOK, StoreTypes, ChainLinked, ChainUnbroken, FullChainValid
<1> QED
  BY <1>1, StoreOKAlways, ChainAlwaysLinked, PTL

-----------------------------------------------------------------------------
(* What the check of the chain can be relied on for.                       *)

HashLen(i) == Len(events[i].hash)

\* A stored digest ends with a content as it was written, and grows from event to event.
DigestsGrow ==
    /\ \A i \in 1 .. Len(events) :
          /\ HashLen(i) = Len(events[i].prev) + 1
          /\ events[i].hash[HashLen(i)].at # 9
          /\ HashLen(i) >= i
    /\ \A i, j \in 1 .. Len(events) : i < j => HashLen(i) < HashLen(j)

\* Damage shows: a content was changed, or the last digest covers more than what is left.
DamageShows ==
    damage > 0 =>
        /\ Len(events) > 0
        /\ \/ \E i \in 1 .. Len(events) : events[i].content.at = 9
           \/ HashLen(Len(events)) > Len(events)

\* A digest's length is a natural number.
LEMMA HashLens ==
  ASSUME StoreTypes
  PROVE  \A i \in 1 .. Len(events) : HashLen(i) \in Nat /\ Len(events[i].prev) \in Nat
<1>1. ASSUME NEW i \in 1 .. Len(events)
      PROVE  HashLen(i) \in Nat /\ Len(events[i].prev) \in Nat
  <2>1. events[i] \in EventRecords
    BY StoreFacts
  <2> QED
    BY <2>1 DEF HashLen, EventRecords, Digests
<1> QED
  BY <1>1

\* A commit adds a digest longer than all before it.
LEMMA CommitGrows ==
  ASSUME StoreOK, DigestsGrow, DamageShows,
         NEW c \in StoreCallers, NEW at \in 0 .. 1, CommitTx(c, at)
  PROVE  DigestsGrow' /\ DamageShows'
<1>0. StoreTypes /\ OneTx /\ TxsCurrent
  BY DEF StoreOK
<1>n. PICK n : n = Len(events)
  OBVIOUS
<1>l. PICK last : last = LastHash(events)
  OBVIOUS
<1>1. PICK content \in Contents :
         events' = Append(events, Event(last, content)) /\ content.at # 9
  <2> DEFINE x == [kind |-> txs[c].op.kind, about |-> txs[c].op.about, at |-> at]
  <2>1. x \in Contents /\ events' = Append(events, Event(LastHash(events), x))
    BY <1>0, CommitFields
  <2>2. x.at = at /\ at # 9
    OBVIOUS
  <2> HIDE DEF x
  <2> QED
    BY <1>l, <2>1, <2>2
<1>2. /\ n \in Nat /\ last \in Digests /\ DOMAIN events = 1 .. n
      /\ n = 0 => last = NoHash
      /\ n > 0 => last = events[n].hash
  BY <1>0, <1>n, <1>l, StoreFacts, LastHashFacts DEF StoreTypes
<1>3. /\ Len(events') = n + 1
      /\ \A i \in 1 .. n : events'[i] = events[i]
      /\ events'[n + 1].content = content /\ events'[n + 1].prev = last
      /\ events'[n + 1].hash = Append(last, content)
  BY <1>0, <1>1, <1>2, <1>n, EventFields
<1>4. /\ Len(last) \in Nat /\ Len(Append(last, content)) = Len(last) + 1
      /\ Append(last, content)[Len(last) + 1] = content
  BY <1>1, <1>2 DEF Digests
<1>5. Len(last) >= n /\ \A i \in 1 .. n : HashLen(i) <= Len(last) /\ HashLen(i) \in Nat
  <2>1. CASE n = 0
    BY <1>4, <2>1
  <2>2. CASE n > 0
    <3>1. Len(last) = HashLen(n) /\ n \in 1 .. n
      BY <1>2, <2>2 DEF HashLen
    <3>2. ASSUME NEW i \in 1 .. n
          PROVE  HashLen(i) <= HashLen(n) /\ HashLen(i) \in Nat
      <4>1. HashLen(i) \in Nat /\ HashLen(n) \in Nat
        BY <1>0, <1>n, <3>1, HashLens
      <4>2. CASE i = n
        BY <4>1, <4>2
      <4>3. CASE i < n
        <5>1. HashLen(i) < HashLen(n)
          BY <1>n, <3>1, <4>3 DEF DigestsGrow
        <5> QED
          BY <4>1, <5>1
      <4> QED
        BY <1>2, <4>2, <4>3
    <3>3. HashLen(n) >= n
      BY <1>n, <3>1 DEF DigestsGrow
    <3> QED
      BY <3>1, <3>2, <3>3
  <2> QED
    BY <1>2, <2>1, <2>2
<1>6. /\ HashLen(n + 1)' = Len(last) + 1
      /\ \A i \in 1 .. n : HashLen(i)' = HashLen(i)
  BY <1>3, <1>4 DEF HashLen
<1>7. ASSUME NEW i \in 1 .. Len(events')
      PROVE  /\ HashLen(i)' = Len(events'[i].prev) + 1
             /\ events'[i].hash[HashLen(i)'].at # 9
             /\ HashLen(i)' >= i
  <2>1. CASE i \in 1 .. n
    <3>1. /\ HashLen(i) = Len(events[i].prev) + 1
          /\ events[i].hash[HashLen(i)].at # 9
          /\ HashLen(i) >= i
      BY <1>n, <2>1 DEF DigestsGrow
    <3> QED
      BY <1>3, <1>6, <2>1, <3>1
  <2>2. CASE i = n + 1
    <3>1. HashLen(i)' >= i
      BY <1>2, <1>4, <1>5, <1>6, <2>2
    <3>2. events'[i].hash[HashLen(i)'] = content
      BY <1>3, <1>4, <1>6, <2>2
    <3> QED
      BY <1>1, <1>3, <1>6, <2>2, <3>1, <3>2
  <2> QED
    BY <1>2, <1>3, <2>1, <2>2
<1>8. ASSUME NEW i \in 1 .. Len(events'), NEW j \in 1 .. Len(events'), i < j
      PROVE  HashLen(i)' < HashLen(j)'
  <2>1. i \in 1 .. n
    BY <1>2, <1>3, <1>8
  <2>2. CASE j \in 1 .. n
    <3>1. HashLen(i) < HashLen(j)
      BY <1>8, <1>n, <2>1, <2>2 DEF DigestsGrow
    <3> QED
      BY <1>6, <2>1, <2>2, <3>1
  <2>3. CASE j = n + 1
    BY <1>4, <1>5, <1>6, <2>1, <2>3
  <2> QED
    BY <1>2, <1>3, <2>2, <2>3
<1>9. DigestsGrow'
  BY <1>7, <1>8 DEF DigestsGrow
<1>10. DamageShows'
  <2>1. damage' = damage
    BY DEF CommitTx
  <2>2. CASE \E i \in 1 .. n : events[i].content.at = 9
    <3>1. PICK i \in 1 .. n : events[i].content.at = 9
      BY <2>2
    <3>2. i \in 1 .. Len(events') /\ events'[i].content.at = 9 /\ Len(events') > 0
      BY <1>2, <1>3, <3>1
    <3> QED
      BY <3>2 DEF DamageShows
  <2>3. CASE n > 0 /\ HashLen(n) > n
    <3>1. HashLen(n) <= Len(last) /\ HashLen(n) \in Nat
      BY <1>2, <1>5, <2>3
    <3>2. HashLen(n + 1)' > n + 1 /\ Len(events') > 0
      BY <1>2, <1>3, <1>4, <1>6, <2>3, <3>1
    <3> QED
      BY <1>3, <3>2 DEF DamageShows, HashLen
  <2>4. CASE ~(damage > 0)
    BY <2>1, <2>4 DEF DamageShows
  <2> QED
    BY <1>n, <2>2, <2>3, <2>4 DEF DamageShows
<1> QED
  BY <1>9, <1>10

\* Damage keeps what is left of the digests and shows in them.
LEMMA DamageGrows ==
  ASSUME StoreOK, DigestsGrow, NEW i \in 1 .. MaxEvents, DamageEvents(i)
  PROVE  DigestsGrow' /\ DamageShows'
<1>0. StoreTypes /\ Len(events) \in Nat /\ i \in 1 .. Len(events) /\ i \in DOMAIN events
  BY StoreFacts DEF StoreOK, DamageEvents
<1>n. PICK n : n = Len(events)
  OBVIOUS
<1>a. n \in Nat /\ i \in 1 .. n /\ DOMAIN events = 1 .. n
  BY <1>0, <1>n, StoreFacts
<1>1. CASE events' = [events EXCEPT ![i].content.at = 9]
  <2>1. /\ Len(events') = n
        /\ \A j \in DOMAIN events : j # i => events'[j] = events[j]
        /\ events'[i].prev = events[i].prev /\ events'[i].hash = events[i].hash
        /\ events'[i].content.at = 9
    BY <1>0, <1>1, <1>n, DamageFields
  <2>2. \A j \in 1 .. n : events'[j].prev = events[j].prev /\ events'[j].hash = events[j].hash
    BY <1>a, <2>1
  <2>3. DigestsGrow'
    BY <1>n, <2>1, <2>2 DEF DigestsGrow, HashLen
  <2>4. DamageShows'
    BY <1>a, <2>1 DEF DamageShows
  <2> QED
    BY <2>3, <2>4
<1>2. CASE i < n /\ events' = RemoveAt(events, i)
  <2>m. PICK m : m = n - 1
    OBVIOUS
  <2> DEFINE from(j) == IF j < i THEN j ELSE j + 1
  <2>1. /\ Len(events') = m
        /\ \A j \in 1 .. m : events'[j] = IF j < i THEN events[j] ELSE events[j + 1]
    BY <1>0, <1>2, <1>n, <2>m, DamageFields
  <2>2. m \in Nat /\ m > 0 /\ m < n
    BY <1>a, <1>2, <2>m
  <2>3. \A j \in 1 .. m : from(j) \in 1 .. n /\ from(j) >= j
    BY <1>a, <2>m, <2>2
  <2>4. \A j, k \in 1 .. m : j < k => from(j) < from(k)
    BY <1>a, <2>2
  <2>5. \A j \in 1 .. m : events'[j] = events[from(j)]
    BY <2>1
  <2>6. from(m) = n
    BY <1>a, <1>2, <2>m, <2>2
  <2> HIDE DEF from
  <2>7. \A j \in 1 .. m : HashLen(j)' = HashLen(from(j)) /\ HashLen(from(j)) \in Nat
    BY <1>0, <1>n, <2>3, <2>5, HashLens DEF HashLen
  <2>8. ASSUME NEW j \in 1 .. Len(events')
        PROVE  /\ HashLen(j)' = Len(events'[j].prev) + 1
               /\ events'[j].hash[HashLen(j)'].at # 9
               /\ HashLen(j)' >= j
    <3>1. j \in 1 .. m /\ from(j) \in 1 .. n /\ from(j) >= j
      BY <2>1, <2>3
    <3>2. /\ HashLen(from(j)) = Len(events[from(j)].prev) + 1
          /\ events[from(j)].hash[HashLen(from(j))].at # 9
          /\ HashLen(from(j)) >= from(j)
      BY <1>n, <3>1 DEF DigestsGrow
    <3>3. HashLen(from(j)) >= j
      BY <1>a, <2>2, <2>7, <3>1, <3>2
    <3> QED
      BY <2>5, <2>7, <3>1, <3>2, <3>3
  <2>9. ASSUME NEW j \in 1 .. Len(events'), NEW k \in 1 .. Len(events'), j < k
        PROVE  HashLen(j)' < HashLen(k)'
    <3>1. from(j) \in 1 .. n /\ from(k) \in 1 .. n /\ from(j) < from(k)
      BY <2>1, <2>3, <2>4, <2>9
    <3>2. HashLen(from(j)) < HashLen(from(k))
      BY <1>n, <3>1 DEF DigestsGrow
    <3> QED
      BY <2>1, <2>7, <3>2
  <2>10. DigestsGrow'
    BY <2>8, <2>9 DEF DigestsGrow
  <2>11. HashLen(m)' > m
    <3>1. HashLen(m)' = HashLen(n) /\ HashLen(n) \in Nat
      BY <2>2, <2>6, <2>7
    <3>2. HashLen(n) >= n
      BY <1>a, <1>n DEF DigestsGrow
    <3> QED
      BY <1>a, <2>2, <3>1, <3>2
  <2>12. DamageShows'
    BY <2>1, <2>2, <2>11 DEF DamageShows, HashLen
  <2> QED
    BY <2>10, <2>12
<1> QED
  BY <1>1, <1>2, <1>n DEF DamageEvents

\* What every step keeps of the digests.
LEMMA DigestStep ==
  ASSUME StoreOK, DigestsGrow, DamageShows, [StoreNext]_storeVars
  PROVE  DigestsGrow' /\ DamageShows'
<1>1. CASE \E c \in StoreCallers, at \in 0 .. 1 : CommitTx(c, at)
  BY <1>1, CommitGrows
<1>2. CASE \E i \in 1 .. MaxEvents : DamageEvents(i)
  BY <1>2, DamageGrows
<1>3. CASE UNCHANGED <<events, damage>>
  BY <1>3 DEF DigestsGrow, DamageShows, HashLen
<1> QED
  BY <1>1, <1>2, <1>3, StoreStepKinds

\* The digests grow and damage shows, whatever the damage.
LEMMA DigestsAlwaysGrow == StoreSpec => [](DigestsGrow /\ DamageShows)
<1>1. StoreInit => DigestsGrow /\ DamageShows
  <2>1. Len(<<>>) = 0
    OBVIOUS
  <2> QED
    BY <2>1 DEF StoreInit, DigestsGrow, DamageShows
<1>2. StoreOK /\ DigestsGrow /\ DamageShows /\ [StoreNext]_storeVars => (DigestsGrow /\ DamageShows)'
  BY DigestStep
<1> QED
  BY <1>1, <1>2, StoreOKAlways, PTL DEF StoreSpec

\* In a linked chain the digest of the i-th event covers i contents.
LEMMA LinkedLengths ==
  ASSUME StoreTypes, Linked(events)
  PROVE  \A i \in 1 .. Len(events) : HashLen(i) = i
<1>0. Len(events) \in Nat
  BY StoreFacts
<1> DEFINE odd == {i \in 1 .. Len(events) : HashLen(i) # i}
<1>1. SUFFICES ASSUME odd # {}
               PROVE  FALSE
  OBVIOUS
<1>2. odd \in SUBSET Nat
  BY <1>0
<1> HIDE DEF odd
<1>3. PICK i \in odd : \A j \in odd : i <= j
  <2> DEFINE R == {ss \in Nat \X Nat : ss[1] < ss[2]}
  <2>1. IsWellFoundedOn(R, Nat)
    BY NatLessThanWellFounded DEF OpToRel
  <2> HIDE DEF R
  <2>2. \E x \in odd : \A y \in odd : ~(<<y, x>> \in R)
    BY <1>1, <1>2, <2>1, WFMin, Zenon
  <2>3. ASSUME NEW x \in odd, NEW y \in odd, ~(<<y, x>> \in R)
        PROVE  x <= y
    BY <1>2, <2>3 DEF R
  <2> QED
    BY <2>2, <2>3
<1>4. i \in 1 .. Len(events) /\ HashLen(i) # i
  BY <1>3 DEF odd
<1>5. /\ events[i] \in EventRecords
      /\ events[i].prev = IF i > 1 THEN events[i - 1].hash ELSE NoHash
      /\ events[i].hash = Append(events[i].prev, events[i].content)
  BY <1>4, StoreFacts DEF Linked
<1>6. HashLen(i) = Len(events[i].prev) + 1
  BY <1>5 DEF HashLen, EventRecords, Digests
<1>7. CASE i > 1
  <2>1. i - 1 \in 1 .. Len(events) /\ ~(i <= i - 1)
    BY <1>0, <1>4, <1>7
  <2>2. i - 1 \notin odd
    BY <1>3, <2>1
  <2>3. HashLen(i - 1) = i - 1
    BY <2>1, <2>2 DEF odd
  <2>4. Len(events[i].prev) = HashLen(i - 1)
    BY <1>5, <1>7 DEF HashLen
  <2> QED
    BY <1>0, <1>4, <1>6, <2>3, <2>4
<1>8. CASE i = 1
  <2>1. events[i].prev = NoHash /\ Len(NoHash) = 0
    BY <1>5, <1>8 DEF NoHash
  <2> QED
    BY <1>4, <1>6, <1>8, <2>1
<1> QED
  BY <1>0, <1>4, <1>7, <1>8

\* A whole chain that is linked was not damaged.
LEMMA LinkedIsUndamaged ==
  ASSUME StoreTypes, DigestsGrow, DamageShows, Linked(events)
  PROVE  damage = 0
<1>0. damage \in Nat /\ Len(events) \in Nat
  BY StoreFacts
<1>1. SUFFICES ASSUME damage > 0
               PROVE  FALSE
  BY <1>0
<1>2. Len(events) > 0 /\ HashLen(Len(events)) = Len(events)
  BY <1>0, <1>1, LinkedLengths DEF DamageShows
<1>3. PICK i \in 1 .. Len(events) : events[i].content.at = 9
  BY <1>0, <1>1, <1>2 DEF DamageShows
<1>4. events[i] \in EventRecords /\ events[i].hash = Append(events[i].prev, events[i].content)
  BY StoreFacts DEF Linked
<1>5. events[i].hash[HashLen(i)] = events[i].content
  <2> DEFINE p == events[i].prev
             x == events[i].content
  <2>1. p \in Digests /\ x \in Contents
    BY <1>4 DEF EventRecords
  <2> HIDE DEF p, x
  <2>2. Append(p, x)[Len(Append(p, x))] = x
    BY <2>1 DEF Digests
  <2> QED
    BY <1>4, <2>2 DEF p, x, HashLen
<1> QED
  BY <1>3, <1>5 DEF DigestsGrow

\* A window that does not start at the first event is not linked.
LEMMA WindowStarts ==
  ASSUME StoreTypes, DigestsGrow, NEW first \in 1 .. Len(events), first > 1
  PROVE  ~Linked(SubSeq(events, first, Len(events)))
<1> DEFINE window == SubSeq(events, first, Len(events))
<1>0. Len(events) \in Nat /\ events \in Seq(EventRecords)
  BY StoreFacts DEF StoreTypes
<1>1. Len(window) = Len(events) - first + 1 /\ window[1] = events[first]
  BY <1>0
<1>2. HashLen(first) = Len(events[first].prev) + 1 /\ HashLen(first) >= first
      /\ HashLen(first) \in Nat /\ Len(events[first].prev) \in Nat
  BY HashLens DEF DigestsGrow
<1>3. Len(events[first].prev) # 0
  BY <1>0, <1>2
<1> HIDE DEF window
<1>4. ASSUME Linked(window)
      PROVE  FALSE
  <2>1. 1 \in 1 .. Len(window)
    BY <1>0, <1>1
  <2>2. window[1].prev = NoHash
    BY <1>4, <2>1 DEF Linked
  <2>3. Len(NoHash) = 0
    BY DEF NoHash
  <2> QED
    BY <1>1, <1>3, <2>2, <2>3
<1> QED
  BY <1>4 DEF window

\* What the two queries of a status request tell.
LEMMA StatusStep ==
  ASSUME StoreOK, ChainLinked, DigestsGrow, DamageShows, ReadWindow
  PROVE  /\ chainRead'.valid => damage = 0
         /\ damage = 0 /\ Len(events) = chainRead.total /\ chainRead.total <= CheckLimit
               => chainRead'.valid
<1> DEFINE truncated == chainRead.total > CheckLimit
           first == IF Len(events) > CheckLimit THEN Len(events) - CheckLimit + 1 ELSE 1
           window == SubSeq(events, first, Len(events))
<1>0. /\ StoreTypes /\ events \in Seq(EventRecords) /\ Len(events) \in Nat
      /\ chainRead.total \in Nat /\ CheckLimit \in Nat \ {0}
  BY StoreFacts, StoreConstants DEF StoreOK, StoreTypes
<1>1. chainRead'.valid <=> BrokenEvents(window, FALSE) = {} /\ ~truncated
  <2>1. chainRead'.valid <=> BrokenEvents(window, truncated) = {} /\ ~truncated
    BY DEF ReadWindow
  <2> HIDE DEF window
  <2>2. CASE truncated = TRUE
    BY <2>1, <2>2
  <2>3. CASE truncated = FALSE
    <3>1. BrokenEvents(window, truncated) = BrokenEvents(window, FALSE)
      BY <2>3
    <3> HIDE DEF truncated
    <3> QED
      BY <2>1, <2>3, <3>1
  <2>4. truncated \in BOOLEAN
    OBVIOUS
  <2> QED
    BY <2>2, <2>3, <2>4
<1>2. CASE Len(events) > CheckLimit
  <2>1. first \in 1 .. Len(events) /\ first > 1
    BY <1>0, <1>2
  <2>2. window \in Seq(EventRecords) /\ ~Linked(window)
    BY <1>0, <2>1, WindowStarts
  <2>3. BrokenEvents(window, FALSE) # {}
    BY <2>2, LinkedMeaning
  <2> HIDE DEF window, first
  <2>4. ~chainRead'.valid
    BY <1>1, <2>3
  <2> QED
    BY <1>0, <1>2, <2>4
<1>3. CASE ~(Len(events) > CheckLimit)
  <2>1. window = events
    <3>1. window = SubSeq(events, 1, Len(events))
      BY <1>3
    <3> HIDE DEF window
    <3> QED
      BY <1>0, <3>1, SubSeqProperties
  <2> HIDE DEF window, first
  <2>2. chainRead'.valid <=> Linked(events) /\ ~truncated
    <3>1. BrokenEvents(events, FALSE) = {} <=> Linked(events)
      BY <1>0, LinkedMeaning
    <3> QED
      BY <1>1, <2>1, <3>1
  <2>3. chainRead'.valid => damage = 0
    BY <1>0, <2>2, LinkedIsUndamaged
  <2>4. damage = 0 => Linked(events)
    BY DEF ChainLinked
  <2> QED
    BY <1>0, <2>2, <2>3, <2>4
<1> QED
  BY <1>2, <1>3

(***************************************************************************)
(* For any limit of the check and any damage, a chain reported valid was   *)
(* not damaged, and a chain that is short and undamaged is reported valid  *)
(* unless it grows between the two queries (audit_chain_status_sqlx).      *)
(***************************************************************************)
THEOREM ChainStatusTold == StoreSpec => ChainStatusIsTrue
<1>1. ASSUME StoreOK, ChainLinked, DigestsGrow, DamageShows, [StoreNext]_storeVars
      PROVE  [chainRead.pc = "counted" /\ chainRead'.pc = "idle" =>
                /\ chainRead'.valid => damage = 0
                /\ damage = 0 /\ Len(events) = chainRead.total /\ chainRead.total <= CheckLimit
                      => chainRead'.valid]_storeVars
  <2>1. CASE ReadWindow
    BY <1>1, <2>1, StatusStep
  <2>2. CASE CountEvents
    <3>1. chainRead'.pc = "counted"
      BY <1>1, <2>2 DEF CountEvents, StoreOK, StoreTypes
    <3> QED
      BY <3>1
  <2>3. CASE chainRead' = chainRead
    <3>1. ~(chainRead.pc = "counted" /\ chainRead'.pc = "idle")
      BY <2>3
    <3> QED
      BY <3>1
  <2> QED
    BY <1>1, <2>1, <2>2, <2>3
       DEF StoreNext, storeVars, BeginTx, CommitTx, RollbackTx, create_batch_for_process, finish_batch,
           mark_process_applied, DamageEvents
<1> QED
  BY <1>1, StoreOKAlways, ChainAlwaysLinked, DigestsAlwaysGrow, PTL DEF StoreSpec, ChainStatusIsTrue

-----------------------------------------------------------------------------
(* The rows and the events that report them.                               *)

Reporting(kind, about) ==
    {i \in DOMAIN events : events[i].content.kind = kind /\ events[i].content.about = about}

Reports(kind, about) == Cardinality(Reporting(kind, about))

\* A recipe's steps are numbered from 1 on.
Numbered(n) == [k \in 1 .. n |-> k]

\* The rows are what the events report, and no event is about a recipe that does not exist.
RowsReported ==
    /\ Len(recipes) = Reports("create", 0)
    /\ advice = Reports("recommend", 0)
    /\ results = {b \in 1 .. MaxBatches : Reports("result", b) > 0}
    /\ \A p \in DOMAIN recipes :
          /\ recipes[p].version = 1 + Reports("update", p)
          /\ recipes[p].steps = Numbered(Reports("addStep", p))
    /\ \A i \in DOMAIN events :
          events[i].content.kind \in {"update", "addStep"} => events[i].content.about \in DOMAIN recipes

RowsCounted == damage = 0 => RowsReported

\* One more step continues the numbering.
LEMMA NumberedGrows ==
  ASSUME NEW n \in Nat
  PROVE  /\ Numbered(n) \in Seq(Nat) /\ Len(Numbered(n)) = n
         /\ Append(Numbered(n), n + 1) = Numbered(n + 1)
         /\ Numbered(0) = <<>>
<1>1. Numbered(n) \in Seq(Nat) /\ Len(Numbered(n)) = n
  BY DEF Numbered
<1>2. Numbered(n + 1) \in Seq(Nat) /\ Len(Numbered(n + 1)) = n + 1
  BY DEF Numbered
<1>3. Append(Numbered(n), n + 1) \in Seq(Nat) /\ Len(Append(Numbered(n), n + 1)) = n + 1
  BY <1>1
<1>4. ASSUME NEW k \in 1 .. n + 1
      PROVE  Append(Numbered(n), n + 1)[k] = Numbered(n + 1)[k]
  <2>1. Numbered(n + 1)[k] = k
    BY DEF Numbered
  <2>2. CASE k = n + 1
    BY <1>1, <2>1, <2>2
  <2>3. CASE k \in 1 .. n
    <3>1. Append(Numbered(n), n + 1)[k] = Numbered(n)[k]
      BY <1>1, <2>3
    <3> QED
      BY <2>1, <2>3, <3>1 DEF Numbered
  <2>4. k = n + 1 \/ k \in 1 .. n
    OBVIOUS
  <2> QED
    BY <2>2, <2>3, <2>4
<1>5. Append(Numbered(n), n + 1) = Numbered(n + 1)
  BY <1>2, <1>3, <1>4, SeqEqual
<1>6. Numbered(0) = <<>>
  BY DEF Numbered
<1> QED
  BY <1>1, <1>5, <1>6

\* The events that report a change are finitely many.
LEMMA ReportsCount ==
  ASSUME StoreTypes, NEW kind, NEW about
  PROVE  /\ IsFiniteSet(Reporting(kind, about)) /\ Reports(kind, about) \in Nat
         /\ Reports(kind, about) = 0 <=> Reporting(kind, about) = {}
<1>1. Len(events) \in Nat /\ DOMAIN events = 1 .. Len(events)
  BY StoreFacts
<1>2. IsFiniteSet(1 .. Len(events))
  BY <1>1, FS_Interval
<1>3. Reporting(kind, about) \in SUBSET (1 .. Len(events))
  BY <1>1 DEF Reporting
<1>4. IsFiniteSet(Reporting(kind, about))
  BY <1>2, <1>3, FS_Subset
<1> QED
  BY <1>4, FS_CardinalityType, FS_EmptySet DEF Reports

\* A committed event is counted once, under its own kind and row.
LEMMA ReportsGrow ==
  ASSUME StoreTypes, NEW content \in Contents, NEW prev \in Digests,
         events' = Append(events, Event(prev, content)), NEW kind, NEW about
  PROVE  Reports(kind, about)' = IF content.kind = kind /\ content.about = about
                                 THEN Reports(kind, about) + 1 ELSE Reports(kind, about)
<1>n. PICK n : n = Len(events)
  OBVIOUS
<1>1. n \in Nat /\ DOMAIN events = 1 .. n
  BY <1>n, StoreFacts
<1>2. /\ DOMAIN events' = 1 .. n + 1
      /\ \A i \in 1 .. n : events'[i] = events[i]
      /\ events'[n + 1].content = content
  <2>1. /\ events' \in Seq(EventRecords) /\ Len(events') = Len(events) + 1
        /\ \A i \in DOMAIN events : events'[i] = events[i]
        /\ events'[Len(events) + 1].content = content
    BY EventFields
  <2> QED
    BY <1>n, <1>1, <2>1
<1>3. n + 1 \notin Reporting(kind, about) /\ IsFiniteSet(Reporting(kind, about))
  <2>1. IsFiniteSet(Reporting(kind, about))
    BY ReportsCount
  <2>2. Reporting(kind, about) \subseteq 1 .. n /\ n + 1 \notin 1 .. n
    BY <1>1 DEF Reporting
  <2> QED
    BY <2>1, <2>2
<1>4. CASE content.kind = kind /\ content.about = about
  <2>1. Reporting(kind, about)' = Reporting(kind, about) \cup {n + 1}
    <3>1. ASSUME NEW i \in 1 .. n + 1
          PROVE  i \in Reporting(kind, about)' <=> i \in Reporting(kind, about) \cup {n + 1}
      BY <1>1, <1>2, <1>4 DEF Reporting
    <3>2. /\ Reporting(kind, about)' \subseteq 1 .. n + 1
          /\ Reporting(kind, about) \cup {n + 1} \subseteq 1 .. n + 1
      BY <1>1, <1>2 DEF Reporting
    <3> QED
      BY <3>1, <3>2
  <2> QED
    BY <1>3, <1>4, <2>1, FS_AddElement DEF Reports
<1>5. CASE ~(content.kind = kind /\ content.about = about)
  <2>1. Reporting(kind, about)' = Reporting(kind, about)
    <3>1. ASSUME NEW i \in 1 .. n + 1
          PROVE  i \in Reporting(kind, about)' <=> i \in Reporting(kind, about)
      BY <1>1, <1>2, <1>5 DEF Reporting
    <3>2. /\ Reporting(kind, about)' \subseteq 1 .. n + 1
          /\ Reporting(kind, about) \subseteq 1 .. n + 1
      BY <1>1, <1>2 DEF Reporting
    <3> QED
      BY <3>1, <3>2
  <2> QED
    BY <1>5, <2>1 DEF Reports
<1> QED
  BY <1>4, <1>5

\* A commit keeps rows and reports in step.
LEMMA CommitCounts ==
  ASSUME StoreOK, RowsReported, NEW c \in StoreCallers, NEW at \in 0 .. 1, CommitTx(c, at)
  PROVE  RowsReported'
<1>0. StoreTypes /\ OneTx /\ TxsCurrent /\ StoreTypes'
  BY CommitTypes DEF StoreOK
<1>k. PICK kind, about : kind = txs[c].op.kind /\ about = txs[c].op.about
  OBVIOUS
<1>n. PICK n : n = Len(recipes)
  OBVIOUS
<1>1. PICK content \in Contents :
         /\ events' = Append(events, Event(LastHash(events), content))
         /\ content.kind = kind /\ content.about = about
  <2> DEFINE x == [kind |-> txs[c].op.kind, about |-> txs[c].op.about, at |-> at]
  <2>1. x \in Contents /\ events' = Append(events, Event(LastHash(events), x))
    BY <1>0, CommitFields
  <2>2. x.kind = kind /\ x.about = about
    BY <1>k
  <2> HIDE DEF x
  <2> QED
    BY <2>1, <2>2
<1>2. LastHash(events) \in Digests
  BY <1>0, LastHashFacts DEF StoreTypes
<1>3. \A k, a : Reports(k, a)' = IF kind = k /\ about = a THEN Reports(k, a) + 1 ELSE Reports(k, a)
  BY <1>0, <1>1, <1>2, ReportsGrow
<1>4. /\ txs[c].open /\ txs[c].op \in Ops /\ TxCurrent(c)
      /\ recipes' = RecipesAfter(txs[c].op, txs[c].index)
      /\ results' = IF kind = "result" THEN results \cup {about} ELSE results
      /\ advice' = IF kind = "recommend" THEN advice + 1 ELSE advice
  BY <1>0, <1>k, CommitFields DEF insert_product_result, insert_recommendation
<1>5. /\ kind \in {"create", "recommend"} => about = 0
      /\ kind = "result" => about \in 1 .. MaxBatches
      /\ kind \in {"update", "addStep"} => about \in DOMAIN recipes
  BY <1>4, <1>k, OpFacts DEF TxCurrent
<1>6. /\ Len(recipes') = IF kind = "create" THEN n + 1 ELSE n
      /\ kind = "create" => recipes'[n + 1].version = 1 /\ recipes'[n + 1].steps = <<>>
      /\ \A p \in DOMAIN recipes :
           /\ recipes'[p].version = IF kind = "update" /\ about = p
                                    THEN recipes[p].version + 1 ELSE recipes[p].version
           /\ recipes'[p].steps = IF kind = "addStep" /\ about = p
                                  THEN Append(recipes[p].steps, Len(recipes[p].steps) + 1)
                                  ELSE recipes[p].steps
  BY <1>0, <1>4, <1>k, <1>n, CommitRecipes
<1>7. /\ n \in Nat /\ DOMAIN recipes = 1 .. n /\ DOMAIN recipes' = 1 .. Len(recipes')
  BY <1>0, <1>n, StoreFacts DEF StoreTypes
<1>8. \A k, a : Reports(k, a) \in Nat /\ (Reports(k, a) = 0 <=> Reporting(k, a) = {})
  BY <1>0, ReportsCount
<1>9. Len(recipes') = Reports("create", 0)'
  BY <1>3, <1>5, <1>6, <1>7, <1>8, <1>n DEF RowsReported
<1>10. advice' = Reports("recommend", 0)'
  BY <1>3, <1>4, <1>5, <1>8 DEF RowsReported
<1>11. results' = {b \in 1 .. MaxBatches : Reports("result", b)' > 0}
  <2>1. ASSUME NEW b \in 1 .. MaxBatches
        PROVE  b \in results' <=> Reports("result", b)' > 0
    <3>1. b \in results <=> Reports("result", b) > 0
      BY DEF RowsReported
    <3>2. Reports("result", b)' =
            IF kind = "result" /\ about = b THEN Reports("result", b) + 1 ELSE Reports("result", b)
      BY <1>3
    <3>3. Reports("result", b) \in Nat
      BY <1>8
    <3>4. b \in results' <=> (kind = "result" /\ about = b) \/ b \in results
      BY <1>4
    <3> QED
      BY <3>1, <3>2, <3>3, <3>4
  <2>2. results' \subseteq 1 .. MaxBatches
    BY <1>4, <1>5 DEF RowsReported
  <2> QED
    BY <2>1, <2>2
<1>12. ASSUME NEW p \in DOMAIN recipes'
       PROVE  /\ recipes'[p].version = 1 + Reports("update", p)'
              /\ recipes'[p].steps = Numbered(Reports("addStep", p)')
  <2>1. CASE p \in DOMAIN recipes
    <3>1. /\ recipes[p].version = 1 + Reports("update", p)
          /\ recipes[p].steps = Numbered(Reports("addStep", p))
      BY <2>1 DEF RowsReported
    <3>2. recipes'[p].version = 1 + Reports("update", p)'
      BY <1>3, <1>6, <1>8, <2>1, <3>1
    <3>3. recipes'[p].steps = Numbered(Reports("addStep", p)')
      <4>m. PICK m \in Nat : m = Reports("addStep", p)
        BY <1>8
      <4>1. CASE kind = "addStep" /\ about = p
        <5>1. recipes'[p].steps = Append(Numbered(m), m + 1)
          BY <1>6, <2>1, <3>1, <4>m, <4>1, NumberedGrows
        <5>2. Reports("addStep", p)' = m + 1
          BY <1>3, <4>m, <4>1
        <5> QED
          BY <4>m, <5>1, <5>2, NumberedGrows
      <4>2. CASE ~(kind = "addStep" /\ about = p)
        BY <1>3, <1>6, <2>1, <3>1, <4>2
      <4> QED
        BY <4>1, <4>2
    <3> QED
      BY <3>2, <3>3
  <2>2. CASE p \notin DOMAIN recipes
    <3>1. kind = "create" /\ p = n + 1
      BY <1>6, <1>7, <1>12, <2>2
    <3>2. Reporting("update", p) = {} /\ Reporting("addStep", p) = {}
      BY <2>2 DEF RowsReported, Reporting
    <3>3. Reports("update", p)' = 0 /\ Reports("addStep", p)' = 0
      BY <1>3, <1>8, <3>1, <3>2
    <3>4. recipes'[p].version = 1 /\ recipes'[p].steps = <<>>
      BY <1>6, <3>1
    <3> QED
      BY <3>3, <3>4, NumberedGrows
  <2> QED
    BY <2>1, <2>2
<1>13. ASSUME NEW i \in DOMAIN events', events'[i].content.kind \in {"update", "addStep"}
       PROVE  events'[i].content.about \in DOMAIN recipes'
  <2>0. DOMAIN recipes \subseteq DOMAIN recipes'
    BY <1>6, <1>7
  <2>m. PICK m : m = Len(events)
    OBVIOUS
  <2>1. /\ m \in Nat /\ DOMAIN events = 1 .. m /\ DOMAIN events' = 1 .. m + 1
        /\ \A j \in DOMAIN events : events'[j] = events[j]
        /\ events'[m + 1].content = content
    <3>1. /\ events' \in Seq(EventRecords) /\ Len(events') = Len(events) + 1
          /\ \A j \in DOMAIN events : events'[j] = events[j]
          /\ events'[Len(events) + 1].content = content
      BY <1>0, <1>1, <1>2, EventFields
    <3>2. DOMAIN events' = 1 .. Len(events')
      BY <3>1
    <3> QED
      BY <1>0, <2>m, <3>1, <3>2, StoreFacts
  <2>2. CASE i \in DOMAIN events
    <3>1. events'[i] = events[i]
      BY <2>1, <2>2
    <3> QED
      BY <1>13, <2>0, <2>2, <3>1 DEF RowsReported
  <2>3. CASE i = m + 1
    BY <1>1, <1>5, <1>13, <2>0, <2>1, <2>3
  <2> QED
    BY <2>1, <2>2, <2>3
<1> QED
  BY <1>9, <1>10, <1>11, <1>12, <1>13 DEF RowsReported

\* Every step keeps rows and reports in step until the log is damaged.
LEMMA RowsStep ==
  ASSUME StoreOK, RowsCounted, [StoreNext]_storeVars
  PROVE  RowsCounted'
<1>1. ASSUME NEW c \in StoreCallers, NEW at \in 0 .. 1, CommitTx(c, at)
      PROVE  RowsCounted'
  <2>1. damage' = damage
    BY <1>1 DEF CommitTx
  <2> QED
    BY <1>1, <2>1, CommitCounts DEF RowsCounted
<1>2. CASE \E i \in 1 .. MaxEvents : DamageEvents(i)
  <2>1. damage' = damage + 1 /\ damage \in Nat
    BY <1>2, StoreFacts DEF StoreOK, DamageEvents
  <2> QED
    BY <2>1 DEF RowsCounted
<1>3. CASE /\ UNCHANGED <<events, results, advice, damage>>
           /\ Len(recipes') = Len(recipes)
           /\ \A p \in DOMAIN recipes : /\ recipes'[p].steps = recipes[p].steps
                                        /\ recipes'[p].version = recipes[p].version
  <2>1. DOMAIN recipes' = DOMAIN recipes
    <3>1. StoreTypes /\ StoreTypes'
      BY StoreOKStep DEF StoreOK
    <3>2. DOMAIN recipes = 1 .. Len(recipes) /\ DOMAIN recipes' = 1 .. Len(recipes')
      BY <3>1 DEF StoreTypes
    <3> QED
      BY <1>3, <3>2
  <2>2. \A k, a : Reports(k, a)' = Reports(k, a)
    BY <1>3 DEF Reports, Reporting
  <2> QED
    BY <1>3, <2>1, <2>2 DEF RowsCounted, RowsReported
<1> QED
  BY <1>1, <1>2, <1>3, StoreStepKinds

\* Rows and reports agree from the empty database on.
LEMMA RowsAlwaysCounted == StoreSpec => []RowsCounted
<1>1. ASSUME StoreInit
      PROVE  RowsCounted
  <2>1. DOMAIN <<>> = {} /\ Len(<<>>) = 0
    OBVIOUS
  <2>2. \A k, a : Reports(k, a) = 0
    BY <1>1, <2>1, FS_EmptySet DEF StoreInit, Reports, Reporting
  <2> QED
    BY <1>1, <2>1, <2>2 DEF StoreInit, RowsCounted, RowsReported
<1>2. StoreOK /\ RowsCounted /\ [StoreNext]_storeVars => RowsCounted'
  BY RowsStep
<1> QED
  BY <1>1, <1>2, StoreOKAlways, PTL DEF StoreSpec

(***************************************************************************)
(* Recipes, results and recommendations say what the audit log says, and a *)
(* recipe's steps are numbered without gap or repetition, for any number   *)
(* of callers, rows and events (the *_with_audit operations).              *)
(***************************************************************************)
THEOREM RowsAlwaysMatch == StoreSpec => []RowsMatchAudit
<1>1. RowsCounted => RowsMatchAudit
  BY DEF RowsCounted, RowsReported, RowsMatchAudit, Reports, Reporting, Numbered
<1> QED
  BY <1>1, RowsAlwaysCounted, PTL

-----------------------------------------------------------------------------
(* The ledger: every audited operation happens at its commit.              *)

\* The row that an open transaction has found is still as it found it.
TxRowReady(c) ==
    /\ txs[c].op.kind = "updateStep" => recipes[txs[c].op.about].steps # <<>>
    /\ txs[c].op.kind = "result" => batchRows[txs[c].op.about] = "finished"

TxRowsReady == \A c \in StoreCallers : txs[c].open => TxRowReady(c)

\* No writer beside an open transaction takes a recipe's steps away or reopens a batch.
LEMMA TxRowsStayReady ==
  ASSUME StoreOK, TxRowsReady, txs' = txs,
         \A p \in DOMAIN recipes : recipes'[p].steps = recipes[p].steps,
         \A b \in DOMAIN batchRows : batchRows[b] = "finished" => batchRows'[b] = "finished"
  PROVE  TxRowsReady'
<1>1. ASSUME NEW c \in StoreCallers, txs[c].open
      PROVE  TxRowReady(c)'
  <2>1. TxRowReady(c) /\ TxCurrent(c)
    BY <1>1 DEF StoreOK, TxsCurrent, TxRowsReady
  <2> QED
    BY <2>1 DEF TxRowReady, TxCurrent
<1> QED
  BY <1>1 DEF TxRowsReady

\* Every step keeps the rows of an open transaction ready.
LEMMA TxRowsStep ==
  ASSUME StoreOK, TxRowsReady, [StoreNext]_storeVars
  PROVE  TxRowsReady'
<1>0. StoreTypes /\ OneTx /\ TxsCurrent
  BY DEF StoreOK
<1>1. ASSUME NEW c \in StoreCallers, NEW at \in 0 .. 1, CommitTx(c, at)
      PROVE  TxRowsReady'
  <2>1. \A d \in StoreCallers : ~txs'[d].open
    BY <1>0, <1>1, CommitFields
  <2> QED
    BY <2>1 DEF TxRowsReady
<1>2. ASSUME NEW c \in StoreCallers, NEW op \in Ops, BeginTx(c, op)
      PROVE  TxRowsReady'
  <2>1. /\ recipes' = recipes /\ batchRows' = batchRows
        /\ op.kind = "updateStep" => recipes[op.about].steps # <<>>
        /\ op.kind = "result" => batchRows[op.about] = "finished"
        /\ \A d \in StoreCallers : ~txs[d].open
    BY <1>2 DEF BeginTx, Applicable, WriteLockFree, RowsSame
  <2>2. txs'[c].op = op /\ \A d \in StoreCallers : d # c => txs'[d] = txs[d]
    BY <1>0, <1>2 DEF BeginTx, StoreTypes
  <2> QED
    BY <2>1, <2>2 DEF TxRowsReady, TxRowReady
<1>3. ASSUME NEW c \in StoreCallers, RollbackTx(c)
      PROVE  TxRowsReady'
  <2>1. /\ txs'[c] = NoTx /\ \A d \in StoreCallers : d # c => txs'[d] = txs[d]
        /\ recipes' = recipes /\ batchRows' = batchRows
    BY <1>0, <1>3, OpFacts, TxReplaced DEF RollbackTx, RowsSame
  <2> QED
    BY <2>1, OpFacts DEF TxRowsReady, TxRowReady
<1>4. CASE \/ create_batch_for_process
           \/ \E b \in 1 .. MaxBatches : finish_batch(b)
           \/ \E p \in 1 .. MaxRecipes : mark_process_applied(p)
           \/ CountEvents \/ ReadWindow
  <2>1. \A p \in DOMAIN recipes : recipes'[p].steps = recipes[p].steps
    BY <1>0, <1>4, OtherTypes
  <2>2. \A b \in DOMAIN batchRows : batchRows[b] = "finished" => batchRows'[b] = "finished"
    <3>0. /\ batchRows \in Seq({"open", "finished"}) /\ Len(batchRows) \in Nat
          /\ DOMAIN batchRows = 1 .. Len(batchRows)
      BY <1>0, StoreFacts DEF StoreTypes
    <3>1. CASE create_batch_for_process
      BY <3>0, <3>1 DEF create_batch_for_process
    <3>2. CASE \E b \in 1 .. MaxBatches : finish_batch(b)
      BY <3>0, <3>2 DEF finish_batch
    <3>3. CASE batchRows' = batchRows
      BY <3>3
    <3> QED
      BY <1>4, <3>1, <3>2, <3>3 DEF mark_process_applied, CountEvents, ReadWindow, RowsSame
  <2>3. txs' = txs
    BY <1>4 DEF create_batch_for_process, finish_batch, mark_process_applied, CountEvents, ReadWindow
  <2> QED
    BY <2>1, <2>2, <2>3, TxRowsStayReady
<1>5. CASE (\E i \in 1 .. MaxEvents : DamageEvents(i)) \/ UNCHANGED storeVars
  <2>1. txs' = txs /\ recipes' = recipes /\ batchRows' = batchRows
    BY <1>5 DEF DamageEvents, storeVars
  <2> QED
    BY <2>1, TxRowsStayReady
<1> QED
  BY <1>1, <1>2, <1>3, <1>4, <1>5 DEF StoreNext

\* The rows an open transaction has found are ready in every reachable state.
LEMMA TxRowsAlwaysReady == StoreSpec => []TxRowsReady
<1>1. StoreInit => TxRowsReady
  BY OpFacts DEF StoreInit, TxRowsReady
<1>2. StoreOK /\ TxRowsReady /\ [StoreNext]_storeVars => TxRowsReady'
  BY TxRowsStep
<1> QED
  BY <1>1, <1>2, StoreOKAlways, PTL DEF StoreSpec

EntryOf(e) == [kind |-> e.content.kind, about |-> e.content.about]

EntriesOf(evs) == [i \in DOMAIN evs |-> EntryOf(evs[i])]

Entries == [kind : Kinds, about : Nat]

\* What readers see of the events is a sequence of entries.
LEMMA EntriesFields ==
  ASSUME NEW evs \in Seq(EventRecords)
  PROVE  /\ EntriesOf(evs) \in Seq(Entries) /\ Len(EntriesOf(evs)) = Len(evs)
         /\ \A i \in 1 .. Len(evs) : EntriesOf(evs)[i] = EntryOf(evs[i])
<1>1. Len(evs) \in Nat /\ DOMAIN evs = 1 .. Len(evs)
  OBVIOUS
<1>2. \A i \in 1 .. Len(evs) : evs[i].content \in Contents
  <2>1. \A i \in 1 .. Len(evs) : evs[i] \in EventRecords
    BY <1>1
  <2> QED
    BY <2>1 DEF EventRecords
<1>3. \A i \in 1 .. Len(evs) : EntryOf(evs[i]) \in Entries
  BY <1>2 DEF Contents, Entries, EntryOf
<1> HIDE DEF EntryOf, Entries
<1>4. EntriesOf(evs) = [i \in 1 .. Len(evs) |-> EntryOf(evs[i])]
  BY <1>1 DEF EntriesOf
<1> QED
  BY <1>1, <1>3, <1>4

\* A committed event is one more entry at the end.
LEMMA EntriesGrow ==
  ASSUME StoreTypes, NEW prev \in Digests, NEW content \in Contents,
         events' = Append(events, Event(prev, content))
  PROVE  EntriesOf(events') =
            Append(EntriesOf(events), [kind |-> content.kind, about |-> content.about])
<1> DEFINE entry == [kind |-> content.kind, about |-> content.about]
           grown == Append(EntriesOf(events), entry)
<1>1. /\ events' \in Seq(EventRecords) /\ Len(events') = Len(events) + 1
      /\ \A i \in DOMAIN events : events'[i] = events[i]
      /\ events'[Len(events) + 1].content = content
  BY EventFields
<1>n. PICK n : n = Len(events)
  OBVIOUS
<1>2. n \in Nat /\ DOMAIN events = 1 .. n /\ events \in Seq(EventRecords)
  BY <1>n, StoreFacts DEF StoreTypes
<1>3. entry \in Entries /\ EntryOf(events'[n + 1]) = entry
  BY <1>1, <1>n DEF Entries, Contents, EntryOf
<1>4. /\ EntriesOf(events) \in Seq(Entries) /\ Len(EntriesOf(events)) = n
      /\ \A i \in 1 .. n : EntriesOf(events)[i] = EntryOf(events[i])
  BY <1>2, <1>n, EntriesFields
<1>5. /\ EntriesOf(events') \in Seq(Entries) /\ Len(EntriesOf(events')) = n + 1
      /\ \A i \in 1 .. n + 1 : EntriesOf(events')[i] = EntryOf(events'[i])
  BY <1>1, <1>n, EntriesFields
<1> HIDE DEF entry
<1>6. /\ grown \in Seq(Entries) /\ Len(grown) = n + 1 /\ grown[n + 1] = entry
      /\ \A i \in 1 .. n : grown[i] = EntriesOf(events)[i]
  BY <1>2, <1>3, <1>4
<1> HIDE DEF grown
<1>7. ASSUME NEW i \in 1 .. n + 1
      PROVE  EntriesOf(events')[i] = grown[i]
  <2>1. CASE i = n + 1
    BY <1>3, <1>5, <1>6, <2>1
  <2>2. CASE i \in 1 .. n
    BY <1>1, <1>2, <1>4, <1>5, <1>6, <2>2
  <2> QED
    BY <1>2, <2>1, <2>2
<1>8. EntriesOf(events') = grown
  BY <1>5, <1>6, <1>7, SeqEqual
<1> QED
  BY <1>8 DEF grown, entry

\* Damage leaves the entries as they are, or takes one out that is not the last.
LEMMA EntriesDamaged ==
  ASSUME StoreTypes, NEW i \in 1 .. MaxEvents, DamageEvents(i)
  PROVE  \/ EntriesOf(events') = EntriesOf(events)
         \/ /\ i \in 1 .. (Len(EntriesOf(events)) - 1)
            /\ EntriesOf(events') = RemoveAt(EntriesOf(events), i)
<1>n. PICK n : n = Len(events)
  OBVIOUS
<1>1. n \in Nat /\ DOMAIN events = 1 .. n /\ events \in Seq(EventRecords)
      /\ i \in DOMAIN events /\ i \in 1 .. n
  BY <1>n, StoreFacts DEF StoreTypes, DamageEvents
<1>2. /\ EntriesOf(events) \in Seq(Entries) /\ Len(EntriesOf(events)) = n
      /\ \A j \in 1 .. n : EntriesOf(events)[j] = EntryOf(events[j])
  BY <1>1, <1>n, EntriesFields
<1>3. CASE events' = [events EXCEPT ![i].content.at = 9]
  <2>1. /\ events' \in Seq(EventRecords) /\ Len(events') = n
        /\ \A j \in DOMAIN events : j # i => events'[j] = events[j]
        /\ events'[i].content.kind = events[i].content.kind
        /\ events'[i].content.about = events[i].content.about
    BY <1>1, <1>3, <1>n, DamageFields
  <2>2. /\ EntriesOf(events') \in Seq(Entries) /\ Len(EntriesOf(events')) = n
        /\ \A j \in 1 .. n : EntriesOf(events')[j] = EntryOf(events'[j])
    BY <2>1, EntriesFields
  <2>3. \A j \in 1 .. n : EntryOf(events'[j]) = EntryOf(events[j])
    BY <1>1, <2>1 DEF EntryOf
  <2>4. \A j \in 1 .. n : EntriesOf(events')[j] = EntriesOf(events)[j]
    BY <1>2, <2>2, <2>3
  <2> QED
    BY <1>2, <2>2, <2>4, SeqEqual
<1>4. CASE i < n /\ events' = RemoveAt(events, i)
  <2>m. PICK m : m = n - 1
    OBVIOUS
  <2>1. /\ events' \in Seq(EventRecords) /\ Len(events') = m
        /\ \A j \in 1 .. m : events'[j] = IF j < i THEN events[j] ELSE events[j + 1]
    BY <1>1, <1>4, <1>n, <2>m, DamageFields
  <2>2. /\ EntriesOf(events') \in Seq(Entries) /\ Len(EntriesOf(events')) = m
        /\ \A j \in 1 .. m : EntriesOf(events')[j] = EntryOf(events'[j])
    BY <2>1, EntriesFields
  <2> DEFINE s == EntriesOf(events)
             t == RemoveAt(s, i)
  <2> HIDE DEF s
  <2>3. /\ s \in Seq(Entries) /\ Len(s) = n
        /\ \A j \in 1 .. n : s[j] = EntryOf(events[j])
    BY <1>2 DEF s
  <2>4. /\ t \in Seq(Entries) /\ Len(t) = m
        /\ \A j \in 1 .. m : t[j] = IF j < i THEN s[j] ELSE s[j + 1]
    BY <1>1, <1>4, <2>m, <2>3, RemoveAtFields
  <2> HIDE DEF t
  <2>5. ASSUME NEW j \in 1 .. m
        PROVE  EntriesOf(events')[j] = t[j]
    <3>1. m \in Nat /\ j \in 1 .. n /\ (~(j < i) => j + 1 \in 1 .. n)
      BY <1>1, <1>4, <2>m
    <3>2. CASE j < i
      BY <2>1, <2>2, <2>3, <2>4, <3>1, <3>2
    <3>3. CASE ~(j < i)
      BY <2>1, <2>2, <2>3, <2>4, <3>1, <3>3
    <3> QED
      BY <3>2, <3>3
  <2>6. EntriesOf(events') = t
    BY <2>2, <2>4, <2>5, SeqEqual
  <2>7. i \in 1 .. (Len(s) - 1)
    BY <1>1, <1>4, <2>3
  <2> QED
    BY <2>6, <2>7 DEF s, t
<1> QED
  BY <1>3, <1>4, <1>n DEF DamageEvents

\* A commit is the audited operation it carries, on the rows of that moment.
LEMMA CommitIsOperation ==
  ASSUME StoreOK, TxRowsReady, NEW c \in StoreCallers, NEW at \in 0 .. 1, CommitTx(c, at)
  PROVE  Ledger!Next
<1>0. StoreTypes /\ OneTx /\ TxsCurrent
  BY DEF StoreOK
<1>k. PICK kind, about, status : /\ kind = txs[c].op.kind /\ about = txs[c].op.about
                                 /\ status = txs[c].op.status
  OBVIOUS
<1>1. /\ txs[c].open /\ txs[c].op \in Ops /\ TxCurrent(c) /\ TxRowReady(c)
      /\ recipes' = RecipesAfter(txs[c].op, txs[c].index)
      /\ results' = IF kind = "result" THEN results \cup {about} ELSE results
      /\ advice' = IF kind = "recommend" THEN advice + 1 ELSE advice
      /\ batchRows' = batchRows
  BY <1>0, <1>k, CommitFields DEF insert_product_result, insert_recommendation, TxRowsReady
<1>2. LogEntries' = Append(LogEntries, [kind |-> kind, about |-> about])
  <2> DEFINE x == [kind |-> txs[c].op.kind, about |-> txs[c].op.about, at |-> at]
  <2>1. x \in Contents /\ events' = Append(events, Event(LastHash(events), x))
    BY <1>0, CommitFields
  <2>2. x.kind = kind /\ x.about = about
    BY <1>k
  <2>3. LastHash(events) \in Digests
    BY <1>0, LastHashFacts DEF StoreTypes
  <2> HIDE DEF x
  <2>4. EntriesOf(events') = Append(EntriesOf(events), [kind |-> x.kind, about |-> x.about])
    BY <1>0, <2>1, <2>3, EntriesGrow
  <2> QED
    BY <2>2, <2>4 DEF LogEntries, EntriesOf, EntryOf
<1>3. /\ kind \in Kinds
      /\ kind \in {"event", "create", "recommend"} => about = 0
      /\ kind = "update" => status \in Statuses
  BY <1>1, <1>k DEF Ops, Kinds
<1>4. CASE kind = "event"
  <2>1. Ledger!Note
    BY <1>1, <1>2, <1>3, <1>4, <1>k DEF Ledger!Note, Ledger!Enter, RecipesAfter
  <2> QED
    BY <2>1 DEF Ledger!Next
<1>5. CASE kind = "create"
  <2>1. Ledger!Create
    BY <1>1, <1>2, <1>3, <1>5, <1>k DEF Ledger!Create, Ledger!Enter, RecipesAfter, create_process
  <2> QED
    BY <2>1 DEF Ledger!Next
<1>6. CASE kind = "recommend"
  <2>1. Ledger!Recommend
    BY <1>1, <1>2, <1>3, <1>6, <1>k DEF Ledger!Recommend, Ledger!Enter, RecipesAfter
  <2> QED
    BY <2>1 DEF Ledger!Next
<1>7. CASE kind = "update"
  <2>1. Ledger!Update(about, status) /\ about \in DOMAIN recipes
    BY <1>1, <1>2, <1>3, <1>7, <1>k
       DEF Ledger!Update, Ledger!Enter, RecipesAfter, update_process, TxCurrent
  <2> QED
    BY <1>3, <1>7, <2>1 DEF Ledger!Next
<1>8. CASE kind = "addStep"
  <2>1. about \in DOMAIN recipes /\ txs[c].index = Len(recipes[about].steps) + 1
    BY <1>1, <1>8, <1>k DEF TxCurrent
  <2>2. recipes' = [recipes EXCEPT ![about].steps = Append(@, Len(@) + 1)]
    BY <1>1, <1>8, <1>k, <2>1 DEF RecipesAfter, add_process_step
  <2>3. Ledger!AddStep(about)
    BY <1>1, <1>2, <1>8, <2>2 DEF Ledger!AddStep, Ledger!Enter
  <2> QED
    BY <2>1, <2>3 DEF Ledger!Next
<1>9. CASE kind = "updateStep"
  <2>1. Ledger!UpdateStep(about) /\ about \in DOMAIN recipes
    BY <1>1, <1>2, <1>9, <1>k
       DEF Ledger!UpdateStep, Ledger!Enter, RecipesAfter, TxCurrent, TxRowReady
  <2> QED
    BY <2>1 DEF Ledger!Next
<1>10. CASE kind = "result"
  <2>1. Ledger!Result(about) /\ about \in DOMAIN batchRows
    BY <1>1, <1>2, <1>10, <1>k
       DEF Ledger!Result, Ledger!Enter, RecipesAfter, TxCurrent, TxRowReady
  <2> QED
    BY <2>1 DEF Ledger!Next
<1> QED
  BY <1>3, <1>4, <1>5, <1>6, <1>7, <1>8, <1>9, <1>10 DEF Kinds

\* Every other step is one the ledger makes without an entry, or one it does not see.
LEMMA StepOfLedger ==
  ASSUME StoreOK, TxRowsReady, [StoreNext]_storeVars
  PROVE  [Ledger!Next]_(Ledger!ledger)
<1>0. StoreTypes
  BY DEF StoreOK
<1>1. ASSUME NEW c \in StoreCallers, NEW at \in 0 .. 1, CommitTx(c, at)
      PROVE  Ledger!Next
  BY <1>1, CommitIsOperation
<1>2. CASE UNCHANGED <<events, recipes, batchRows, results, advice>>
  <2>1. LogEntries' = LogEntries
    BY <1>2 DEF LogEntries
  <2> QED
    BY <1>2, <2>1 DEF Ledger!ledger
<1>3. CASE create_batch_for_process
  <2>1. Ledger!OpenBatch
    BY <1>3 DEF create_batch_for_process, Ledger!OpenBatch, LogEntries
  <2> QED
    BY <2>1 DEF Ledger!Next
<1>4. ASSUME NEW b \in 1 .. MaxBatches, finish_batch(b)
      PROVE  Ledger!Next
  <2>1. Ledger!FinishBatch(b) /\ b \in DOMAIN batchRows
    BY <1>4 DEF finish_batch, Ledger!FinishBatch, LogEntries
  <2> QED
    BY <2>1 DEF Ledger!Next
<1>5. ASSUME NEW p \in 1 .. MaxRecipes, mark_process_applied(p)
      PROVE  Ledger!Next
  <2>1. Ledger!Apply(p) /\ p \in DOMAIN recipes
    BY <1>5 DEF mark_process_applied, Ledger!Apply, LogEntries
  <2> QED
    BY <2>1 DEF Ledger!Next
<1>6. ASSUME NEW i \in 1 .. MaxEvents, DamageEvents(i)
      PROVE  [Ledger!Next]_(Ledger!ledger)
  <2>0. UNCHANGED <<recipes, batchRows, results, advice>>
        /\ LogEntries = EntriesOf(events) /\ LogEntries' = EntriesOf(events')
    BY <1>6 DEF DamageEvents, LogEntries, EntriesOf, EntryOf
  <2>1. CASE LogEntries' = LogEntries
    BY <2>0, <2>1 DEF Ledger!ledger
  <2>2. CASE i \in 1 .. (Len(LogEntries) - 1) /\ LogEntries' = RemoveAt(LogEntries, i)
    <3>1. Ledger!Lose(i)
      BY <2>0, <2>2 DEF Ledger!Lose, RemoveAt, Ledger!RemoveAt
    <3> QED
      BY <2>2, <3>1 DEF Ledger!Next
  <2> QED
    BY <1>0, <1>6, <2>0, <2>1, <2>2, EntriesDamaged
<1> QED
  BY <1>1, <1>2, <1>3, <1>4, <1>5, <1>6
     DEF StoreNext, storeVars, BeginTx, RollbackTx, CountEvents, ReadWindow, RowsSame

(***************************************************************************)
(* For any number of callers and rows, and whatever transactions begin,    *)
(* fail and interleave with the writers that take no lock, the database    *)
(* implements the ledger: each audited operation takes effect at its       *)
(* commit, on the rows of that moment and with its entry, and none that is *)
(* rolled back leaves a trace (the *_with_audit operations).               *)
(***************************************************************************)
THEOREM StoreImplementsLedger == StoreSpec => ImplementsLedger
<1>1. StoreInit => Ledger!Init
  <2>1. DOMAIN <<>> = {}
    OBVIOUS
  <2> QED
    BY <2>1 DEF StoreInit, Ledger!Init, LogEntries
<1>2. StoreOK /\ TxRowsReady /\ [StoreNext]_storeVars => [Ledger!Next]_(Ledger!ledger)
  BY StepOfLedger
<1> QED
  BY <1>1, <1>2, StoreOKAlways, TxRowsAlwaysReady, PTL DEF StoreSpec, ImplementsLedger, Ledger!Spec
=============================================================================
