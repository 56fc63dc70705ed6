--------------------------------- MODULE Backup ---------------------------------
(***************************************************************************)
(* Backups of the hosted server (src/infinitas_skill/server: backup.py,    *)
(* backup_export.py, backup_webdav.py, restore.py): a backup is staged,    *)
(* published by one rename, exported to a WebDAV server with a receipt,    *)
(* and pruned once its receipt is on file.                                 *)
(*                                                                         *)
(* The web process keeps storing and deleting artifacts meanwhile: the     *)
(* lock of a backup excludes the worker and other backups only.  Every     *)
(* command may fail or be killed between two steps.  One exporter and one  *)
(* pruner run at a time.                                                   *)
(***************************************************************************)
EXTENDS Integers, FiniteSets

CONSTANTS Artifacts,   \* files of the artifact store
          KeepLast,    \* --keep-last
          LastBackup   \* bound: names of backups, the seconds they were made in

ASSUME BackupAssumption == KeepLast \in Nat /\ LastBackup \in Nat

VARIABLES stored,   \* artifact files on disk
          named,    \* artifacts the database's rows name
          uploading, expiring, \* artifacts of requests that have not committed
          deleted,  \* history variable: files deleted and not stored again
          staging,  \* the running backup: its step, copied rows and archived files
          kept,     \* published backup directories, by name
          published, \* names published so far
          remote,   \* archive under a backup's name on the WebDAV server
          remoteReceipt, localReceipt,   \* names with a receipt there and here
          exporting, \* the running export: its step and the backup it is at
          pruning   \* names the running prune still has to delete

store == <<stored, named, uploading, expiring, deleted>>

others == <<staging, kept, published, remote, remoteReceipt, localReceipt, exporting, pruning>>

backupVars == <<store, others>>

Names == 1 .. LastBackup

\* deleted: which files were missing when the artifacts were archived
InStaging(step, rows, files, gone) == [step |-> step, rows |-> rows, files |-> files, deleted |-> gone]

NotRunning == InStaging("idle", {}, {}, {})

\* A directory: what it holds, whether all files are there, and manifest.json.
Directory(backup, whole, manifest) ==
    [rows |-> backup.rows, files |-> backup.files, deleted |-> backup.deleted,
     whole |-> whole, manifest |-> manifest]

At(step, name) == [step |-> step, name |-> name]

BackupInit ==
    /\ stored = {} /\ named = {} /\ uploading = {} /\ expiring = {} /\ deleted = {}
    /\ staging = NotRunning /\ kept = <<>> /\ published = {}
    /\ remote = [n \in Names |-> "none"] /\ remoteReceipt = {} /\ localReceipt = {}
    /\ exporting = At("idle", 0) /\ pruning = {}

-------------------------------------------------------------------------------
(* The web process (module ContentStore): a file is stored before the row    *)
(* that names it commits, and deleted before the rows that named it expire.  *)

\* put_bytes; the file may be there already.
WebStores(a) ==
    /\ a \notin uploading /\ uploading' = uploading \cup {a}
    /\ stored' = stored \cup {a} /\ deleted' = deleted \ {a}
    /\ UNCHANGED <<named, expiring, others>>

\* The upload commits; another one of the same bytes may be under way.
WebCommits(a) ==
    /\ a \in uploading /\ named' = named \cup {a}
    /\ uploading' \in {uploading, uploading \ {a}}
    /\ UNCHANGED <<stored, expiring, deleted, others>>

Deletes(a) ==
    /\ stored' = stored \ {a} /\ deleted' = deleted \cup (stored \cap {a})

\* The upload fails, and deletes the file if no row named it when it began.
WebCleansUp(a) ==
    /\ a \in uploading /\ uploading' = uploading \ {a}
    /\ Deletes(a) \/ UNCHANGED <<stored, deleted>>
    /\ UNCHANGED <<named, expiring, others>>

\* prune_expired_skill_contents: the files of contents it is about to expire
WebPrunes(a) ==
    /\ a \in named \cap stored /\ Deletes(a)
    /\ expiring' = expiring \cup {a}
    /\ UNCHANGED <<named, uploading, others>>

\* The pruning request commits, or its upload is refused and nothing expires.
WebExpires(a) ==
    /\ a \in expiring /\ expiring' = expiring \ {a}
    /\ named' \in {named, named \ {a}}
    /\ UNCHANGED <<stored, uploading, deleted, others>>

-------------------------------------------------------------------------------
(* run_server_backup, under the lock *)

\* create_backup_staging_dir: the name is the second it starts in.
BackupStarts ==
    /\ staging.step = "idle" /\ Cardinality(published) < LastBackup
    /\ staging' = [NotRunning EXCEPT !.step = "bundle"]
    /\ UNCHANGED <<store, kept, published, remote, remoteReceipt, localReceipt, exporting, pruning>>

\* Mutant: the artifacts are archived before the database is copied.
StepAfterSwapped(step) ==
    CASE step = "bundle" -> "artifacts" [] step = "artifacts" -> "database"
      [] step = "database" -> "manifest" [] OTHER -> "publish"

\* write_repo_bundle, copy_sqlite_db, archive_artifacts, _write_backup_manifest
StepAfter(step) ==
    CASE step = "bundle" -> "database" [] step = "database" -> "artifacts"
      [] step = "artifacts" -> "manifest" [] OTHER -> "publish"

BackupCopies ==
    /\ staging.step \in {"bundle", "database", "artifacts", "manifest"}
    /\ staging' = InStaging(StepAfter(staging.step),
                         IF staging.step = "database" THEN named ELSE staging.rows,
                         IF staging.step = "artifacts" THEN stored ELSE staging.files,
                         IF staging.step = "artifacts" THEN deleted ELSE staging.deleted)
    /\ UNCHANGED <<store, kept, published, remote, remoteReceipt, localReceipt, exporting, pruning>>

\* os.replace(staging_dir, backup_dir)
BackupPublishes ==
    /\ staging.step = "publish"
    /\ LET n == Cardinality(published) + 1
       IN  /\ kept' = [m \in DOMAIN kept \cup {n} |->
                          IF m = n THEN Directory(staging, TRUE, TRUE) ELSE kept[m]]
           /\ published' = published \cup {n}
    /\ staging' = NotRunning
    /\ UNCHANGED <<store, remote, remoteReceipt, localReceipt, exporting, pruning>>

\* A step fails and the staging directory is removed, or the command is killed
\* and leaves it: its name starts with a dot and nothing looks at it again.
BackupStops ==
    /\ staging.step # "idle" /\ staging' = NotRunning
    /\ UNCHANGED <<store, kept, published, remote, remoteReceipt, localReceipt, exporting, pruning>>

-------------------------------------------------------------------------------
(* run_server_prune_backups *)

\* classify_backup_entries: directories with a manifest.
Listed == {n \in DOMAIN kept : kept[n].manifest}

\* Mutant: a backup without a receipt may be deleted.
PrunableAny == Listed

\* build_prune_summary, --require-offsite-receipt: the others are protected.
Prunable == {n \in Listed : n \in localReceipt}

Doomed == {n \in Prunable : Cardinality({m \in Prunable : m > n}) >= KeepLast}

PruneStarts ==
    /\ pruning = {} /\ Doomed # {}
    /\ pruning' = Doomed
    /\ UNCHANGED <<store, staging, kept, published, remote, remoteReceipt, localReceipt, exporting>>

\* shutil.rmtree begins: files go in any order, the manifest first or last.
PruneDamages(manifest) ==
    /\ \E n \in pruning \cap DOMAIN kept :
           /\ \A m \in pruning \cap DOMAIN kept : n >= m
           /\ kept[n].whole
           /\ kept' = [kept EXCEPT ![n] = Directory(NotRunning, FALSE, manifest)]
    /\ UNCHANGED <<store, staging, published, remote, remoteReceipt, localReceipt, exporting, pruning>>

PruneDeletes ==
    /\ \E n \in pruning :
           /\ \A m \in pruning : n >= m
           /\ n \in DOMAIN kept => ~kept[n].whole
           /\ kept' = [m \in DOMAIN kept \ {n} |-> kept[m]]
           /\ pruning' = pruning \ {n}
    /\ UNCHANGED <<store, staging, published, remote, remoteReceipt, localReceipt, exporting>>

PruneStops ==
    /\ pruning # {} /\ pruning' = {}
    /\ UNCHANGED <<store, staging, kept, published, remote, remoteReceipt, localReceipt, exporting>>

-------------------------------------------------------------------------------
(* run_server_export_backups *)

PendingExports == Listed \ localReceipt

\* The oldest pending backup; validate_backup_snapshot fails on a damaged one.
ExportStarts ==
    /\ exporting.step = "idle"
    /\ \E n \in PendingExports :
           /\ \A m \in PendingExports : n <= m
           /\ kept[n].whole
           /\ exporting' = At("look", n)
    /\ UNCHANGED <<store, staging, kept, published, remote, remoteReceipt, localReceipt, pruning>>

\* _recover_remote_receipt: a matching receipt whose archive verifies.
ExportRecovers ==
    /\ exporting.step = "look" /\ exporting.name \in remoteReceipt
    /\ remote[exporting.name] = "whole"
    /\ localReceipt' = localReceipt \cup {exporting.name} /\ exporting' = At("idle", 0)
    /\ UNCHANGED <<store, staging, kept, published, remote, remoteReceipt, pruning>>

\* Mutant: an archive without a receipt is uploaded again.
MayUploadAgain(n) == n \notin remoteReceipt

\* An archive without a receipt is left alone, and the export fails.
MayUpload(n) == n \notin remoteReceipt /\ remote[n] = "none"

\* client.upload_file; the connection may break in the middle.
ExportUploads(result) ==
    /\ exporting.step = "look" /\ MayUpload(exporting.name)
    /\ remote' = [remote EXCEPT ![exporting.name] = result]
    /\ exporting' = At("verify", exporting.name)
    /\ UNCHANGED <<store, staging, kept, published, remoteReceipt, localReceipt, pruning>>

\* Mutant: what was uploaded is not read back.
ReadsBackUnchecked(n) == TRUE

\* The archive is downloaded and its digest compared.
ReadsBack(n) == remote[n] = "whole"

\* client.upload_json_once
ExportVerifies ==
    /\ exporting.step = "verify" /\ ReadsBack(exporting.name)
    /\ remoteReceipt' = remoteReceipt \cup {exporting.name}
    /\ exporting' = At("receipt", exporting.name)
    /\ UNCHANGED <<store, staging, kept, published, remote, localReceipt, pruning>>

\* _atomic_write_receipt
ExportRecords ==
    /\ exporting.step = "receipt"
    /\ localReceipt' = localReceipt \cup {exporting.name} /\ exporting' = At("idle", 0)
    /\ UNCHANGED <<store, staging, kept, published, remote, remoteReceipt, pruning>>

\* A step fails, or the command is killed.
ExportStops ==
    /\ exporting.step # "idle" /\ exporting' = At("idle", 0)
    /\ UNCHANGED <<store, staging, kept, published, remote, remoteReceipt, localReceipt, pruning>>

-------------------------------------------------------------------------------
BackupNext ==
    \/ \E a \in Artifacts : WebStores(a) \/ WebCommits(a) \/ WebCleansUp(a) \/ WebPrunes(a) \/ WebExpires(a)
    \/ BackupStarts \/ BackupCopies \/ BackupPublishes \/ BackupStops
    \/ PruneStarts \/ PruneDeletes \/ PruneStops
    \/ \E manifest \in BOOLEAN : PruneDamages(manifest)
    \/ ExportStarts \/ ExportRecovers \/ ExportVerifies \/ ExportRecords \/ ExportStops
    \/ \E result \in {"part", "whole"} : ExportUploads(result)

BackupSpec == BackupInit /\ [][BackupNext]_backupVars

-------------------------------------------------------------------------------
\* Copying the database first costs a backup nothing: whatever a request stored and
\* committed while the backup ran, an artifact that the copied rows name and the
\* archive lacks is one whose file the web process had deleted - a request that
\* pruned it, or whose clean-up took it from another, with the rows still there.
BackupIsConsistent ==
    \A n \in DOMAIN kept : kept[n].whole => kept[n].rows \ kept[n].files \subseteq kept[n].deleted

\* No backup is lost: each one ever published is here, whole, or on the WebDAV
\* server, whole and with the receipt that recovers it, whatever was killed
\* when (build_prune_summary with --require-offsite-receipt, export_snapshot).
NoBackupIsLost ==
    \A n \in published :
        \/ n \in DOMAIN kept /\ kept[n].whole
        \/ remote[n] = "whole" /\ n \in remoteReceipt

\* "An upload without a matching receipt is never overwritten automatically"
\* (docs/ops/server-backup-and-restore.md).
UploadsAreKept ==
    \A n \in Names : remote[n] # "none" => remote'[n] = remote[n]

\* A backup lacks no artifact its database names but those already deleted, a
\* published one survives here or on the remote, whose copies are never overwritten.
BackupsAreSafe == [][(BackupIsConsistent /\ NoBackupIsLost)' /\ UploadsAreKept]_backupVars
===============================================================================
