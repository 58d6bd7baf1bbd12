----------------------------- MODULE ConfigStore -----------------------------
(* One persistent configuration file of the native network library           *)
(* (tgnet.dat, dc<N>conf.dat, cdnkeys.dat) and its ".bak" companion, as      *)
(* class Config reads and writes them.  The process may die between any two  *)
(* file system calls, and any call may fail.                                 *)
(*                                                                            *)
(* The contents written are abstracted to a version number: the n-th call of *)
(* writeConfig writes version n.                                              *)
EXTENDS Naturals

CONSTANTS
    MaxVersion,  \* bound: how many times writeConfig is called
    FailingOps   \* the file system calls that may fail in this instance

Ops == {"rename", "open", "write", "sync", "removeConfig", "removeBackup", "restore"}

ASSUME ConfigAssumption == MaxVersion \in Nat /\ FailingOps \subseteq Ops

VARIABLES
    config,        \* the file at configPath
    backup,        \* the file at backupPath
    pc,            \* where the network thread is
    version,       \* version of the buffer being written, or last written
    error,         \* local of writeConfig
    hasBackupFile, \* local of writeConfig
    loaded,        \* version readConfig returned at the last start, 0 for nullptr
    acknowledged,  \* last version writeConfig reported as "config write ok"
    failed         \* history: has any file system call failed so far

fileVars == <<config, backup>>
writeVars == <<version, error, hasBackupFile, acknowledged>>
configVars == <<fileVars, pc, writeVars, loaded, failed>>

-----------------------------------------------------------------------------
(* A file that exists has the version of its contents; it is torn while the  *)
(* contents on the disk are not known to be complete.                        *)
Absent == [version |-> 0, state |-> "absent"]
Torn(v) == [version |-> v, state |-> "torn"]
Whole(v) == [version |-> v, state |-> "whole"]

Files == [version : 0..MaxVersion, state : {"absent", "torn", "whole"}]

Exists(file) == file.state # "absent"

(* readConfig: a file shorter than its length prefix says gives nullptr.     *)
ReadResult(file) == IF file.state = "whole" THEN file.version ELSE 0

(* How a file system call ends, as far as the history goes.                  *)
Works == UNCHANGED failed
Failing(op) == op \in FailingOps /\ failed' = TRUE

ConfigInit ==
    /\ config = Absent /\ backup = Absent
    /\ pc = "idle"
    /\ version = 0 /\ error = FALSE /\ hasBackupFile = FALSE
    /\ loaded = 0 /\ acknowledged = 0
    /\ failed = FALSE

-----------------------------------------------------------------------------
(* writeConfig, one action per file system call that changes the disk.       *)

(* Keep the old file as the backup, or drop it when a backup is still there. *)
SetAsideFilesNoBackup ==
    /\ config' = Absent /\ pc' = "open" /\ hasBackupFile' = FALSE /\ Works
    /\ UNCHANGED backup

SetAsideFiles ==
    \/ /\ Exists(config) /\ ~Exists(backup)
       /\ config' = Absent /\ backup' = config
       /\ hasBackupFile' = TRUE /\ pc' = "open" /\ Works
    \/ /\ Exists(config) /\ ~Exists(backup) /\ Failing("rename")
       /\ hasBackupFile' = FALSE /\ pc' = "idle"
       /\ UNCHANGED fileVars
    \/ /\ Exists(config) /\ Exists(backup)
       /\ (config' = Absent /\ Works) \/ (Failing("removeConfig") /\ UNCHANGED config)
       /\ hasBackupFile' = FALSE /\ pc' = "open"
       /\ UNCHANGED backup
    \/ /\ ~Exists(config)
       /\ hasBackupFile' = FALSE /\ pc' = "open" /\ Works
       /\ UNCHANGED fileVars

SetAsideKeepsError ==
    /\ pc = "idle" /\ version < MaxVersion
    /\ version' = version + 1
    /\ SetAsideFiles
    /\ UNCHANGED <<error, loaded, acknowledged>>

SetAside ==
    /\ pc = "idle" /\ version < MaxVersion
    /\ version' = version + 1
    /\ error' = FALSE
    /\ SetAsideFiles
    /\ UNCHANGED <<loaded, acknowledged>>

(* fopen(configPath, "wb") truncates the file.                               *)
OpenForWriting ==
    /\ pc = "open"
    /\ \/ config' = Torn(version) /\ pc' = "write" /\ Works
       \/ Failing("open") /\ pc' = "idle" /\ UNCHANGED config
    /\ UNCHANGED <<backup, writeVars, loaded>>

WriteData ==
    /\ pc = "write"
    /\ (error' = FALSE /\ Works) \/ (error' = TRUE /\ Failing("write"))
    /\ pc' = "sync"
    /\ UNCHANGED <<fileVars, version, hasBackupFile, acknowledged, loaded>>

(* fflush, fsync and fclose: each is tried whatever happened before.         *)
CloseWithoutSync ==
    /\ pc = "sync" /\ pc' = "finish"
    /\ UNCHANGED <<fileVars, writeVars, loaded, failed>>

SyncAndClose ==
    /\ pc = "sync"
    /\ \/ ~error /\ config' = Whole(version) /\ Works /\ UNCHANGED error
       \/ error /\ Works /\ UNCHANGED <<config, error>>
       \/ /\ Failing("sync") /\ ~error
          /\ error' = TRUE
          /\ config' \in {config, Whole(version)}
    /\ pc' = "finish"
    /\ UNCHANGED <<backup, version, hasBackupFile, acknowledged, loaded>>

(* Drop the new file after an error, the backup this call made otherwise.    *)
FinishDropsBackup ==
    /\ pc = "finish" /\ pc' = "idle"
    /\ config' = IF error THEN Absent ELSE config
    /\ backup' = IF hasBackupFile THEN Absent ELSE backup
    /\ acknowledged' = IF error THEN acknowledged ELSE version
    /\ UNCHANGED <<version, error, hasBackupFile, loaded, failed>>

Finish ==
    /\ pc = "finish"
    /\ pc' = "idle"
    /\ \/ /\ error
          /\ (config' = Absent /\ Works) \/ (Failing("removeConfig") /\ config' = config)
          /\ UNCHANGED <<backup, acknowledged>>
       \/ /\ ~error
          /\ \/ backup' = (IF hasBackupFile THEN Absent ELSE backup) /\ Works
             \/ hasBackupFile /\ Failing("removeBackup") /\ backup' = backup
          /\ acknowledged' = version
          /\ UNCHANGED config
    /\ UNCHANGED <<version, error, hasBackupFile, loaded>>

-----------------------------------------------------------------------------
(* The process dies.  Data that was written and not yet synced may or may    *)
(* not have reached the disk.                                                *)
Crash ==
    /\ pc # "down"
    /\ \/ UNCHANGED config
       \/ pc = "sync" /\ ~error /\ config' = Whole(version)
    /\ pc' = "down"
    /\ error' = FALSE /\ hasBackupFile' = FALSE
    /\ UNCHANGED <<backup, version, loaded, acknowledged, failed>>

(* The constructor of Config: a backup left over replaces the file.  rename  *)
(* replaces a file that could not be removed; that both calls fail at the    *)
(* same start is left out.                                                   *)
DropUnfinished ==
    /\ pc = "down"
    /\ \/ ~Exists(backup) /\ pc' = "read" /\ Works /\ UNCHANGED config
       \/ Exists(backup) /\ pc' = "restore" /\ Works /\ config' = Absent
       \/ Exists(backup) /\ pc' = "restore" /\ Failing("removeConfig") /\ UNCHANGED config
    /\ UNCHANGED <<backup, writeVars, loaded>>

RestoreBackup ==
    /\ pc = "restore"
    /\ \/ config' = backup /\ backup' = Absent /\ Works
       \/ Failing("restore") /\ ~Exists(config) /\ UNCHANGED fileVars
    /\ pc' = "read"
    /\ UNCHANGED <<writeVars, loaded>>

ReadConfig ==
    /\ pc = "read"
    /\ loaded' = ReadResult(config)
    /\ pc' = "idle"
    /\ UNCHANGED <<fileVars, writeVars, failed>>

ConfigNext ==
    \/ SetAside \/ OpenForWriting \/ WriteData \/ SyncAndClose \/ Finish
    \/ Crash \/ DropUnfinished \/ RestoreBackup \/ ReadConfig

ConfigSpec == ConfigInit /\ [][ConfigNext]_configVars

-----------------------------------------------------------------------------
(* The files hold versions already written, and the error flag of a write    *)
(* starts out clear.                                                         *)
ConfigTypeOK ==
    /\ config \in Files /\ backup \in Files
    /\ pc \in {"idle", "open", "write", "sync", "finish", "down", "restore", "read"}
    /\ version \in 0..MaxVersion
    /\ error \in BOOLEAN /\ hasBackupFile \in BOOLEAN
    /\ pc \in {"open", "write"} => ~error
    /\ loaded \in 0..MaxVersion
    /\ acknowledged \in 0..MaxVersion
    /\ failed \in BOOLEAN

(* What the next start reads if the process dies now.                        *)
Recoverable == ReadResult(IF Exists(backup) THEN backup ELSE config)

(* What the next start would find never goes back behind what the last start *)
(* loaded, whichever calls failed and wherever the process died in between:  *)
(* the backup is only dropped when the new file is complete on the disk.     *)
NeverBehindLastLoad == Recoverable >= loaded

(* A version reported as "config write ok" is the one a restart finds, or    *)
(* a newer one.                                                              *)
AcknowledgedIsDurable == Recoverable >= acknowledged

(* ... as long as no file system call has failed, wherever the process died. *)
DurableUntilFailure == ~failed => AcknowledgedIsDurable

(* The two files seen as one register that a crash cannot tear, and that a   *)
(* failed file system call sets back to what the last start loaded at worst. *)
Writing == pc \in {"open", "write", "sync", "finish"}

Register == INSTANCE ConfigRegister WITH
    stored <- Recoverable,
    pending <- IF Writing THEN version ELSE 0,
    up <- pc \notin {"down", "restore", "read"},
    faulty <- failed

AtomicRegister == Register!Spec
=============================================================================
