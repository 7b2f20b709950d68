------------------------------- MODULE Copies -------------------------------
(***************************************************************************)
(* Copies of an instance made from its backup repository: the clone, an    *)
(* instance of its own, and the volume that "pgfleet restore" fills with   *)
(* no control plane.  The source goes on writing, and its container may be *)
(* replaced by an operation of InstanceOps.                                *)
(***************************************************************************)
EXTENDS Naturals, FiniteSetsExt

CONSTANTS
    MaxData,        \* bound: versions of the source's data
    MaxFaults       \* bound: failing calls, slow recoveries and replacements

VARIABLES
    source,         \* the source: data, container, whether its repo is encrypted
    backups,        \* the data each of its backups is consistent at
    clone,          \* the clone's row
    files,          \* the clone's data volume
    server,         \* the clone's container, and what it was given
    task,           \* progress of the clone task, what it read and what it could not remove
    cli,            \* progress of "pgfleet restore"
    disk,           \* the volume it restores into
    faults

copies == <<source, backups, clone, files, server, task, cli, disk, faults>>

Absent == [exists |-> FALSE, data |-> 0, promoted |-> FALSE]
NoServer == [exists |-> FALSE, password |-> "none", stanza |-> "none", cipher |-> FALSE]

Fault == faults < MaxFaults /\ faults' = faults + 1

CopiesInit ==
    /\ source \in [data : {1}, container : {1}, encrypted : BOOLEAN]
    /\ backups \in {{}, {1}}
    /\ clone = [status |-> "absent", encrypted |-> FALSE]
    /\ files = Absent /\ server = NoServer
    /\ task = [at |-> "start", source |-> source, repo |-> FALSE, kept |-> {}]
    /\ cli = [at |-> "start", target |-> 0] /\ disk = Absent /\ faults = 0

SourceWrites ==
    /\ source.data < MaxData /\ source' = [source EXCEPT !.data = @ + 1]
    /\ UNCHANGED <<backups, clone, files, server, task, cli, disk, faults>>

SourceReplaced ==
    /\ Fault /\ source' = [source EXCEPT !.container = @ + 1]
    /\ UNCHANGED <<backups, clone, files, server, task, cli, disk>>
-----------------------------------------------------------------------------
\* What a restore to the end of the archive may hold: a backup and any WAL that
\* was archived since.
Latest == IF backups = {} THEN {} ELSE Max(backups) .. source.data

Step(from, to) ==
    task.at = from /\ task' = [task EXCEPT !.at = to] /\ UNCHANGED <<source, cli, disk>>

\* Clone of the API reads the source once, for the request and the task.
CloneRequest ==
    /\ task.at = "start" /\ task' = [task EXCEPT !.at = "backup", !.source = source]
    /\ clone' = [clone EXCEPT !.status = "provisioning"]
    /\ UNCHANGED <<source, backups, files, server, cli, disk, faults>>

BackupIfNone ==
    /\ Step("backup", "preflight")
    /\ backups' = IF backups = {} THEN {source.data} ELSE backups
    /\ UNCHANGED <<clone, files, server, faults>>

\* A fresh full backup; without it the clone is marked and nothing is made.
TakeBackup ==
    /\ \/ Step("backup", "preflight") /\ backups' = backups \cup {source.data} /\ UNCHANGED faults
       \/ Step("backup", "mark") /\ Fault /\ UNCHANGED backups
    /\ UNCHANGED <<clone, files, server>>

\* The clone inherits the source's encryption.  ensureSourceHasBackup asks the
\* container the task knows of.
Preflight ==
    /\ \/ /\ Step("preflight", "volume") /\ task.source.container = source.container
          /\ backups # {} /\ UNCHANGED faults
       \/ /\ Step("preflight", "mark") /\ task.source.container # source.container
          /\ UNCHANGED faults
       \/ Step("preflight", "mark") /\ Fault
    /\ \/ clone' = [clone EXCEPT !.encrypted = task.source.encrypted]
       \/ task'.at = "mark" /\ faults' # faults /\ UNCHANGED clone
    /\ UNCHANGED <<backups, files, server>>

CloneVolume ==
    /\ \/ Step("volume", "restore") /\ files' = [Absent EXCEPT !.exists = TRUE] /\ UNCHANGED faults
       \/ Step("volume", "undo") /\ Fault /\ UNCHANGED files
    /\ UNCHANGED <<backups, clone, server>>

\* runRestoreContainer waits for the promotion, ten minutes at the most.
RestoreClone ==
    /\ \/ /\ Step("restore", "container") /\ UNCHANGED faults
          /\ \E data \in Latest : files' = [exists |-> TRUE, data |-> data, promoted |-> TRUE]
       \/ /\ Step("restore", "container") /\ Fault
          /\ \E data \in Latest : files' = [exists |-> TRUE, data |-> data, promoted |-> FALSE]
       \/ Step("restore", "undo") /\ Fault /\ UNCHANGED files
    /\ UNCHANGED <<backups, clone, server>>

\* The clone's own repository volume, then its container.  What it serves is the
\* source's data, its superuser's password included.
CloneContainer ==
    /\ task.at = "container" /\ UNCHANGED <<source, cli, disk>>
    /\ \/ /\ task' = [task EXCEPT !.at = "password", !.repo = TRUE] /\ UNCHANGED faults
          /\ server' = [NoServer EXCEPT !.exists = TRUE, !.password = "source"]
       \/ /\ task' = [task EXCEPT !.at = "undo", !.repo = TRUE] /\ Fault
          /\ server' \in {server, [NoServer EXCEPT !.exists = TRUE, !.password = "source"]}
       \/ /\ task' = [task EXCEPT !.at = "undo"] /\ Fault /\ UNCHANGED server
    /\ UNCHANGED <<backups, clone, files>>

PasswordKept ==
    /\ Step("password", "stanza")
    /\ UNCHANGED <<backups, clone, files, server, faults>>

\* ALTER USER is refused as long as the server recovers.
ResetPassword ==
    /\ \/ Step("password", "stanza") /\ files' = [files EXCEPT !.promoted = TRUE] /\ UNCHANGED faults
          /\ server' = [server EXCEPT !.password = "clone"]
       \/ Step("password", "undo") /\ ~files.promoted /\ UNCHANGED <<files, server, faults>>
       \/ Step("password", "undo") /\ Fault /\ UNCHANGED <<files, server>>
    /\ UNCHANGED <<backups, clone>>

\* writeConfig and stanza-create, with the clone's own stanza and cipher.
CloneStanza ==
    /\ \/ Step("stanza", "running") /\ UNCHANGED faults
          /\ server' = [server EXCEPT !.stanza = "clone", !.cipher = clone.encrypted]
       \/ Step("stanza", "undo") /\ Fault /\ UNCHANGED server
    /\ UNCHANGED <<backups, clone, files>>

\* The deferred cleanup, call by call; their errors are dropped.  The container
\* first, where one was created ...
RemoveClone ==
    /\ \/ Step("undo", "undata") /\ server' = NoServer /\ UNCHANGED faults
       \/ /\ task.at = "undo" /\ task' = [task EXCEPT !.at = "undata", !.kept = @ \cup {"container"}]
          /\ server.exists /\ Fault /\ UNCHANGED <<source, cli, disk, server>>
    /\ UNCHANGED <<backups, clone, files>>

\* ... then its data, which Docker keeps as long as a container mounts it ...
RemoveData ==
    /\ \/ /\ Step("undata", "unrepo") /\ UNCHANGED faults
          /\ files' = IF server.exists THEN files ELSE Absent
       \/ /\ task.at = "undata" /\ task' = [task EXCEPT !.at = "unrepo", !.kept = @ \cup {"data"}]
          /\ files.exists /\ Fault /\ UNCHANGED <<source, cli, disk, files>>
    /\ UNCHANGED <<backups, clone, server>>

RepoForgotten ==
    /\ Step("unrepo", "mark")
    /\ UNCHANGED <<backups, clone, files, server, faults>>

\* ... and its repository, likewise.
RemoveRepo ==
    /\ task.at = "unrepo"
    /\ \/ task' = [task EXCEPT !.at = "mark", !.repo = @ /\ server.exists] /\ UNCHANGED faults
       \/ /\ task' = [task EXCEPT !.at = "mark", !.kept = @ \cup {"repo"}]
          /\ task.repo /\ Fault
    /\ UNCHANGED <<source, backups, clone, files, server, cli, disk>>

\* Clone and MarkError record the outcome, with the task's context.
Outcome ==
    /\ \E end \in {[at |-> "running", status |-> "running"], [at |-> "mark", status |-> "error"]} :
         \/ Step(end.at, "done") /\ clone' = [clone EXCEPT !.status = end.status] /\ UNCHANGED faults
         \/ Step(end.at, "unrecorded") /\ Fault /\ UNCHANGED clone
    /\ UNCHANGED <<backups, files, server>>
-----------------------------------------------------------------------------
CliStep(from) == cli.at = from /\ UNCHANGED <<source, backups, clone, files, server, task>>

\* runRestore: a target or none; creating a volume that exists hands it out.
CliVolume ==
    /\ CliStep("start")
    /\ \E target \in 0 .. source.data : cli' = [at |-> "restore", target |-> target]
    /\ disk' = [disk EXCEPT !.exists = TRUE]
    /\ UNCHANGED faults

\* What the volume may hold when the script ends.  restoreScript starts the server
\* and stops it, and "pg_ctl -w start" returns once connections are accepted: the
\* recovery of the backup has then reached its target and promoted, or not yet.
\* buildConf gives no cipher, and without --delta the directory must be empty.
CliRestored ==
    LET goal == IF cli.target = 0 THEN source.data ELSE cli.target
        before == {b \in backups : b <= goal}
    IN  IF source.encrypted \/ disk.data # 0 \/ before = {} THEN {}
        ELSE [exists : {TRUE}, data : Max(before) .. goal, promoted : {FALSE}]
             \cup [exists : {TRUE}, promoted : {TRUE},
                   data : (IF cli.target = 0 THEN Max(before) .. goal ELSE {goal})]

CliIgnoresExit ==
    /\ CliStep("restore") /\ cli' = [cli EXCEPT !.at = "complete"]
    /\ \/ disk' \in CliRestored /\ UNCHANGED faults
       \/ disk' = disk /\ Fault

\* A failed run keeps the volume, with the files it restored so far.
CliRestore ==
    /\ CliStep("restore")
    /\ \/ /\ cli' = [cli EXCEPT !.at = "complete"] /\ UNCHANGED faults
          /\ disk' \in CliRestored
       \/ /\ cli' = [cli EXCEPT !.at = "failed"] /\ UNCHANGED <<disk, faults>>
          /\ CliRestored = {}
       \/ /\ cli' = [cli EXCEPT !.at = "failed"] /\ Fault
          /\ disk' \in {disk, [disk EXCEPT !.data = source.data]}

\* The operator tries again.
CliAgain ==
    /\ CliStep("failed") /\ Fault
    /\ cli' = [at |-> "start", target |-> 0] /\ UNCHANGED disk

CloneTask ==
    \/ TakeBackup \/ Preflight \/ CloneVolume \/ RestoreClone \/ CloneContainer
    \/ ResetPassword \/ CloneStanza \/ RemoveClone \/ RemoveData \/ RemoveRepo \/ Outcome

CopiesNext ==
    \/ SourceWrites \/ SourceReplaced \/ CloneRequest \/ CloneTask
    \/ CliVolume \/ CliRestore \/ CliAgain

CopiesSpec == CopiesInit /\ [][CopiesNext]_copies
-----------------------------------------------------------------------------
CopiesTypeOK ==
    /\ clone.status \in {"absent", "provisioning", "running", "error"}
    /\ files.data \in 0 .. source.data /\ disk.data \in 0 .. source.data
    /\ server.exists => files.exists /\ task.repo
    /\ server.password \in {"none", "source", "clone"} /\ backups \subseteq 1 .. source.data

\* A clone that runs shares nothing with its source: it has a password, a
\* repository and a stanza of its own, encrypted just as the source's is.
CloneIsIndependent ==
    clone.status = "running" =>
        /\ server = [exists |-> TRUE, password |-> "clone", stanza |-> "clone",
                     cipher |-> source.encrypted]
        /\ task.repo /\ files.promoted

\* A clone that runs is no older than the request for it: it holds what the source
\* held then, whatever backups there were before.
CloneIsRecent ==
    clone.status = "running" => files.data >= task.source.data

\* A clone that failed, wherever it failed, leaves nothing that its cleanup could
\* remove: a container only if its own removal failed, and a volume only if its
\* own did or such a container mounts it.
FailedCloneCleansUp ==
    clone.status = "error" =>
        /\ server.exists => "container" \in task.kept
        /\ files.exists => server.exists \/ "data" \in task.kept
        /\ task.repo => server.exists \/ "repo" \in task.kept

\* "restore complete" is said of a volume this very run filled: it holds a backup's
\* state or later, nothing past the target asked for, and nothing that an earlier
\* attempt left there.
CliSaysWhatItDid ==
    cli.at = "complete" =>
        /\ \E b \in backups : b <= disk.data
        /\ cli.target # 0 => disk.data <= cli.target

\* restoreScript: "drive recovery to the target with pg_ctl start/stop so the volume
\* ends up holding a promoted, ready-to-run cluster"; with a target, at the target.
CliVolumePromoted ==
    cli.at = "complete" => disk.promoted /\ (cli.target # 0 => disk.data = cli.target)

\* A copy that is reported complete is whole, and a clone that failed leaves only
\* what could not be removed (clone with its deferred cleanup, runRestore).
CopiesAreWhole ==
    CloneIsIndependent /\ CloneIsRecent /\ FailedCloneCleansUp /\ CliSaysWhatItDid
=============================================================================
