------------------------------ MODULE InstanceOps ------------------------------
(***************************************************************************)
(* The life of one standalone instance: the operations of                   *)
(* internal/provision that the API handlers run on it (Provision, Start,    *)
(* Stop, Restart, Destroy, Restore, SetVisibility), the reconciler of       *)
(* internal/reconcile, the instance's row in the meta database, and its     *)
(* containers and data volumes in Docker.                                   *)
(*                                                                          *)
(* Every handler runs in a goroutine of its own, and takes one step per     *)
(* call to Docker or to the meta database.  Restore and SetVisibility hold  *)
(* the instance's operation mutex; the others hold nothing.                 *)
(***************************************************************************)
EXTENDS Naturals, FiniteSets

CONSTANTS
    Procs,          \* handler goroutines that may run at the same time
    Ops,            \* operations the API is asked for
    MaxCalls,       \* bound on those requests, after the first Provision
    MaxOutages,     \* bound on containers that die by themselves
    DBFaults,       \* may a write of the meta database fail?
    DockerFaults,   \* may a Docker call fail for no reason of the model?
    Crashes         \* may the control plane die and restart?

ASSUME InstanceOpsAssumption ==
    /\ Procs # {} /\ 0 \notin Procs
    /\ Ops \subseteq {"start", "stop", "restart", "destroy", "restore",
                      "visibility"}
    /\ MaxCalls \in Nat /\ MaxOutages \in Nat
    /\ {DBFaults, DockerFaults, Crashes} \subseteq BOOLEAN

\* Restore makes one container, SetVisibility two; Restore makes one volume.
Containers == 1..(2 * MaxCalls + 1)
Volumes == 1..(MaxCalls + 1)
NoContainer == 0
DefaultVolume == 1      \* volumeName("data", id)

VARIABLES
    row,            \* the instance's row, NoRow when deleted
    ctr,            \* container -> its state, data volume, name and binding
    vol,            \* volume -> "none", "blank", "data" (the tenant's), "gone"
    mutex,          \* holder of the instance's operation mutex, 0 if free
    job,            \* goroutine -> operation, program counter and locals
    rec,            \* the reconciler's program counter and locals
    calls,          \* API requests so far
    outages,        \* containers that died by themselves so far
    provisioned,    \* history: Provision has verified the instance
    doomed          \* history: a Destroy has begun

dockerVars == <<ctr, vol>>
historyVars == <<provisioned, doomed>>
vars == <<row, dockerVars, mutex, job, rec, calls, outages, historyVars>>

Statuses == {"provisioning", "running", "stopped", "error", "destroying",
             "restoring"}
ContainerStates == {"none", "created", "running", "stopped", "exited", "gone"}
NoRow == [status |-> "none", cid |-> NoContainer, vol |-> DefaultVolume,
          public |-> FALSE]
NoJob == [op |-> "none", pc |-> "idle", inst |-> NoRow, new |-> NoContainer,
          vol |-> DefaultVolume, want |-> FALSE]
NoPass == [pc |-> "idle", inst |-> NoRow, info |-> NoContainer,
           running |-> FALSE]

(***************************************************************************)
(* The API has just inserted the row, and one goroutine is about to run     *)
(* Provision.  A row without a data volume means the default one wherever   *)
(* it is read, so the two are not told apart.                               *)
(***************************************************************************)
Init ==
    /\ row = [NoRow EXCEPT !.status = "provisioning"]
    /\ ctr = [c \in Containers |-> [st |-> "none", vol |-> DefaultVolume,
                                    fixed |-> FALSE, public |-> FALSE]]
    /\ vol = [v \in Volumes |-> "none"]
    /\ mutex = 0
    /\ \E p \in Procs :
          job = [q \in Procs |-> IF q = p
                                 THEN [NoJob EXCEPT !.op = "provision",
                                                    !.pc = "get"]
                                 ELSE NoJob]
    /\ rec = NoPass
    /\ calls = 0 /\ outages = 0
    /\ provisioned = FALSE /\ doomed = FALSE

-------------------------------------------------------------------------------
(* Docker.                                                                  *)

Exists(c) == c # NoContainer /\ ctr[c].st \notin {"none", "gone"}
Running(c) == c # NoContainer /\ ctr[c].st = "running"
Existing == {c \in Containers : Exists(c)}

\* A volume mounted by any container, running or not, cannot be removed.
InUse(v) == \E c \in Existing : ctr[c].vol = v

\* The fixed name "pgfleet-pg-<name>" can be held by one container only; the
\* container that Restore swaps in has a name of its own.
NameFree == \A c \in Existing : ~ctr[c].fixed

\* The container that CreateContainer makes next.
NextContainer(c) ==
    /\ ctr[c].st = "none"
    /\ \A d \in Containers : ctr[d].st = "none" => c <= d

\* A call of Docker that is possible may still fail when Docker does.
Refused(can) == ~can \/ DockerFaults

\* A volume that exists already is left as it is.
CreateVolume(v) ==
    vol' = [vol EXCEPT ![v] = IF @ \in {"none", "gone"} THEN "blank" ELSE @]

\* CreateContainer makes the volume it mounts when there is none of that name.
CreateContainer(c, v, fixed, public) ==
    /\ NextContainer(c)
    /\ ctr' = [ctr EXCEPT ![c] =
                   [st |-> "created", vol |-> v, fixed |-> fixed,
                    public |-> public]]
    /\ CreateVolume(v)

StartContainer(c) == ctr' = [ctr EXCEPT ![c].st = "running"]

StopContainer(c) ==
    ctr' = [ctr EXCEPT ![c].st = IF @ = "created" THEN @ ELSE "stopped"]

RemoveContainer(c) == ctr' = [ctr EXCEPT ![c].st = "gone"]

RemoveVolume(v) == vol' = [vol EXCEPT ![v] = "gone"]

-------------------------------------------------------------------------------
(* The row, and the control flow of a handler.                              *)

SetStatus(s) == [row EXCEPT !.status = s]
SetRuntime(c) == [row EXCEPT !.cid = c]
SetDataVolume(v) == [row EXCEPT !.vol = v]
SetPublic(b) == [row EXCEPT !.public = b]

\* An update of a deleted row, like any update in trouble, is an error.
Missing == row = NoRow \/ DBFaults
Written(new) == row # NoRow /\ row' = new
TryWrite(new) == Written(new) \/ (Missing /\ UNCHANGED row)

At(p, op, l) == job[p].op = op /\ job[p].pc = l
Goto(p, l) == job' = [job EXCEPT ![p] = IF l = "return" THEN NoJob
                                        ELSE [@ EXCEPT !.pc = l]]

\* What a step that only reads or writes the row, and one that only calls
\* Docker, leave alone.
rowFrame == <<dockerVars, mutex, rec, calls, outages, historyVars>>
dockerFrame == <<row, mutex, rec, calls, outages, historyVars>>

(***************************************************************************)
(* The kinds of step a handler is made of.  Writes and Removes are calls    *)
(* whose error is ignored; the others go to "bad" on an error.              *)
(***************************************************************************)
Writes(p, new, next) ==
    /\ TryWrite(new)
    /\ Goto(p, next)
    /\ UNCHANGED rowFrame

Gets(p, ok, bad) ==
    /\ \/ /\ row # NoRow
          /\ job' = [job EXCEPT ![p].inst = row, ![p].pc = ok]
       \/ Missing /\ Goto(p, bad)
    /\ UNCHANGED <<row, rowFrame>>

Creates(p, v, fixed, public, ok, bad) ==
    /\ \/ /\ fixed => NameFree
          /\ \E c \in Containers :
                /\ CreateContainer(c, v, fixed, public)
                /\ job' = [job EXCEPT ![p].new = c, ![p].pc = ok]
       \/ /\ Refused(fixed => NameFree)
          /\ UNCHANGED dockerVars
          /\ Goto(p, bad)
    /\ UNCHANGED dockerFrame

Starts(p, c, ok, bad) ==
    /\ \/ Exists(c) /\ StartContainer(c) /\ Goto(p, ok)
       \/ Refused(Exists(c)) /\ UNCHANGED ctr /\ Goto(p, bad)
    /\ UNCHANGED <<vol, dockerFrame>>

Stops(p, c, ok, bad) ==
    /\ \/ Exists(c) /\ StopContainer(c) /\ Goto(p, ok)
       \/ Refused(Exists(c)) /\ UNCHANGED ctr /\ Goto(p, bad)
    /\ UNCHANGED <<vol, dockerFrame>>

Removes(p, c, next) ==
    /\ \/ Exists(c) /\ RemoveContainer(c)
       \/ Refused(Exists(c)) /\ UNCHANGED ctr
    /\ Goto(p, next)
    /\ UNCHANGED <<vol, dockerFrame>>

RemovesVolume(p, v, ok, bad) ==
    /\ \/ ~InUse(v) /\ RemoveVolume(v) /\ Goto(p, ok)
       \/ Refused(~InUse(v)) /\ UNCHANGED vol /\ Goto(p, bad)
    /\ UNCHANGED <<ctr, dockerFrame>>

\* What works on a running container only: waitReady, writeConfig, commands
\* inside it, and Inspect with assignedPort (nothing else has a port).
Execs(p, c, ok, bad) ==
    /\ \/ Running(c) /\ Goto(p, ok)
       \/ Refused(Running(c)) /\ Goto(p, bad)
    /\ UNCHANGED <<dockerVars, dockerFrame>>

\* A request: Restore and SetVisibility first wait for the mutex.
Request(p, op) ==
    /\ job[p] = NoJob
    /\ op \in Ops /\ calls < MaxCalls
    /\ calls' = calls + 1
    /\ \E b \in BOOLEAN :
          /\ op # "visibility" => b = FALSE
          /\ job' = [job EXCEPT ![p].op = op, ![p].want = b,
                        ![p].pc = IF op \in {"restore", "visibility"}
                                  THEN "lock" ELSE "get"]
    /\ doomed' = (doomed \/ op = "destroy")
    /\ UNCHANGED <<row, dockerVars, mutex, rec, outages, provisioned>>

Lock(p) ==
    /\ job[p].pc = "lock"
    /\ mutex = 0
    /\ mutex' = p
    /\ Goto(p, "get")
    /\ UNCHANGED <<row, dockerVars, rec, calls, outages, historyVars>>

\* Faulty variant: a return without the unlock.
UnlockForgotten(p) ==
    /\ job[p].pc = "unlock"
    /\ Goto(p, "return")
    /\ UNCHANGED <<row, dockerVars, mutex, rec, calls, outages, historyVars>>

\* The return of Restore and SetVisibility.
Unlock(p) ==
    /\ job[p].pc = "unlock"
    /\ mutex' = 0
    /\ Goto(p, "return")
    /\ UNCHANGED <<row, dockerVars, rec, calls, outages, historyVars>>

-------------------------------------------------------------------------------
(* Provision.                                                               *)

\* Get, SetEncrypted, Password and EnsureImage; nothing to undo yet.
ProvisionGet(p) ==
    /\ At(p, "provision", "get")
    /\ \/ /\ row # NoRow
          /\ job' = [job EXCEPT ![p].inst = row, ![p].pc = "volume"]
       \/ (Missing \/ DockerFaults) /\ Goto(p, "fail")
    /\ UNCHANGED <<row, rowFrame>>

\* The data volume, then the repository's, which may fail in its turn.
ProvisionVolume(p) ==
    /\ At(p, "provision", "volume")
    /\ \/ CreateVolume(DefaultVolume) /\ Goto(p, "create")
       \/ DockerFaults /\ CreateVolume(DefaultVolume) /\ Goto(p, "undo")
       \/ DockerFaults /\ UNCHANGED vol /\ Goto(p, "fail")
    /\ UNCHANGED <<ctr, dockerFrame>>

ProvisionCreate(p) ==
    /\ At(p, "provision", "create")
    /\ Creates(p, DefaultVolume, TRUE, job[p].inst.public, "record", "undo")

ProvisionRecord(p) ==
    At(p, "provision", "record") /\ Writes(p, SetRuntime(job[p].new), "start")

ProvisionStart(p) ==
    /\ At(p, "provision", "start")
    /\ Starts(p, job[p].new, "port", "undo")

ProvisionInspect(p) ==
    At(p, "provision", "port") /\ Execs(p, job[p].new, "setPort", "undo")

\* The one SetRuntime that must succeed.
ProvisionPort(p) ==
    /\ At(p, "provision", "setPort")
    /\ \/ Written(SetRuntime(job[p].new)) /\ Goto(p, "ready")
       \/ Missing /\ UNCHANGED row /\ Goto(p, "undo")
    /\ UNCHANGED rowFrame

\* waitReady, extensions, writeConfig, stanza-create and check, all inside the
\* container.
ProvisionReady(p) ==
    /\ At(p, "provision", "ready")
    /\ \/ /\ Running(job[p].new)
          /\ vol' = [vol EXCEPT ![DefaultVolume] = "data"]
          /\ provisioned' = TRUE
          /\ Goto(p, "done")
       \/ /\ Refused(Running(job[p].new))
          /\ UNCHANGED <<vol, provisioned>>
          /\ Goto(p, "undo")
    /\ UNCHANGED <<row, ctr, mutex, rec, calls, outages, doomed>>

ProvisionDone(p) ==
    At(p, "provision", "done") /\ Writes(p, SetStatus("running"), "return")

\* The deferred cleanup: the container if one was created, then the volume.
ProvisionUndo(p) ==
    At(p, "provision", "undo") /\ Removes(p, job[p].new, "undoVolume")

ProvisionUndoVolume(p) ==
    /\ At(p, "provision", "undoVolume")
    /\ RemovesVolume(p, DefaultVolume, "fail", "fail")

ProvisionFail(p) ==
    At(p, "provision", "fail") /\ Writes(p, SetStatus("error"), "return")

Provision(p) ==
    \/ ProvisionGet(p) \/ ProvisionVolume(p) \/ ProvisionCreate(p)
    \/ ProvisionRecord(p) \/ ProvisionStart(p)
    \/ ProvisionInspect(p) \/ ProvisionPort(p) \/ ProvisionReady(p)
    \/ ProvisionDone(p) \/ ProvisionUndo(p)
    \/ ProvisionUndoVolume(p) \/ ProvisionFail(p)

-------------------------------------------------------------------------------
(* Start, Stop and Restart: no mutex, no look at the status.                *)

LifecycleGet(p) ==
    /\ job[p].op \in {"start", "stop", "restart"} /\ job[p].pc = "get"
    /\ Gets(p, "call", "return")

StartCall(p) ==
    /\ At(p, "start", "call")
    /\ Starts(p, job[p].inst.cid, "refresh", "return")

\* refreshPort writes back the container id that Get returned.
StartInspect(p) ==
    At(p, "start", "refresh") /\ Execs(p, job[p].inst.cid, "port", "done")

StartRefresh(p) ==
    At(p, "start", "port") /\ Writes(p, SetRuntime(job[p].inst.cid), "done")

StartDone(p) ==
    At(p, "start", "done") /\ Writes(p, SetStatus("running"), "return")

StopCall(p) ==
    /\ job[p].op \in {"stop", "restart"} /\ job[p].pc = "call"
    /\ Stops(p, job[p].inst.cid, "done", "return")

\* Restart goes on with Start unless Stop returned an error.
StopDone(p) ==
    /\ job[p].op \in {"stop", "restart"} /\ job[p].pc = "done"
    /\ \/ /\ Written(SetStatus("stopped"))
          /\ IF job[p].op = "stop"
             THEN Goto(p, "return")
             ELSE job' = [job EXCEPT ![p].op = "start", ![p].pc = "get"]
       \/ Missing /\ UNCHANGED row /\ Goto(p, "return")
    /\ UNCHANGED rowFrame

Lifecycle(p) ==
    \/ LifecycleGet(p) \/ StartCall(p) \/ StartInspect(p)
    \/ StartRefresh(p) \/ StartDone(p) \/ StopCall(p) \/ StopDone(p)

-------------------------------------------------------------------------------
(* Destroy: no mutex either; it removes what its Get returned.              *)

DestroyGet(p) ==
    At(p, "destroy", "get") /\ Gets(p, "mark", "return")

DestroyMark(p) ==
    At(p, "destroy", "mark") /\ Writes(p, SetStatus("destroying"), "container")

\* A container that is not there is no error.
DestroyContainer(p) ==
    /\ At(p, "destroy", "container")
    /\ \/ /\ Exists(job[p].inst.cid)
          /\ RemoveContainer(job[p].inst.cid)
          /\ Goto(p, "volume")
       \/ ~Exists(job[p].inst.cid) /\ UNCHANGED ctr /\ Goto(p, "volume")
       \/ /\ DockerFaults /\ job[p].inst.cid # NoContainer
          /\ UNCHANGED ctr
          /\ Goto(p, "fail")
    /\ UNCHANGED <<vol, dockerFrame>>

DestroyVolume(p) ==
    /\ At(p, "destroy", "volume")
    /\ RemovesVolume(p, job[p].inst.vol, "repo", "fail")

\* A local repository that is not retained goes too; every container of the
\* instance mounts it.
DestroyRepo(p) ==
    /\ At(p, "destroy", "repo")
    /\ \/ Goto(p, "row")
       \/ Refused(Existing = {}) /\ Goto(p, "fail")
    /\ UNCHANGED <<dockerVars, dockerFrame>>

DestroyRow(p) ==
    At(p, "destroy", "row") /\ Writes(p, NoRow, "return")

DestroyFail(p) ==
    At(p, "destroy", "fail") /\ Writes(p, SetStatus("error"), "return")

Destroy(p) ==
    \/ DestroyGet(p) \/ DestroyMark(p) \/ DestroyContainer(p)
    \/ DestroyVolume(p) \/ DestroyRepo(p) \/ DestroyRow(p) \/ DestroyFail(p)

-------------------------------------------------------------------------------
(* Restore, under the mutex.                                                *)

RestoreGet(p) ==
    At(p, "restore", "get") /\ Gets(p, "mark", "fail")

RestoreMark(p) ==
    At(p, "restore", "mark") /\ Writes(p, SetStatus("restoring"), "volume")

\* A staging volume with a name of its own.
RestoreVolume(p) ==
    /\ At(p, "restore", "volume")
    /\ \/ \E v \in Volumes \ {DefaultVolume} :
             /\ vol[v] = "none"
             /\ \A w \in Volumes \ {DefaultVolume} : w < v => vol[w] # "none"
             /\ CreateVolume(v)
             /\ job' = [job EXCEPT ![p].vol = v, ![p].pc = "stop"]
       \/ DockerFaults /\ UNCHANGED vol /\ Goto(p, "fail")
    /\ UNCHANGED <<ctr, dockerFrame>>

RestoreStop(p) ==
    /\ At(p, "restore", "stop")
    /\ Stops(p, job[p].inst.cid, "fill", "fill")

\* The one-shot container: it can only succeed when there is a backup, and
\* may fail whatever there is (an unreachable target, say).
RestoreFill(p) ==
    /\ At(p, "restore", "fill")
    /\ \/ /\ provisioned
          /\ vol' = [vol EXCEPT ![job[p].vol] = "data"]
          /\ Goto(p, "create")
       \/ UNCHANGED vol /\ Goto(p, "undoVolume")
    /\ UNCHANGED <<ctr, dockerFrame>>

\* Password, then the container on the restored volume.
RestoreCreate(p) ==
    /\ At(p, "restore", "create")
    /\ \/ /\ row # NoRow
          /\ Creates(p, job[p].vol, FALSE, job[p].inst.public, "start",
                     "undoVolume")
       \/ Missing /\ Goto(p, "undoVolume") /\ UNCHANGED <<row, rowFrame>>

RestoreStart(p) ==
    /\ At(p, "restore", "start")
    /\ Starts(p, job[p].new, "ready", "undo")

RestoreReady(p) ==
    At(p, "restore", "ready") /\ Execs(p, job[p].new, "commit", "undo")

\* Here an exited container is recorded too, with port 0.
RestoreInspect(p) ==
    /\ At(p, "restore", "commit")
    /\ \/ Exists(job[p].new) /\ Goto(p, "setRuntime")
       \/ Refused(Exists(job[p].new)) /\ Goto(p, "setVolume")
    /\ UNCHANGED <<dockerVars, dockerFrame>>

RestoreSetRuntime(p) ==
    /\ At(p, "restore", "setRuntime")
    /\ Writes(p, SetRuntime(job[p].new), "setVolume")

\* Faulty variant: the swap is not recorded.
SwapUnrecorded(p) ==
    /\ At(p, "restore", "setVolume")
    /\ Goto(p, "dropOld")
    /\ UNCHANGED <<row, rowFrame>>

RestoreSetVolume(p) ==
    /\ At(p, "restore", "setVolume")
    /\ Writes(p, SetDataVolume(job[p].vol), "dropOld")

RestoreDropOld(p) ==
    At(p, "restore", "dropOld") /\ Removes(p, job[p].inst.cid, "dropVolume")

\* Faulty variant: the replaced volume is left in Docker.
OldVolumeKept(p) ==
    /\ At(p, "restore", "dropVolume")
    /\ Goto(p, "done")
    /\ UNCHANGED <<row, rowFrame>>

RestoreDropVolume(p) ==
    /\ At(p, "restore", "dropVolume")
    /\ RemovesVolume(p, job[p].inst.vol, "done", "done")

RestoreDone(p) ==
    At(p, "restore", "done") /\ Writes(p, SetStatus("running"), "unlock")

\* rollbackRestore: remove the new container and volume, restart the old.
RestoreUndo(p) ==
    At(p, "restore", "undo") /\ Removes(p, job[p].new, "undoVolume")

RestoreUndoVolume(p) ==
    /\ At(p, "restore", "undoVolume")
    /\ RemovesVolume(p, job[p].vol, "undoStop", "undoStop")

\* Faulty variant: the original server is not started again.
RollbackLeavesDown(p) ==
    /\ At(p, "restore", "undoStop")
    /\ Goto(p, "undoPort")
    /\ UNCHANGED <<row, rowFrame>>

RestoreUndoStop(p) ==
    /\ At(p, "restore", "undoStop")
    /\ Starts(p, job[p].inst.cid, "undoPort", "undoPort")

RestoreUndoInspect(p) ==
    At(p, "restore", "undoPort") /\ Execs(p, job[p].inst.cid, "undoRow", "fail")

RestoreUndoRow(p) ==
    /\ At(p, "restore", "undoRow")
    /\ Writes(p, SetRuntime(job[p].inst.cid), "fail")

\* Faulty variant: the error is returned but not recorded.
RestoreFailsSilently(p) ==
    /\ At(p, "restore", "fail")
    /\ Goto(p, "unlock")
    /\ UNCHANGED <<row, rowFrame>>

RestoreFail(p) ==
    At(p, "restore", "fail") /\ Writes(p, SetStatus("error"), "unlock")

Restore(p) ==
    \/ RestoreGet(p) \/ RestoreMark(p) \/ RestoreVolume(p) \/ RestoreStop(p)
    \/ RestoreFill(p) \/ RestoreCreate(p) \/ RestoreStart(p)
    \/ RestoreReady(p) \/ RestoreInspect(p) \/ RestoreSetRuntime(p)
    \/ RestoreSetVolume(p)
    \/ RestoreDropOld(p) \/ RestoreDropVolume(p) \/ RestoreDone(p)
    \/ RestoreUndo(p) \/ RestoreUndoVolume(p) \/ RestoreUndoStop(p)
    \/ RestoreUndoInspect(p) \/ RestoreUndoRow(p) \/ RestoreFail(p)

-------------------------------------------------------------------------------
(* SetVisibility, under the mutex.                                          *)

\* Get and its guards: a stable state, and a binding that changes.
VisibilityGet(p) ==
    /\ At(p, "visibility", "get")
    /\ \/ /\ row.status \in {"running", "stopped"}
          /\ row.public # job[p].want
          /\ job' = [job EXCEPT ![p].inst = [row EXCEPT !.public = job[p].want],
                                ![p].pc = "setPublic"]
       \/ /\ \/ row.status \notin {"running", "stopped"}
             \/ row.public = job[p].want
             \/ Missing
          /\ Goto(p, "unlock")
    /\ UNCHANGED <<row, rowFrame>>

\* Only a running instance is recreated.
VisibilitySetPublic(p) ==
    /\ At(p, "visibility", "setPublic")
    /\ \/ /\ Written(SetPublic(job[p].want))
          /\ IF job[p].inst.status = "running" /\ job[p].inst.cid # NoContainer
             THEN Goto(p, "stop")
             ELSE Goto(p, "unlock")
       \/ Missing /\ UNCHANGED row /\ Goto(p, "unlock")
    /\ UNCHANGED rowFrame

\* Password, then StopContainer.
VisibilityStop(p) ==
    /\ At(p, "visibility", "stop")
    /\ \/ row # NoRow /\ Stops(p, job[p].inst.cid, "dropOld", "dropOld")
       \/ Missing /\ Goto(p, "unlock") /\ UNCHANGED <<row, rowFrame>>

\* Faulty variant: the old container is stopped but not removed.
OldContainerKept(p) ==
    /\ At(p, "visibility", "dropOld")
    /\ Goto(p, "create")
    /\ UNCHANGED <<row, rowFrame>>

VisibilityDropOld(p) ==
    At(p, "visibility", "dropOld") /\ Removes(p, job[p].inst.cid, "create")

\* Faulty variant: the replacement has a name of its own.
ReplacementRenamed(p) ==
    /\ At(p, "visibility", "create")
    /\ Creates(p, job[p].inst.vol, FALSE, job[p].want, "record", "revert")

VisibilityCreate(p) ==
    /\ At(p, "visibility", "create")
    /\ Creates(p, job[p].inst.vol, TRUE, job[p].want, "record", "revert")

VisibilityRecord(p) ==
    At(p, "visibility", "record") /\ Writes(p, SetRuntime(job[p].new), "start")

VisibilityStart(p) ==
    /\ At(p, "visibility", "start")
    /\ Starts(p, job[p].new, "ready", "revert")

VisibilityReady(p) ==
    At(p, "visibility", "ready") /\ Execs(p, job[p].new, "port", "fail")

VisibilityInspect(p) ==
    At(p, "visibility", "port") /\ Execs(p, job[p].new, "setPort", "done")

VisibilityPort(p) ==
    /\ At(p, "visibility", "setPort")
    /\ Writes(p, SetRuntime(job[p].new), "done")

\* The three ways a flip that touched the container ends.
VisibilityEnd(p) ==
    /\ job[p].op = "visibility"
    /\ job[p].pc \in {"done", "fail", "giveUp"}
    /\ TryWrite(SetStatus(CASE job[p].pc = "done" -> "running"
                            [] job[p].pc = "fail" -> "error"
                            [] job[p].pc = "giveUp" -> "stopped"))
    /\ Goto(p, "unlock")
    /\ UNCHANGED rowFrame

\* recoverFailedFlip: the old flag, and a container with the old binding.
RecoverSetPublic(p) ==
    /\ At(p, "visibility", "revert")
    /\ Writes(p, SetPublic(~job[p].want), "recreate")

RecoverCreate(p) ==
    /\ At(p, "visibility", "recreate")
    /\ Creates(p, job[p].inst.vol, TRUE, ~job[p].want, "rerecord", "giveUp")

RecoverRecord(p) ==
    /\ At(p, "visibility", "rerecord")
    /\ Writes(p, SetRuntime(job[p].new), "restart")

\* writeConfig is not checked here.
RecoverStart(p) ==
    /\ At(p, "visibility", "restart")
    /\ Starts(p, job[p].new, "port", "giveUp")

Visibility(p) ==
    \/ VisibilityGet(p) \/ VisibilitySetPublic(p) \/ VisibilityStop(p)
    \/ VisibilityDropOld(p) \/ VisibilityCreate(p) \/ VisibilityRecord(p)
    \/ VisibilityStart(p) \/ VisibilityReady(p) \/ VisibilityInspect(p)
    \/ VisibilityPort(p)
    \/ VisibilityEnd(p) \/ RecoverSetPublic(p) \/ RecoverCreate(p)
    \/ RecoverRecord(p) \/ RecoverStart(p)

-------------------------------------------------------------------------------
(* The reconciler: a list of rows, then a list of containers, then one row  *)
(* at a time.                                                               *)

passFrame == <<dockerVars, mutex, job, calls, outages, historyVars>>
EndPass == rec' = NoPass

ReconcileList ==
    /\ rec.pc = "idle"
    /\ row # NoRow
    /\ rec' = [rec EXCEPT !.pc = "scan", !.inst = row]
    /\ UNCHANGED <<row, passFrame>>

\* Of several containers with the instance's label the last one listed wins;
\* helper containers are left out.
ReconcileScan ==
    /\ rec.pc = "scan"
    /\ \/ \E c \in Existing : rec' = [rec EXCEPT !.pc = "one", !.info = c]
       \/ Existing = {} /\ rec' = [rec EXCEPT !.pc = "one"]
       \/ DockerFaults /\ EndPass
    /\ UNCHANGED <<row, passFrame>>

OwnedElsewhere == {"error", "destroying", "restoring", "provisioning"}

ReconcileMissing ==
    /\ rec.pc = "one"
    /\ rec.inst.status \in OwnedElsewhere \/ rec.info = NoContainer
    /\ IF rec.inst.status = "running" THEN TryWrite(SetStatus("error"))
                                      ELSE UNCHANGED row
    /\ EndPass
    /\ UNCHANGED passFrame

ReconcileInspect ==
    /\ rec.pc = "one"
    /\ rec.inst.status \notin OwnedElsewhere /\ rec.info # NoContainer
    /\ \/ /\ Exists(rec.info)
          /\ rec' = [rec EXCEPT !.pc = "adopt", !.running = Running(rec.info)]
       \/ Refused(Exists(rec.info)) /\ EndPass
    /\ UNCHANGED <<row, passFrame>>

\* Faulty variant: the row keeps the container it had.
NeverAdopts ==
    /\ rec.pc = "adopt"
    /\ rec' = [rec EXCEPT !.pc = "status"]
    /\ UNCHANGED <<row, passFrame>>

ReconcileAdopt ==
    /\ rec.pc = "adopt"
    /\ IF rec.inst.cid # rec.info THEN TryWrite(SetRuntime(rec.info))
                                  ELSE UNCHANGED row
    /\ rec' = [rec EXCEPT !.pc = "status"]
    /\ UNCHANGED passFrame

ReconcileStatus ==
    /\ rec.pc = "status"
    /\ LET desired == IF rec.running THEN "running" ELSE "stopped"
       IN  IF rec.inst.status # desired THEN TryWrite(SetStatus(desired))
                                        ELSE UNCHANGED row
    /\ EndPass
    /\ UNCHANGED passFrame

Reconcile ==
    \/ ReconcileList \/ ReconcileScan \/ ReconcileMissing
    \/ ReconcileInspect \/ ReconcileAdopt \/ ReconcileStatus

-------------------------------------------------------------------------------
(* The rest of the world.                                                   *)

\* The process dies and comes back: goroutines and mutex are gone.
Crash ==
    /\ Crashes
    /\ job' = [p \in Procs |-> NoJob]
    /\ mutex' = 0
    /\ EndPass
    /\ UNCHANGED <<row, dockerVars, calls, outages, historyVars>>

\* Postgres dies; Docker restarts it ("unless-stopped").
ContainerExits(c) ==
    /\ outages < MaxOutages
    /\ Running(c)
    /\ ctr' = [ctr EXCEPT ![c].st = "exited"]
    /\ outages' = outages + 1
    /\ UNCHANGED <<row, vol, mutex, job, rec, calls, historyVars>>

DockerRestarts(c) ==
    /\ ctr[c].st = "exited"
    /\ StartContainer(c)
    /\ UNCHANGED <<row, vol, mutex, job, rec, calls, outages, historyVars>>

Handler(p) ==
    \/ Lock(p) \/ Unlock(p)
    \/ Provision(p) \/ Lifecycle(p) \/ Destroy(p) \/ Restore(p)
    \/ Visibility(p)

Next ==
    \/ \E p \in Procs : Handler(p) \/ \E op \in Ops : Request(p, op)
    \/ Reconcile
    \/ Crash
    \/ \E c \in Containers : ContainerExits(c) \/ DockerRestarts(c)

Spec == Init /\ [][Next]_vars

\* Goroutines are scheduled, the reconciler has a ticker, Docker applies its
\* restart policy.
Fairness ==
    /\ \A p \in Procs : WF_vars(Handler(p))
    /\ WF_vars(Reconcile)
    /\ \A c \in Containers : WF_vars(DockerRestarts(c))

FairSpec == Spec /\ Fairness

-------------------------------------------------------------------------------
(* Properties.                                                              *)

Rows == [status : Statuses \cup {"none"}, cid : Containers \cup {NoContainer},
         vol : Volumes, public : BOOLEAN]

\* The shape of the state; a handler past its Lock holds the mutex.
TypeOK ==
    /\ row \in Rows
    /\ ctr \in [Containers -> [st : ContainerStates, vol : Volumes,
                               fixed : BOOLEAN, public : BOOLEAN]]
    /\ vol \in [Volumes -> {"none", "blank", "data", "gone"}]
    /\ mutex \in Procs \cup {0}
    /\ \A p \in Procs :
          /\ job[p].inst \in Rows
          /\ job[p].new \in Containers \cup {NoContainer}
          /\ job[p].vol \in Volumes
          /\ job[p].want \in BOOLEAN
          /\ job[p].op \in {"restore", "visibility"} /\ job[p].pc # "lock"
                <=> mutex = p
    /\ rec.inst \in Rows /\ rec.info \in Containers \cup {NoContainer}
    /\ calls \in 0..MaxCalls /\ outages \in 0..MaxOutages

\* No handler is running.
Quiet == \A p \in Procs : job[p] = NoJob

\* No pass of the reconciler overlaps a handler.
PassesApart == rec = NoPass \/ Quiet

\* Restores and visibility flips never leave the row pointing at a removed or
\* an empty volume: from its first verified start until somebody destroys it,
\* the instance's row names a volume with its data (Restore's swap).
DataKept == provisioned /\ ~doomed => vol[row.vol] = "data"

\* Two Postgres servers never run on one data directory (the teardown and
\* re-creation of SetVisibility, the swap of Restore).
OneServerPerVolume ==
    \A c, d \in Containers :
        Running(c) /\ Running(d) /\ ctr[c].vol = ctr[d].vol => c = d

\* Destroy "removes an instance's container and data volume ... then deletes
\* its row": with the row gone and no handler running, Docker holds nothing of
\* the instance.
NothingLeftBehind ==
    row = NoRow /\ Quiet =>
        Existing = {} /\ \A v \in Volumes : vol[v] \in {"none", "gone"}

\* A restore that gave up has the original server up again (or for Docker to
\* restart) on its data volume, which it did not touch, and has removed its own
\* container and staging volume (rollbackRestore).
RollbackRevives ==
    \A p \in Procs :
        At(p, "restore", "fail") /\ Exists(job[p].inst.cid) =>
            /\ ctr[job[p].inst.cid].st \in {"running", "exited"}
            /\ row.cid = job[p].inst.cid /\ row.vol = job[p].inst.vol
            /\ vol[job[p].vol] = "gone"

\* No instance stays in a transitional state, whichever operations overlap and
\* whichever of their steps Docker refuses: provisioning, restoring and destroying
\* are left again.  This is so while the control plane lives and the meta database
\* takes its writes; nothing resumes an operation that a crash cut short.
TransitionsEnd ==
    []<>(row.status \notin {"provisioning", "restoring", "destroying"})

\* Once requests stop coming the row names the container and says what it does:
\* running for a running one, stopped for a stopped one (the reconciler, in the
\* presence of Start's stale container id).  With two containers the reconciler
\* would follow the one Docker lists last, which may change from pass to pass.
StatusConverges ==
    <>[](row.status \in {"running", "stopped"} /\ Cardinality(Existing) = 1 =>
            (row.status = "running" <=> Running(row.cid)))
=============================================================================
