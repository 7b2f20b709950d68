---------------------------- MODULE BackupCatalog ----------------------------
(***************************************************************************)
(* The backups of one instance: the service that runs pgBackRest in the     *)
(* instance's container (internal/backup), the repository pgBackRest keeps, *)
(* and the catalogue of it in the meta database that the API lists and      *)
(* restores are chosen from.                                                *)
(*                                                                          *)
(* A goroutine is a request (RunWith, Delete or Verify) or the scheduled    *)
(* job (RunScheduled).  A pgBackRest command lives on in the container when *)
(* the control plane that started it dies; the mutex of the service does    *)
(* not.                                                                     *)
(***************************************************************************)
EXTENDS Integers, Sequences, FiniteSets

CONSTANTS
    Requests,     \* goroutines that serve API requests
    Sched,        \* the goroutine of the job "scheduled-backups"
    ScheduledType,\* cfg.BackupType
    Labels,       \* labels pgBackRest can give; used again once forgotten
    RetentionFull,\* repo1-retention-full
    MaxCalls,     \* bound: requests served
    MaxFaults,    \* bound: calls to Docker or to the database that fail
    MaxOutages    \* bound: crashes of the control plane, replaced containers

NoProc == "no process"
NoCommand == [owner |-> NoProc, op |-> "none", arg |-> "full"]

Procs == Requests \cup {Sched}

ASSUME ConstantsAssumption ==
    /\ Sched \notin Requests
    /\ NoProc \notin Procs
    /\ ScheduledType \in {"full", "diff", "incr"}
    /\ RetentionFull \in Nat \ {0}
    /\ MaxCalls \in Nat /\ MaxFaults \in Nat /\ MaxOutages \in Nat

Types == {"full", "diff", "incr"}
Ops == {"run", "delete", "expire", "verify"}

VARIABLES
    repo,       \* the backup sets in the repository, oldest first
    command,    \* the pgBackRest command that holds the stanza's lock
    container,  \* which container the instance has: counts replacements
    up,         \* the row says "running" and that container is running
    catalog,    \* labels with a row in table "backups"
    lock,       \* holder of lockFor(instance)
    pc, op,     \* where each goroutine is, and what it executes
    arg,        \* its backup type or label
    cid,        \* its inst.ContainerID, read by Get
    seen, todo, \* labels in its info output, and those still to upsert
    result,     \* history: how its last operation ended
    calls, faults, outages

locals == <<pc, op, arg, cid, seen, todo, result>>
world == <<repo, command, container, up, catalog>>
bounds == <<calls, faults, outages>>
vars == <<world, lock, locals, bounds>>

Backups == [label : Labels, type : Types]
LabelsOf(s) == {s[i].label : i \in DOMAIN s}

(* The places between Lock and the deferred Unlock.                         *)
Locked == {"exec", "running", "info", "upsert", "prune"}

(* Every variable has its type, and a goroutine holds the instance's mutex  *)
(* exactly from lock.Lock() to its return, however it returns               *)
(* (backup.go:125-127, 166-168, 263-265, 288-290).                          *)
TypeOK ==
    /\ repo \in Seq(Backups)
    /\ command \in [owner : Procs \cup {NoProc}, op : Ops \cup {"none"},
                    arg : Types \cup Labels]
    /\ container \in Nat /\ up \in BOOLEAN
    /\ catalog \subseteq Labels
    /\ lock \in Procs \cup {NoProc}
    /\ pc \in [Procs -> {"idle", "get", "lock"} \cup Locked]
    /\ op \in [Procs -> Ops]
    /\ arg \in [Procs -> Types \cup Labels]
    /\ cid \in [Procs -> Nat]
    /\ seen \in [Procs -> SUBSET Labels]
    /\ todo \in [Procs -> SUBSET Labels]
    /\ result \in [Procs -> {"none", "ok", "failed"}]
    /\ calls \in 0 .. MaxCalls
    /\ faults \in 0 .. MaxFaults
    /\ outages \in 0 .. MaxOutages
    /\ \A p \in Procs : pc[p] \in Locked <=> lock = p

Init ==
    /\ repo = <<>> /\ command = NoCommand /\ container = 0 /\ up = TRUE
    /\ catalog = {} /\ lock = NoProc
    /\ pc = [p \in Procs |-> "idle"] /\ op = [p \in Procs |-> "verify"]
    /\ arg = [p \in Procs |-> ScheduledType] /\ cid = [p \in Procs |-> 0]
    /\ seen = [p \in Procs |-> {}] /\ todo = [p \in Procs |-> {}]
    /\ result = [p \in Procs |-> "none"]
    /\ calls = 0 /\ faults = 0 /\ outages = 0

-----------------------------------------------------------------------------
(* pgBackRest, as the service uses it.                                      *)

(* The sets built on set i: up to the next full one, and for a set that is  *)
(* not full itself only up to the next differential one.                    *)
Dependents(s, i) ==
    {j \in i + 1 .. Len(s) :
        \A k \in i + 1 .. j : \/ s[k].type = "incr"
                              \/ s[k].type = "diff" /\ s[i].type = "full"}

Fulls(s) == {i \in DOMAIN s : s[i].type = "full"}

(* What remains of s without the sets at the given places.                  *)
Without(s, gone) == [n \in 1 .. Len(s) - Cardinality(gone) |->
    s[CHOOSE i \in DOMAIN s \ gone :
        Cardinality({j \in DOMAIN s \ gone : j <= i}) = n]]

(* expire: only the newest RetentionFull full sets, with what was built on  *)
(* them, stay.                                                              *)
Expired(s) ==
    LET kept == {i \in Fulls(s) :
                    Cardinality({j \in Fulls(s) : j >= i}) <= RetentionFull}
    IN  Without(s, {i \in DOMAIN s : \A k \in kept : i < k})

(* expire --set: the set and its dependents go, unless no full set would be *)
(* left or there is no such set.                                            *)
ExpireSetGone(s, l) ==
    UNION {{i} \cup Dependents(s, i) : i \in {j \in DOMAIN s : s[j].label = l}}

CanExpireSet(s, l) ==
    /\ l \in LabelsOf(s)
    /\ Fulls(s) \ ExpireSetGone(s, l) # {}

(* backup: a first set is full whatever was asked for; expire follows.      *)
BackedUp(s, l, type) ==
    Expired(Append(s, [label |-> l, type |-> IF s = <<>> THEN "full" ELSE type]))

(* Labels are dates: no label that is known anywhere is given again.        *)
Unused == Labels \ (LabelsOf(repo) \cup catalog \cup UNION {seen[p] : p \in Procs}
                      \cup {arg[p] : p \in {q \in Procs : pc[q] # "idle"}})

(* A command can succeed.                                                   *)
Feasible(c) == CASE c.op = "run" -> Unused # {}
                 [] c.op = "delete" -> CanExpireSet(repo, c.arg)
                 [] OTHER -> TRUE

(* What the repository is after the command.                                *)
Effect(c) ==
    CASE c.op = "run" -> BackedUp(repo, CHOOSE l \in Unused : TRUE, c.arg)
      [] c.op = "delete" -> Without(repo, ExpireSetGone(repo, c.arg))
      [] OTHER -> Expired(repo)

-----------------------------------------------------------------------------
(* Ends of an operation, and what every step of one shares.                 *)

Fault == faults < MaxFaults /\ faults' = faults + 1

(* The deferred Unlock.                                                     *)
Unlock(p) == lock' = IF lock = p THEN NoProc ELSE lock

Goto(p, place) == pc' = [pc EXCEPT ![p] = place]

(* The locals of a call are gone when it returns.                           *)
Forget(p) ==
    /\ seen' = [seen EXCEPT ![p] = {}]
    /\ todo' = [todo EXCEPT ![p] = {}]

(* Mutant of Fails: an early return that keeps the mutex.                   *)
FailsLocked(p) ==
    /\ Goto(p, "idle") /\ Forget(p)
    /\ result' = [result EXCEPT ![p] = "failed"]
    /\ UNCHANGED <<lock, op>>

(* return err: RunScheduled goes on to the next instance, without Expire.   *)
Fails(p) ==
    /\ Goto(p, "idle") /\ Unlock(p) /\ Forget(p)
    /\ result' = [result EXCEPT ![p] = "failed"]
    /\ UNCHANGED op

(* return nil: after its Run, RunScheduled calls Expire.                    *)
Succeeds(p) ==
    /\ Unlock(p) /\ Forget(p)
    /\ result' = [result EXCEPT ![p] = "ok"]
    /\ IF p = Sched /\ op[p] = "run"
       THEN Goto(p, "get") /\ op' = [op EXCEPT ![p] = "expire"]
       ELSE Goto(p, "idle") /\ UNCHANGED op

Continues(p, place) == Goto(p, place) /\ UNCHANGED <<lock, op, result>>

-----------------------------------------------------------------------------
(* The service.                                                             *)

(* The endpoints; an empty label or an unknown type is refused at once.      *)
Request(p) ==
    /\ p \in Requests /\ pc[p] = "idle"
    /\ calls < MaxCalls /\ calls' = calls + 1
    /\ \/ \E t \in Types : /\ op' = [op EXCEPT ![p] = "run"]
                            /\ arg' = [arg EXCEPT ![p] = t]
       \/ \E l \in Labels : /\ op' = [op EXCEPT ![p] = "delete"]
                             /\ arg' = [arg EXCEPT ![p] = l]
       \/ op' = [op EXCEPT ![p] = "verify"] /\ UNCHANGED arg
    /\ Goto(p, "get")
    /\ result' = [result EXCEPT ![p] = "none"]
    /\ UNCHANGED <<world, lock, cid, seen, todo, faults, outages>>

(* RunScheduled: an instance that is not running is passed over.            *)
RunScheduled ==
    /\ pc[Sched] = "idle" /\ up
    /\ op' = [op EXCEPT ![Sched] = "run"]
    /\ Goto(Sched, "get")
    /\ result' = [result EXCEPT ![Sched] = "none"]
    /\ UNCHANGED <<world, lock, arg, cid, seen, todo, bounds>>

(* s.instances.Get, before the lock.                                        *)
Get(p) ==
    /\ pc[p] = "get"
    /\ \/ /\ cid' = [cid EXCEPT ![p] = container]
          /\ Continues(p, "lock")
          /\ UNCHANGED <<seen, todo, faults>>
       \/ Fault /\ Fails(p) /\ UNCHANGED cid
    /\ UNCHANGED <<world, arg, calls, outages>>

Lock(p) ==
    /\ pc[p] = "lock" /\ lock = NoProc
    /\ lock' = p
    /\ Goto(p, "exec")
    /\ UNCHANGED <<world, op, arg, cid, seen, todo, result, bounds>>

Reachable(p) == up /\ cid[p] = container

(* execOK begins: pgBackRest refuses a second command on the stanza.        *)
ExecStart(p) ==
    /\ pc[p] = "exec" /\ op[p] # "verify"
    /\ IF Reachable(p) /\ command = NoCommand
       THEN /\ command' = [owner |-> p, op |-> op[p], arg |-> arg[p]]
            /\ Continues(p, "running") /\ UNCHANGED <<seen, todo>>
       ELSE Fails(p) /\ UNCHANGED command
    /\ UNCHANGED <<repo, container, up, catalog, arg, cid, bounds>>

(* verify reads the repository and takes no lock of it.                     *)
ExecVerify(p) ==
    /\ pc[p] = "exec" /\ op[p] = "verify"
    /\ \/ Reachable(p) /\ Succeeds(p) /\ UNCHANGED faults
       \/ ~Reachable(p) /\ Fails(p) /\ UNCHANGED faults
       \/ Fault /\ Fails(p)
    /\ UNCHANGED <<world, arg, cid, calls, outages>>

(* The command did its work; execOK of the goroutine that started it, if    *)
(* that is still there, returns nil.                                        *)
CommandSucceeds ==
    /\ command # NoCommand /\ Feasible(command)
    /\ command' = NoCommand /\ repo' = Effect(command)
    /\ IF command.owner = NoProc THEN UNCHANGED <<lock, pc, op, result>>
                                 ELSE Continues(command.owner, "info")
    /\ UNCHANGED <<container, up, catalog, arg, cid, seen, todo, bounds>>

(* It did its work, but its exit status is lost (ContainerExecInspect, or   *)
(* the request's context, fails).                                           *)
ReplyLost ==
    /\ command # NoCommand /\ Feasible(command) /\ command.owner # NoProc
    /\ Fault
    /\ command' = NoCommand /\ repo' = Effect(command)
    /\ Fails(command.owner)
    /\ UNCHANGED <<container, up, catalog, arg, cid, calls, outages>>

(* It exits with an error and has changed nothing.                          *)
CommandFails ==
    /\ command # NoCommand
    /\ \/ ~Feasible(command) /\ UNCHANGED faults
       \/ Fault
    /\ command' = NoCommand
    /\ IF command.owner = NoProc THEN UNCHANGED <<lock, pc, op, result, seen, todo>>
                                 ELSE Fails(command.owner)
    /\ UNCHANGED <<repo, container, up, catalog, arg, cid, calls, outages>>

(* Its container went down under it.                                        *)
ExecLost(p) ==
    /\ pc[p] = "running" /\ command = NoCommand
    /\ Fails(p)
    /\ UNCHANGED <<world, arg, cid, bounds>>

(* What "info" may answer for the stanza: the truth, where a repository     *)
(* without a set has a status other than ok; or, when the repository cannot *)
(* be read, no such stanza, or one with an error status and no sets.        *)
Truth == [found |-> TRUE, healthy |-> repo # <<>>, labels |-> LabelsOf(repo)]
Unreadable == {[found |-> FALSE, healthy |-> FALSE, labels |-> {}],
               [found |-> TRUE, healthy |-> FALSE, labels |-> {}]}

(* Mutant of Credible: a stanza that is there is believed.                  *)
FoundIsCredible(answer) == answer.found

(* The answer sync goes on with.                                            *)
Credible(answer) ==
    /\ answer.found
    /\ answer.healthy \/ answer.labels # {}

(* sync: exec info and decide whether to believe it.                        *)
Learns(p, answer) ==
    IF Credible(answer)
    THEN /\ seen' = [seen EXCEPT ![p] = answer.labels]
         /\ todo' = [todo EXCEPT ![p] = answer.labels]
         /\ Continues(p, "upsert")
    ELSE Fails(p)

SyncInfo(p) ==
    /\ pc[p] = "info"
    /\ \/ Reachable(p) /\ Learns(p, Truth) /\ UNCHANGED faults
       \/ Reachable(p) /\ Fault /\ \E a \in Unreadable : Learns(p, a)
       \/ ~Reachable(p) /\ Fails(p) /\ UNCHANGED faults
    /\ UNCHANGED <<world, arg, cid, calls, outages>>

(* Mutant of SyncUpsert: rows are updated and never inserted.               *)
UpdatesOnly(p) ==
    /\ pc[p] = "upsert"
    /\ Continues(p, "prune")
    /\ todo' = [todo EXCEPT ![p] = {}]
    /\ UNCHANGED <<world, arg, cid, seen, bounds>>

(* sync: one Catalog.Upsert; their order does not matter.                   *)
SyncUpsert(p) ==
    /\ pc[p] = "upsert"
    /\ \/ \E l \in todo[p] :
             /\ catalog' = catalog \cup {l}
             /\ todo' = [todo EXCEPT ![p] = @ \ {l}]
             /\ Continues(p, "upsert") /\ UNCHANGED <<seen, faults>>
       \/ /\ todo[p] = {}
          /\ Continues(p, "prune")
          /\ UNCHANGED <<catalog, seen, todo, faults>>
       \/ todo[p] # {} /\ Fault /\ Fails(p) /\ UNCHANGED catalog
    /\ UNCHANGED <<repo, command, container, up, arg, cid, calls, outages>>

(* Mutant of SyncPrune: Delete removes the one row it was asked for.        *)
PrunesOneLabel(p) ==
    /\ pc[p] = "prune"
    /\ catalog' = IF op[p] = "delete" THEN catalog \ {arg[p]} ELSE catalog \cap seen[p]
    /\ Succeeds(p)
    /\ UNCHANGED <<repo, command, container, up, arg, cid, bounds>>

(* sync: Catalog.Prune.                                                     *)
SyncPrune(p) ==
    /\ pc[p] = "prune"
    /\ \/ catalog' = catalog \cap seen[p] /\ Succeeds(p) /\ UNCHANGED faults
       \/ Fault /\ Fails(p) /\ UNCHANGED catalog
    /\ UNCHANGED <<repo, command, container, up, arg, cid, calls, outages>>

-----------------------------------------------------------------------------
(* What happens to the service and to the instance.                         *)

Outage == outages < MaxOutages /\ outages' = outages + 1

(* The control plane dies and starts again: its goroutines and its mutex    *)
(* are new, the command goes on.                                            *)
Crash ==
    /\ Outage
    /\ pc' = [p \in Procs |-> "idle"]
    /\ lock' = NoProc
    /\ command' = [command EXCEPT !.owner = NoProc]
    /\ result' = [p \in Procs |-> "none"]
    /\ seen' = [p \in Procs |-> {}] /\ todo' = [p \in Procs |-> {}]
    /\ cid' = [p \in Procs |-> 0]
    /\ UNCHANGED <<repo, container, up, catalog, op, arg, calls, faults>>

(* A stop, a restore or a flip takes the container down, with the command   *)
(* in it ...                                                                *)
InstanceDown ==
    /\ up /\ Outage
    /\ up' = FALSE /\ command' = NoCommand
    /\ UNCHANGED <<repo, container, catalog, lock, locals, calls, faults>>

(* ... and it comes back, or another one in its place.                      *)
InstanceBack ==
    /\ ~up
    /\ up' = TRUE /\ container' \in {container, container + 1}
    /\ UNCHANGED <<repo, command, catalog, lock, locals, bounds>>

-----------------------------------------------------------------------------
Works(p) ==
    \/ Get(p) \/ Lock(p) \/ ExecStart(p) \/ ExecVerify(p) \/ ExecLost(p)
    \/ SyncInfo(p) \/ SyncUpsert(p) \/ SyncPrune(p)

PgBackRest == CommandSucceeds \/ ReplyLost \/ CommandFails

Next ==
    \/ \E p \in Procs : Request(p) \/ Works(p)
    \/ RunScheduled \/ PgBackRest
    \/ Crash \/ InstanceDown \/ InstanceBack

Spec == Init /\ [][Next]_vars

(* Goroutines and commands that can go on do, the job's ticker ticks, and a *)
(* stop or restore that took the instance down ends.                        *)
FairSpec ==
    /\ Spec
    /\ \A p \in Procs : WF_vars(Works(p))
    /\ WF_vars(RunScheduled) /\ WF_vars(PgBackRest) /\ WF_vars(InstanceBack)

-----------------------------------------------------------------------------
(* An operation that syncs and reports success leaves exactly the           *)
(* repository's sets in the catalogue: no phantom restore point after a     *)
(* delete that took dependents along, none missing after a backup           *)
(* (backup.go:173-177), whoever else was working, and whatever a crashed    *)
(* predecessor left running in the container.                               *)
SyncExact ==
    [][\A p \in Procs :
          /\ result[p] # "ok" /\ result'[p] = "ok" /\ op[p] # "verify"
          => catalog' = LabelsOf(repo')]_vars

(* No step drops the row of a backup that is still in the repository:       *)
(* neither an unreadable repository (backup.go:217-231) nor a row list that *)
(* is old when Prune uses it hides a set that could be restored.            *)
NeverHides ==
    [][\A l \in catalog : l \in LabelsOf(repo) /\ l \in LabelsOf(repo')
                            => l \in catalog']_vars

(* However an operation, the process or the container broke off, the        *)
(* scheduled job brings the catalogue back to what the repository holds     *)
(* (scheduled.go:17-38).                                                    *)
CatalogConverges == []<>(catalog = LabelsOf(repo) /\ repo # <<>>)
=============================================================================
