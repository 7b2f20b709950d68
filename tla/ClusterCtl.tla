----------------------------- MODULE ClusterCtl -----------------------------
(***************************************************************************)
(* The life of one cluster: the request that creates its rows, the task    *)
(* that provisions primary, replicas and router, and the request that      *)
(* destroys it all, each a sequence of database and Docker calls that may  *)
(* interleave with the others.                                             *)
(***************************************************************************)
EXTENDS Naturals, FiniteSetsExt

CONSTANTS
    Replicas,       \* how many
    MaxFailures     \* bound: calls that fail

ASSUME ReplicasAssumption == Replicas \in Nat

VARIABLES
    row,            \* the cluster's row
    members,        \* the rows of its instances
    containers,     \* members whose container exists
    volumes,        \* members whose data volume exists
    slots,          \* replicas with a replication slot on the primary
    router,         \* the members the router serves, once its container exists
    create,         \* progress of Create; alive tells its context
    prov,           \* progress of Provision
    destroy,        \* progress of Destroy
    overlap,        \* history: Destroy ran before Create and Provision had ended
    lost,           \* history: what a call whose error is dropped left behind
    failures

clusters == <<row, members, containers, volumes, slots, router, create, prov, destroy,
          overlap, lost, failures>>

rows == <<row, members>>
docker == <<containers, volumes, slots, router>>

Primary == 0
Members == 0 .. Replicas            \* in the order of ListByCluster
NoRow == [status |-> "absent", primary |-> FALSE, router |-> FALSE]
NoRouter == [exists |-> FALSE, serves |-> {}]

Failure == failures < MaxFailures /\ failures' = failures + 1

\* An UPDATE touches a row that exists and is an error otherwise.
SetStatus(status) ==
    row' = IF row = NoRow THEN row ELSE [row EXCEPT !.status = status]

SetMember(m, field, value) ==
    members' = [n \in DOMAIN members |->
                  IF n = m THEN [members[n] EXCEPT ![field] = value] ELSE members[n]]

ClustersInit ==
    /\ row = NoRow /\ members = [m \in {} |-> {}]
    /\ containers = {} /\ volumes = {} /\ slots = {} /\ router = NoRouter
    /\ create = [at |-> "start", next |-> Primary, alive |-> TRUE]
    /\ prov = [at |-> "start", on |-> Primary]
    /\ destroy = [at |-> "none", todo |-> {}, router |-> FALSE, has |-> FALSE]
    /\ overlap = FALSE /\ lost = {} /\ failures = 0
-----------------------------------------------------------------------------
InsertCluster ==
    /\ create.at = "start"
    /\ row' = [NoRow EXCEPT !.status = "provisioning"]
    /\ create' = [create EXCEPT !.at = "members"]
    /\ UNCHANGED <<members, docker, prov, destroy, overlap, lost, failures>>

\* A member whose name is taken, whose cluster is gone or whose request has ended
\* is not inserted.
InsertMember ==
    /\ create.at = "members"
    /\ \/ /\ create.alive /\ row # NoRow
          /\ members' = [m \in DOMAIN members \cup {create.next} |->
                IF m = create.next THEN [status |-> "provisioning", runtime |-> FALSE]
                                   ELSE members[m]]
          /\ create' = [create EXCEPT !.next = @ + 1,
                                      !.at = IF create.next = Replicas THEN "done" ELSE "members"]
          /\ UNCHANGED failures
       \/ /\ ~create.alive \/ row = NoRow
          /\ create' = [create EXCEPT !.at = "rollback"] /\ UNCHANGED <<members, failures>>
       \/ Failure /\ create' = [create EXCEPT !.at = "rollback"] /\ UNCHANGED members
    /\ UNCHANGED <<row, docker, prov, destroy, overlap, lost>>

RollbackForgotten ==
    /\ create.at = "rollback"
    /\ create' = [create EXCEPT !.at = "failed"]
    /\ UNCHANGED <<rows, docker, prov, destroy, overlap, lost, failures>>

\* Deleting the cluster deletes its members: one statement, made with the context
\* of the request, whose error is dropped.
Rollback ==
    /\ create.at = "rollback"
    /\ create' = [create EXCEPT !.at = "failed"]
    /\ \/ create.alive /\ row' = NoRow /\ members' = [m \in {} |-> {}] /\ UNCHANGED <<lost, failures>>
       \/ ~create.alive /\ lost' = lost \cup {"rows"} /\ UNCHANGED <<rows, failures>>
       \/ Failure /\ lost' = lost \cup {"rows"} /\ UNCHANGED rows
    /\ UNCHANGED <<docker, prov, destroy, overlap>>

\* The client of the create request goes away.
Disconnect ==
    /\ create.at \in {"members", "rollback"} /\ create.alive
    /\ create' = [create EXCEPT !.alive = FALSE]
    /\ UNCHANGED <<rows, docker, prov, destroy, overlap, lost, failures>>
-----------------------------------------------------------------------------
ProvStep(from) ==
    prov.at = from /\ UNCHANGED <<create, destroy, overlap>>

ProvisionAt(at) == prov' = [prov EXCEPT !.at = at]

\* provision reads the members once; the first of them must be the primary.
ProvBegin ==
    /\ create.at = "done" /\ ProvStep("start")
    /\ \/ /\ ProvisionAt(IF row # NoRow /\ Primary \in DOMAIN members THEN "volume" ELSE "fail")
          /\ UNCHANGED failures
       \/ Failure /\ ProvisionAt("fail")
    /\ UNCHANGED <<rows, docker, lost>>

\* provision and provisionReplica up to the volume.  A replica's slot is made
\* first, by a command in the primary's container: where that fails nothing is
\* undone, not even a slot the command made before it failed.
ProvVolume ==
    LET m == prov.on
        slot == {m} \ {Primary}
        able == m \in DOMAIN members /\ (m # Primary => Primary \in containers)
        fails == ProvisionAt("mark") /\ UNCHANGED volumes
    IN  /\ ProvStep("volume")
        /\ \/ /\ able /\ ProvisionAt("container")
              /\ volumes' = volumes \cup {m} /\ slots' = slots \cup slot
              /\ UNCHANGED <<lost, failures>>
           \/ ~able /\ fails /\ UNCHANGED <<slots, lost, failures>>
           \/ able /\ Failure /\ fails /\ UNCHANGED <<slots, lost>>
           \/ /\ able /\ slot # {} /\ Failure /\ fails
              /\ slots' = slots \cup slot /\ lost' = lost \cup {"slot"}
           \/ /\ able /\ Failure /\ ProvisionAt("undo")
              /\ slots' = slots \cup slot /\ UNCHANGED <<volumes, lost>>
        /\ UNCHANGED <<rows, containers, router>>

\* Docker makes a volume that is missing by the time the container is created.
\* An error of the first SetRuntime is dropped, since another one follows.
ProvContainer ==
    /\ ProvStep("container")
    /\ \/ /\ containers' = containers \cup {prov.on} /\ volumes' = volumes \cup {prov.on}
          /\ ProvisionAt("ready")
          /\ \/ SetMember(prov.on, "runtime", TRUE) /\ UNCHANGED failures
             \/ Failure /\ UNCHANGED members
       \/ Failure /\ ProvisionAt("undo") /\ UNCHANGED <<containers, volumes, members>>
    /\ UNCHANGED <<row, slots, router, lost>>

\* SetRuntime finds a row that is gone; waiting needs the server and, for a
\* replica, the primary it streams from.
ProvReady ==
    LET able == prov.on \in DOMAIN members /\ {prov.on, Primary} \subseteq containers
    IN  /\ ProvStep("ready")
        /\ \/ able /\ ProvisionAt("running") /\ SetMember(prov.on, "runtime", TRUE) /\ UNCHANGED failures
           \/ ~able /\ ProvisionAt("undo") /\ UNCHANGED <<members, failures>>
           \/ Failure /\ ProvisionAt("undo") /\ UNCHANGED members
        /\ UNCHANGED <<row, docker, lost>>

\* The deferred cleanup of a member that failed, call by call; their errors are
\* dropped.  The container first, where one was created ...
UndoContainer ==
    /\ ProvStep("undo") /\ ProvisionAt("unvolume")
    /\ \/ containers' = containers \ {prov.on} /\ UNCHANGED <<lost, failures>>
       \/ /\ prov.on \in containers /\ Failure
          /\ lost' = lost \cup {"container"} /\ UNCHANGED containers
    /\ UNCHANGED <<rows, volumes, slots, router>>

\* ... then its volume, which Docker keeps as long as a container mounts it ...
UndoVolume ==
    /\ ProvStep("unvolume") /\ ProvisionAt("unslot")
    /\ \/ volumes' = volumes \ ({prov.on} \ containers) /\ UNCHANGED failures
       \/ Failure /\ UNCHANGED volumes
    /\ UNCHANGED <<rows, containers, slots, router, lost>>

UndoKeepsSlot ==
    /\ ProvStep("unslot") /\ ProvisionAt("mark")
    /\ UNCHANGED <<rows, docker, lost, failures>>

\* ... then a replica's slot, by a command in the primary's container, which is
\* refused while the replica streams ...
UndoSlot ==
    LET m == prov.on
    IN  /\ ProvStep("unslot") /\ ProvisionAt("mark")
        /\ \/ m = Primary /\ UNCHANGED <<slots, lost, failures>>
           \/ Primary \in containers /\ slots' = slots \ {m} /\ UNCHANGED <<lost, failures>>
           \/ m \in containers /\ UNCHANGED <<slots, lost, failures>>
           \/ /\ m # Primary /\ lost' = lost \cup {"slot"} /\ UNCHANGED slots
              /\ Failure \/ (Primary \notin containers /\ UNCHANGED failures)
        /\ UNCHANGED <<rows, containers, volumes, router>>

\* ... and the member's status.
ProvMark ==
    /\ ProvStep("mark") /\ ProvisionAt("fail")
    /\ \/ SetMember(prov.on, "status", "error") /\ UNCHANGED failures
       \/ Failure /\ UNCHANGED members
    /\ UNCHANGED <<row, docker, lost>>

RouterAtOnce(m) == ProvisionAt("router")

NextMember(m) ==
    IF m < Replicas THEN prov' = [at |-> "volume", on |-> m + 1] ELSE ProvisionAt("router")

\* The member is running, and the primary is recorded; a failure here undoes
\* nothing.
ProvRunning ==
    LET m == prov.on
        able == m \in DOMAIN members /\ (m = Primary => row # NoRow)
    IN  /\ ProvStep("running")
        /\ \/ able /\ NextMember(m) /\ UNCHANGED failures
              /\ SetMember(m, "status", "running")
              /\ row' = [row EXCEPT !.primary = @ \/ m = Primary]
           \/ /\ ~able /\ ProvisionAt("fail") /\ SetMember(m, "status", "running")
              /\ UNCHANGED <<row, failures>>
           \/ Failure /\ ProvisionAt("fail") /\ UNCHANGED row
              /\ (SetMember(m, "status", "running") \/ UNCHANGED members)
        /\ UNCHANGED <<docker, lost>>

\* The password is read from the primary's row; StartRouter serves the members
\* that were provisioned.
CreateRouter ==
    /\ ProvStep("router")
    /\ \/ /\ Primary \in DOMAIN members
          /\ router' = [exists |-> TRUE, serves |-> 0 .. prov.on]
          /\ ProvisionAt("inspect") /\ UNCHANGED failures
       \/ Primary \notin DOMAIN members /\ ProvisionAt("fail") /\ UNCHANGED <<router, failures>>
       \/ Failure /\ ProvisionAt("fail") /\ UNCHANGED router
    /\ UNCHANGED <<rows, containers, volumes, slots, lost>>

\* It is started and inspected, for its port.
InspectRouter ==
    /\ ProvStep("inspect")
    /\ \/ ProvisionAt("record") /\ UNCHANGED failures
       \/ Failure /\ ProvisionAt("unroute")
    /\ UNCHANGED <<rows, docker, lost>>

RouterStays ==
    /\ ProvStep("unroute") /\ ProvisionAt("fail")
    /\ UNCHANGED <<rows, docker, lost, failures>>

\* One that does not start or cannot be inspected is removed by a deferred call,
\* whose error is dropped.
RemoveRouter ==
    /\ ProvStep("unroute") /\ ProvisionAt("fail")
    /\ \/ router' = NoRouter /\ UNCHANGED <<lost, failures>>
       \/ Failure /\ lost' = lost \cup {"router"} /\ UNCHANGED router
    /\ UNCHANGED <<rows, containers, volumes, slots>>

\* Nothing knows of a router that SetRouter did not record.
SetRouter ==
    /\ ProvStep("record")
    /\ \/ row # NoRow /\ row' = [row EXCEPT !.router = TRUE] /\ ProvisionAt("succeed")
          /\ UNCHANGED <<lost, failures>>
       \/ row = NoRow /\ ProvisionAt("fail") /\ lost' = lost \cup {"router"} /\ UNCHANGED <<row, failures>>
       \/ Failure /\ ProvisionAt("fail") /\ lost' = lost \cup {"router"} /\ UNCHANGED row
    /\ UNCHANGED <<members, docker>>

ProvEndsWell ==
    /\ prov.at \in {"succeed", "fail"} /\ ProvisionAt("done") /\ SetStatus("running")
    /\ UNCHANGED <<members, docker, create, destroy, overlap, lost, failures>>

\* The cluster's status, written with the context of the task.
ProvEnd ==
    /\ prov.at \in {"succeed", "fail"} /\ ProvisionAt("done")
    /\ \/ SetStatus(IF prov.at = "succeed" THEN "running" ELSE "error") /\ UNCHANGED <<lost, failures>>
       \/ Failure /\ lost' = lost \cup {"status"} /\ UNCHANGED row
    /\ UNCHANGED <<members, docker, create, destroy, overlap>>
-----------------------------------------------------------------------------
DestroyStep(from) ==
    destroy.at = from /\ UNCHANGED <<create, prov>>

Again == [destroy EXCEPT !.at = "failed"]

\* Destroy reads the row, router included, before it marks it; an error of the
\* mark is dropped.
DestroyBegin ==
    /\ destroy.at \in {"none", "failed"} /\ row # NoRow
    /\ destroy' = [destroy EXCEPT !.at = "router", !.router = row.router]
    /\ \/ SetStatus("destroying") /\ UNCHANGED <<lost, failures>>
       \/ Failure /\ lost' = lost \cup {"mark"} /\ UNCHANGED row
    /\ overlap' = (overlap \/ create.at \in {"members", "rollback"}
                           \/ (create.at = "done" /\ prov.at # "done"))
    /\ UNCHANGED <<members, docker, create, prov>>

\* The router's removal may fail unnoticed; then the members are listed, and
\* where that fails Destroy may be asked for again.
DestroyRouter ==
    LET listed == destroy' = [destroy EXCEPT !.at = "member", !.todo = DOMAIN members,
                      !.has = Primary \in DOMAIN members /\ members[Primary].runtime]
        removed == router' = IF destroy.router THEN NoRouter ELSE router
    IN  /\ DestroyStep("router")
        /\ \/ removed /\ listed /\ UNCHANGED <<lost, failures>>
           \/ removed /\ Failure /\ destroy' = Again /\ UNCHANGED lost
           \/ /\ destroy.router /\ Failure /\ listed
              /\ lost' = lost \cup {"router"} /\ UNCHANGED router
        /\ UNCHANGED <<rows, containers, volumes, slots, overlap>>

\* The replica still streams when its slot is dropped, and PostgreSQL keeps a slot
\* in use; the error is dropped too.  The slots go with the primary's volume.
Recorded(m) == {n \in DOMAIN members \cap {m} : members[n].runtime}

SlotsWithout(m) ==
    IF destroy.has /\ Primary \in containers /\ m \notin containers THEN slots \ {m} ELSE slots

Remove(m) ==
    /\ containers' = containers \ Recorded(m)
    /\ volumes' = volumes \ {m}
    /\ slots' = IF m = Primary THEN {} ELSE SlotsWithout(m)
    /\ members' = [n \in DOMAIN members \ {m} |-> members[n]]

\* The members that were listed, the primary last.  A row that is gone and a
\* volume in use are errors: Destroy gives up, and may be asked for again.
DestroyMember ==
    LET m == Max(destroy.todo)
        able == m \in DOMAIN members /\ (m \in containers => members[m].runtime)
        fails == /\ destroy' = Again
                 /\ SetStatus("error") \/ UNCHANGED row
                 /\ SetMember(m, "status", "error")
    IN  /\ DestroyStep("member")
        /\ \/ /\ destroy.todo = {} /\ destroy' = [destroy EXCEPT !.at = "delete"]
              /\ UNCHANGED <<rows, containers, volumes, slots, failures>>
           \/ /\ destroy.todo # {} /\ able
              /\ Remove(m) /\ destroy' = [destroy EXCEPT !.todo = @ \ {m}]
              /\ UNCHANGED <<row, failures>>
           \/ /\ destroy.todo # {} /\ ~able /\ fails
              /\ slots' = SlotsWithout(m) /\ UNCHANGED <<containers, volumes, failures>>
           \/ /\ destroy.todo # {} /\ Failure /\ fails
              /\ \/ /\ containers' \in {containers, containers \ Recorded(m)}
                    /\ slots' = SlotsWithout(m) /\ UNCHANGED volumes
                 \/ /\ containers' = containers \ Recorded(m) /\ m \notin containers'
                    /\ volumes' = volumes \ {m}
                    /\ slots' = IF m = Primary THEN {} ELSE SlotsWithout(m)
        /\ UNCHANGED <<router, overlap, lost>>

DestroyRow ==
    /\ DestroyStep("delete")
    /\ \/ row' = NoRow /\ members' = [m \in {} |-> {}] /\ UNCHANGED failures
          /\ destroy' = [destroy EXCEPT !.at = "done"]
       \/ Failure /\ destroy' = Again /\ UNCHANGED rows
    /\ UNCHANGED <<docker, overlap, lost>>

\* ConnectionDSN hands out the router's port with the primary's credentials.
ConnectionDSN == row.router /\ Primary \in DOMAIN members

Create == InsertCluster \/ InsertMember \/ Rollback

Provision ==
    \/ ProvBegin \/ ProvVolume \/ ProvContainer \/ ProvReady \/ ProvRunning
    \/ UndoContainer \/ UndoVolume \/ UndoSlot \/ ProvMark
    \/ CreateRouter \/ InspectRouter \/ RemoveRouter \/ SetRouter \/ ProvEnd

Destroy == DestroyBegin \/ DestroyRouter \/ DestroyMember \/ DestroyRow

ClustersNext == Create \/ Disconnect \/ Provision \/ Destroy

ClustersSpec == ClustersInit /\ [][ClustersNext]_clusters
-----------------------------------------------------------------------------
ClustersTypeOK ==
    /\ row.status \in {"absent", "provisioning", "running", "error", "destroying"}
    /\ DOMAIN members \subseteq Members /\ containers \subseteq Members
    /\ volumes \subseteq Members /\ slots \subseteq Members \ {Primary}
    /\ row = NoRow => DOMAIN members = {}
    /\ prov.on \in Members /\ destroy.todo \subseteq Members

\* A create that failed leaves no cluster and no member behind, wherever among the
\* members it failed, unless the rollback itself could not be written.
CreateAllOrNothing ==
    create.at = "failed" => "rows" \in lost \/ (row = NoRow /\ DOMAIN members = {})

\* A cluster reported as running has every member running, a recorded primary and
\* a router, recorded too, that serves them all, unless a Destroy under way could
\* not say so.
RunningIsComplete ==
    row.status = "running" /\ ~overlap /\ "mark" \notin lost =>
        /\ row.primary /\ row.router
        /\ router = [exists |-> TRUE, serves |-> Members]
        /\ containers = Members /\ \A m \in Members : members[m].status = "running"

\* Until the cluster is destroyed, a connection string is handed out only for a
\* router that serves every member the cluster was created with.
ConnectionServes ==
    ConnectionDSN /\ destroy.at = "none" =>
        router = [exists |-> TRUE, serves |-> Members] /\ containers = Members

\* Once Destroy has succeeded nothing of the cluster is left, also where it was
\* only half provisioned or half destroyed before.
DestroyLeavesNothing ==
    destroy.at = "done" /\ ~overlap =>
        /\ row = NoRow /\ DOMAIN members = {}
        /\ containers = {} /\ volumes = {} /\ slots = {}
        /\ router.exists => "router" \in lost

\* What a provision made and leaves when it ends is accounted for: a container by
\* its member's row, a slot, which pins WAL on the primary, by its replica's
\* container, the router by the cluster's row.  Only the failure of the very call
\* that should have removed or recorded it (lost) leaves more.
ProvisionAccounts ==
    prov.at \in {"fail", "done"} /\ destroy.at = "none" =>
        /\ \A m \in containers : members[m].runtime \/ "container" \in lost
        /\ slots \subseteq containers \/ "slot" \in lost
        /\ router.exists => row.router \/ "router" \in lost

\* Nobody is told of a cluster that is not complete: neither its status nor its
\* connection string (Provision, ConnectionDSN).
ShownIsComplete == RunningIsComplete /\ ConnectionServes

\* No operation on a cluster leaves something behind that no row accounts for,
\* unless a cleanup whose error is dropped failed too: not a failed Create, not a
\* failed Provision, not a Destroy that succeeded.
NothingOrphaned == CreateAllOrNothing /\ ProvisionAccounts /\ DestroyLeavesNothing
=============================================================================
