------------------------------- MODULE Failover -------------------------------
(***************************************************************************)
(* The automatic-failover controller of internal/failover, with the         *)
(* provisioner calls it makes (internal/provision/failover_support.go,      *)
(* replica.go, router.go), the rows it writes, and the Postgres members it  *)
(* drives.                                                                  *)
(*                                                                          *)
(* One cluster of N members.  Member 1 is created as the primary            *)
(* (clusterctl.Create), the others as its replicas; the numbers are the     *)
(* created_at order in which ListByCluster returns the replicas.            *)
(* Controller.Run handles the clusters one after the other and keeps no     *)
(* state across them but a strike counter each, so one cluster is enough.   *)
(*                                                                          *)
(* The controller runs one step per call to Docker, to a member or to the   *)
(* meta database; members stop, restart, lose their container, accept       *)
(* writes and stream WAL between any two of its steps.                      *)
(***************************************************************************)
EXTENDS Integers, FiniteSets

CONSTANTS
    N,              \* members of the cluster
    Threshold,      \* strikes before a failover (failover.New)
    MaxLSN,         \* bound on WAL positions
    MaxOutages,     \* bound on member outages
    DBFaults,       \* may a read or write of the meta database fail?
    DockerFaults,   \* may a Docker call or a probe fail on a healthy member?
    Crashes,        \* may the control plane die in the middle of a failover?
    Losses          \* may a container be removed behind its back?

ASSUME ConstantsAssumption ==
    /\ N \in Nat \ {0}
    /\ Threshold \in Nat \ {0}
    /\ MaxLSN \in Nat \ {0}
    /\ MaxOutages \in Nat
    /\ DBFaults \in BOOLEAN
    /\ DockerFaults \in BOOLEAN
    /\ Crashes \in BOOLEAN
    /\ Losses \in BOOLEAN

Members == 1..N
NoMember == 0

VARIABLES
    \* Docker and Postgres
    container,      \* state of each member's container
    standby,        \* does the member's data directory make it a standby?
    promoting,      \* members told to promote that have not finished
    lsn,            \* end of the WAL in each data directory, 0: no data
    replay,         \* what pg_last_wal_replay_lsn() reports
    source,         \* the member a standby streams from
    router,         \* the primary the router container routes to, or NoMember
    outages,        \* outages so far
    \* the instances table
    role, status,
    hasContainer,   \* is container_id non-empty?
    \* the clusters table
    cstatus, primaryID,
    routerKnown,    \* does router_container_id name the router container?
    \* Controller: the strike counter and the locals of failover()
    failures, pc, oldPrimary, replicas, newP, todo, degraded, metaErr,
    \* history: a promotion took place that neither the new primary's role nor
    \* an "error" cluster status records
    unrecorded

pgVars == <<container, standby, promoting, lsn, replay, source>>
rowVars == <<role, status, hasContainer>>
clusterVars == <<cstatus, primaryID, routerKnown>>
localVars == <<pc, oldPrimary, replicas, newP, todo, degraded, metaErr>>
vars == <<pgVars, router, outages, rowVars, clusterVars, failures, localVars,
          unrecorded>>

ContainerStates == {"running", "exited", "gone"}
Roles == {"primary", "replica"}
Statuses == {"running", "provisioning", "error"}
ClusterStatuses == {"running", "degraded", "error"}
Steps == {"idle", "quorum", "elect", "fence", "forget", "promote", "demote",
          "setRole", "setPrimary", "reattach", "clone", "start",
          "removeRouter", "startRouter", "finish"}

(***************************************************************************)
(* clusterctl.Provision reports "running" only when the primary, every      *)
(* replica and the router came up; any failure leaves the cluster in        *)
(* "error", which the controller never looks at.                            *)
(***************************************************************************)
Init ==
    /\ container = [m \in Members |-> "running"]
    /\ standby = [m \in Members |-> m # 1]
    /\ promoting = {}
    /\ lsn = [m \in Members |-> 1]
    /\ replay = [m \in Members |-> IF m = 1 THEN 0 ELSE 1]
    /\ source = [m \in Members |-> IF m = 1 THEN NoMember ELSE 1]
    /\ router = 1
    /\ outages = 0
    /\ role = [m \in Members |-> IF m = 1 THEN "primary" ELSE "replica"]
    /\ status = [m \in Members |-> "running"]
    /\ hasContainer = [m \in Members |-> TRUE]
    /\ cstatus = "running"
    /\ primaryID = 1
    /\ routerKnown = TRUE
    /\ failures = 0
    /\ pc = "idle"
    /\ oldPrimary = NoMember /\ newP = NoMember
    /\ replicas = {} /\ todo = {}
    /\ degraded = FALSE /\ metaErr = FALSE
    /\ unrecorded = FALSE

-------------------------------------------------------------------------------
(* Outcomes of the calls the controller makes.                              *)

\* A best-effort write of a column: it may be lost.
Written(old, new) == IF DBFaults THEN {old, new} ELSE {new}

\* pg_isready through docker exec answers only in a running container the row
\* still names, and may fail to answer even there.
MayAnswer(m) == hasContainer[m] /\ container[m] = "running"
MayBeSilent(m) == ~MayAnswer(m) \/ DockerFaults

\* Seen is a possible outcome of probing each member of S.
ProbeResult(S, Seen) ==
    /\ \A m \in Seen : MayAnswer(m)
    /\ \A m \in S \ Seen : MayBeSilent(m)

\* The locals die with the call to failover().
Return ==
    /\ pc' = "idle"
    /\ oldPrimary' = NoMember /\ newP' = NoMember
    /\ replicas' = {} /\ todo' = {}
    /\ degraded' = FALSE /\ metaErr' = FALSE

Abort ==
    /\ cstatus' \in Written(cstatus, "error")
    /\ Return
    /\ UNCHANGED <<primaryID, routerKnown, failures>>

\* Next replica of the reattach loop, in list order.
IsNext(r) == r \in todo /\ \A s \in todo : r <= s

-------------------------------------------------------------------------------
(* Controller.Run: check the primary, count strikes, start a failover.      *)

Examined == pc = "idle" /\ cstatus \in {"running", "degraded"}

\* The primary row of the member list, NoMember when there is none.
IsPrimaryOf(p) ==
    \/ p \in Members /\ role[p] = "primary"
    \/ p = NoMember /\ \A m \in Members : role[m] # "primary"

PrimarySilent == \A m \in Members : role[m] = "primary" => MayBeSilent(m)

RunReachable ==
    /\ Examined
    /\ \E p \in Members : role[p] = "primary" /\ MayAnswer(p)
    /\ failures' = 0
    /\ UNCHANGED <<pgVars, router, outages, rowVars, clusterVars, localVars,
                   unrecorded>>

\* Faulty variant: the threshold is never compared with.
StrikesUnbounded ==
    /\ Examined
    /\ PrimarySilent
    /\ failures' = failures + 1
    /\ UNCHANGED <<pgVars, router, outages, rowVars, clusterVars, localVars,
                   unrecorded>>

RunStrike ==
    /\ Examined
    /\ PrimarySilent
    /\ failures + 1 < Threshold
    /\ failures' = failures + 1
    /\ UNCHANGED <<pgVars, router, outages, rowVars, clusterVars, localVars,
                   unrecorded>>

RunFailover ==
    /\ Examined
    /\ PrimarySilent
    /\ failures + 1 >= Threshold
    /\ failures' = 0
    /\ pc' = "quorum"
    /\ \E p \in Members \cup {NoMember} : IsPrimaryOf(p) /\ oldPrimary' = p
    /\ replicas' = {m \in Members : role[m] = "replica"}
    /\ UNCHANGED <<pgVars, router, outages, rowVars, clusterVars, newP, todo,
                   degraded, metaErr, unrecorded>>

-------------------------------------------------------------------------------
(* Controller.failover, up to the promotion.                                *)

\* Faulty variant: a quorum that still counts the dead primary in.
NeededEveryone(n) == n + 1

\* A strict majority of the membership must answer; the sole replica of a
\* two-member cluster is enough.
Needed(n) == IF n = 1 THEN 1 ELSE (n + 1) \div 2 + 1

CheckQuorum ==
    /\ pc = "quorum"
    /\ \E Seen \in SUBSET replicas :
          /\ ProbeResult(replicas, Seen)
          /\ IF Cardinality(Seen) < Needed(Cardinality(replicas))
             THEN Abort
             ELSE /\ pc' = "elect"
                  /\ UNCHANGED <<clusterVars, failures, oldPrimary, replicas,
                                 newP, todo, degraded, metaErr>>
    /\ UNCHANGED <<pgVars, router, outages, rowVars, unrecorded>>

\* elect(): the first of the reachable replicas with the highest replayed
\* position; one that has replayed nothing is not promotable.
IsElected(r, Seen) ==
    /\ r \in Seen
    /\ replay[r] > 0
    /\ \A s \in Seen : \/ replay[s] < replay[r]
                       \/ replay[s] = replay[r] /\ r <= s

Elect ==
    /\ pc = "elect"
    /\ \E Seen \in SUBSET replicas :
          /\ ProbeResult(replicas, Seen)
          /\ \/ /\ \A r \in Seen : replay[r] = 0
                /\ Abort
             \/ /\ \E r \in Seen : IsElected(r, Seen) /\ newP' = r
                /\ pc' = "fence"
                /\ UNCHANGED <<clusterVars, failures, oldPrimary, replicas,
                               todo, degraded, metaErr>>
    /\ UNCHANGED <<pgVars, router, outages, rowVars, unrecorded>>

\* Faulty variant: a primary that is not running is taken as fenced.
StoppedIsFenced ==
    /\ pc = "fence"
    /\ oldPrimary # NoMember => container[oldPrimary] # "running"
    /\ pc' = "promote"
    /\ UNCHANGED <<pgVars, router, outages, rowVars, clusterVars, failures,
                   oldPrimary, replicas, newP, todo, degraded, metaErr,
                   unrecorded>>

\* No container on record: Fence has nothing to do.
FenceNothing ==
    /\ pc = "fence"
    /\ oldPrimary = NoMember \/ ~hasContainer[oldPrimary]
    /\ pc' = "promote"
    /\ UNCHANGED <<pgVars, router, outages, rowVars, clusterVars, failures,
                   oldPrimary, replicas, newP, todo, degraded, metaErr,
                   unrecorded>>

\* Faulty variant: the container is stopped but not removed.
FenceStops ==
    /\ pc = "fence"
    /\ oldPrimary # NoMember
    /\ hasContainer[oldPrimary]
    /\ container[oldPrimary] # "gone"
    /\ container' = [container EXCEPT ![oldPrimary] = "exited"]
    /\ promoting' = promoting \ {oldPrimary}
    /\ pc' = "forget"
    /\ UNCHANGED <<standby, lsn, replay, source, router, outages, rowVars,
                   clusterVars, failures, oldPrimary, replicas, newP, todo,
                   degraded, metaErr, unrecorded>>

\* Stop and remove the container of the old primary.
FenceRemoves ==
    /\ pc = "fence"
    /\ oldPrimary # NoMember
    /\ hasContainer[oldPrimary]
    /\ container[oldPrimary] # "gone"
    /\ container' = [container EXCEPT ![oldPrimary] = "gone"]
    /\ promoting' = promoting \ {oldPrimary}
    /\ pc' = "forget"
    /\ UNCHANGED <<standby, lsn, replay, source, router, outages, rowVars,
                   clusterVars, failures, oldPrimary, replicas, newP, todo,
                   degraded, metaErr, unrecorded>>

\* Removing fails, also when the container is already gone; Stop may have
\* succeeded before it.
FenceFails ==
    /\ pc = "fence"
    /\ oldPrimary # NoMember
    /\ hasContainer[oldPrimary]
    /\ container[oldPrimary] = "gone" \/ DockerFaults
    /\ \/ UNCHANGED <<container, promoting>>
       \/ /\ container[oldPrimary] = "running"
          /\ container' = [container EXCEPT ![oldPrimary] = "exited"]
          /\ promoting' = promoting \ {oldPrimary}
    /\ Abort
    /\ UNCHANGED <<standby, lsn, replay, source, router, outages, rowVars,
                   unrecorded>>

\* Fence clears container_id once the container is removed.
FenceForgets ==
    /\ pc = "forget"
    /\ \E b \in Written(TRUE, FALSE) :
          hasContainer' = [hasContainer EXCEPT ![oldPrimary] = b]
    /\ pc' = "promote"
    /\ UNCHANGED <<pgVars, router, outages, role, status, clusterVars,
                   failures, oldPrimary, replicas, newP, todo, degraded,
                   metaErr, unrecorded>>

\* pg_promote(wait) on a running standby: it has finished, or it is still
\* under way when the wait times out (which psql reports as success).
PromoteEffect ==
    \/ /\ standby' = [standby EXCEPT ![newP] = FALSE]
       /\ promoting' = promoting \ {newP}
    \/ /\ promoting' = promoting \cup {newP}
       /\ UNCHANGED standby

CanPromote == MayAnswer(newP) /\ standby[newP]

PromoteSucceeds ==
    /\ pc = "promote"
    /\ CanPromote
    /\ PromoteEffect
    /\ pc' = "demote"
    /\ UNCHANGED <<container, lsn, replay, source, router, outages, rowVars,
                   clusterVars, failures, oldPrimary, replicas, newP, todo,
                   degraded, metaErr, unrecorded>>

\* The call fails on a stopped member, on one that is not a standby, or
\* because its answer is lost, before or after it took effect.
PromoteFails ==
    /\ pc = "promote"
    /\ \/ ~CanPromote /\ UNCHANGED <<standby, promoting>>
       \/ DockerFaults /\ UNCHANGED <<standby, promoting>>
       \/ DockerFaults /\ CanPromote /\ PromoteEffect
    /\ Abort
    /\ unrecorded' = (unrecorded \/ (/\ cstatus' # "error"
                                     /\ <<standby, promoting>>'
                                          # <<standby, promoting>>))
    /\ UNCHANGED <<container, lsn, replay, source, router, outages, rowVars>>

-------------------------------------------------------------------------------
(* Controller.failover: recording the promotion.                            *)

DemoteOld ==
    /\ pc = "demote"
    /\ IF oldPrimary = NoMember
       THEN UNCHANGED <<role, status>>
       ELSE /\ \E s \in Written(status[oldPrimary], "error") :
                  status' = [status EXCEPT ![oldPrimary] = s]
            /\ \E r \in Written(role[oldPrimary], "replica") :
                  role' = [role EXCEPT ![oldPrimary] = r]
    /\ pc' = "setRole"
    /\ UNCHANGED <<pgVars, router, outages, hasContainer, clusterVars,
                   failures, oldPrimary, replicas, newP, todo, degraded,
                   metaErr, unrecorded>>

\* The index one_primary_per_cluster refuses a second primary row.
RoleFree == \A m \in Members \ {newP} : role[m] # "primary"

SetRole ==
    /\ pc = "setRole"
    /\ \/ /\ RoleFree
          /\ role' = [role EXCEPT ![newP] = "primary"]
          /\ UNCHANGED <<metaErr, unrecorded>>
       \/ /\ ~RoleFree \/ DBFaults
          /\ metaErr' = TRUE
          /\ unrecorded' = TRUE
          /\ UNCHANGED role
    /\ \E s \in Written(status[newP], "running") :
          status' = [status EXCEPT ![newP] = s]
    /\ pc' = "setPrimary"
    /\ UNCHANGED <<pgVars, router, outages, hasContainer, clusterVars,
                   failures, oldPrimary, replicas, newP, todo, degraded>>

\* Faulty variant: the reattach loop does not skip the promoted member.
SetPrimaryReclonesAll ==
    /\ pc = "setPrimary"
    /\ primaryID' = newP
    /\ todo' = replicas
    /\ pc' = "reattach"
    /\ UNCHANGED <<pgVars, router, outages, rowVars, cstatus, routerKnown,
                   failures, oldPrimary, replicas, newP, degraded, metaErr,
                   unrecorded>>

SetPrimary ==
    /\ pc = "setPrimary"
    /\ \/ primaryID' = newP /\ UNCHANGED metaErr
       \/ DBFaults /\ metaErr' = TRUE /\ UNCHANGED primaryID
    /\ cstatus' \in IF metaErr' THEN Written(cstatus, "degraded")
                                ELSE {cstatus}
    /\ todo' = replicas \ {newP}
    /\ pc' = "reattach"
    /\ UNCHANGED <<pgVars, router, outages, rowVars, routerKnown, failures,
                   oldPrimary, replicas, newP, degraded, unrecorded>>

-------------------------------------------------------------------------------
(* Controller.failover: re-cloning the other replicas from the new primary. *)

\* Remove the replica's container and its data volume.
PrepareReclone(r) ==
    /\ pc = "reattach"
    /\ IsNext(r)
    /\ hasContainer[r] \/ container[r] = "gone"
    /\ container' = [container EXCEPT ![r] = "gone"]
    /\ promoting' = promoting \ {r}
    /\ lsn' = [lsn EXCEPT ![r] = 0]
    /\ replay' = [replay EXCEPT ![r] = 0]
    /\ \E b \in Written(hasContainer[r], FALSE) :
          hasContainer' = [hasContainer EXCEPT ![r] = b]
    /\ \E s \in Written(status[r], "provisioning") :
          status' = [status EXCEPT ![r] = s]
    /\ pc' = "clone"
    /\ UNCHANGED <<standby, source, router, outages, role, clusterVars,
                   failures, oldPrimary, replicas, newP, todo, degraded,
                   metaErr, unrecorded>>

\* The volume is not removed: Docker refuses while a container still uses it,
\* one the row does not name or one that could only be stopped.
PrepareFails(r) ==
    /\ pc = "reattach"
    /\ IsNext(r)
    /\ \/ /\ DockerFaults \/ (~hasContainer[r] /\ container[r] # "gone")
          /\ UNCHANGED <<container, promoting>>
       \/ /\ DockerFaults /\ hasContainer[r]
          /\ \E c \in {"exited", "gone"} :
                /\ container[r] = "gone" => c = "gone"
                /\ container' = [container EXCEPT ![r] = c]
          /\ promoting' = promoting \ {r}
    /\ \E s \in Written(status[r], "provisioning") :
       \E t \in Written(s, "error") :
          status' = [status EXCEPT ![r] = t]
    /\ todo' = todo \ {r}
    /\ degraded' = TRUE
    /\ UNCHANGED <<standby, lsn, replay, source, router, outages, role,
                   hasContainer, clusterVars, failures, pc, oldPrimary,
                   replicas, newP, metaErr, unrecorded>>

\* provisionReplica up to CreateContainer: the base backup of the new primary
\* makes the volume a standby of it.
CloneReplica(r) ==
    /\ pc = "clone"
    /\ IsNext(r)
    /\ MayAnswer(newP)
    /\ container' = [container EXCEPT ![r] = "exited"]
    /\ standby' = [standby EXCEPT ![r] = TRUE]
    /\ lsn' = [lsn EXCEPT ![r] = lsn[newP]]
    /\ replay' = [replay EXCEPT ![r] = lsn[newP]]
    /\ source' = [source EXCEPT ![r] = newP]
    /\ \E s \in Written(status[r], "provisioning") :
          status' = [status EXCEPT ![r] = s]
    /\ pc' = "start"
    /\ UNCHANGED <<promoting, router, outages, role, hasContainer, clusterVars,
                   failures, oldPrimary, replicas, newP, todo, degraded,
                   metaErr, unrecorded>>

\* The rest of ProvisionReplica: record the container, start it, record its
\* port, wait until it accepts connections and streams, report "running".  If
\* only that report is lost, the replica stays up.
StartReplica(r) ==
    /\ pc = "start"
    /\ IsNext(r)
    /\ MayAnswer(newP) /\ container[r] # "gone"
    /\ hasContainer' = [hasContainer EXCEPT ![r] = TRUE]
    /\ container' = [container EXCEPT ![r] = "running"]
    /\ \/ /\ status' = [status EXCEPT ![r] = "running"]
          /\ UNCHANGED degraded
       \/ /\ DBFaults
          /\ \E s \in Written(status[r], "error") :
                status' = [status EXCEPT ![r] = s]
          /\ degraded' = TRUE
    /\ todo' = todo \ {r}
    /\ pc' = "reattach"
    /\ UNCHANGED <<standby, promoting, lsn, replay, source, router, outages,
                   role, clusterVars, failures, oldPrimary, replicas, newP,
                   metaErr, unrecorded>>

\* provisionReplica fails before or after CreateContainer; its cleanup removes
\* the container and the new volume, if it can.
ProvisionFails(r) ==
    /\ pc \in {"clone", "start"}
    /\ IsNext(r)
    /\ \/ ~MayAnswer(newP) \/ DockerFaults \/ DBFaults
       \/ pc = "start" /\ container[r] = "gone"
    /\ \E c \in {"gone"} \cup (IF DockerFaults THEN {container[r]} ELSE {}) :
          container' = [container EXCEPT ![r] = c]
    /\ \/ /\ container'[r] = "gone"
          /\ lsn' = [lsn EXCEPT ![r] = 0]
          /\ replay' = [replay EXCEPT ![r] = 0]
       \/ DockerFaults /\ UNCHANGED <<lsn, replay>>
    /\ \E b \in IF pc = "start" THEN Written(hasContainer[r], TRUE)
                                ELSE {hasContainer[r]} :
          hasContainer' = [hasContainer EXCEPT ![r] = b]
    /\ \E s \in Written(status[r], "error") :
          status' = [status EXCEPT ![r] = s]
    /\ todo' = todo \ {r}
    /\ degraded' = TRUE
    /\ pc' = "reattach"
    /\ UNCHANGED <<standby, promoting, source, router, outages, role,
                   clusterVars, failures, oldPrimary, replicas, newP, metaErr,
                   unrecorded>>

ReattachDone ==
    /\ pc = "reattach"
    /\ todo = {}
    /\ pc' = "removeRouter"
    /\ UNCHANGED <<pgVars, router, outages, rowVars, clusterVars, failures,
                   oldPrimary, replicas, newP, todo, degraded, metaErr,
                   unrecorded>>

-------------------------------------------------------------------------------
(* Controller.repointRouter and the end of Controller.failover.             *)

\* Faulty variant: repointRouter gives up without reporting it.
RouterSkipped ==
    /\ pc = "removeRouter"
    /\ pc' = "finish"
    /\ UNCHANGED <<pgVars, router, outages, rowVars, clusterVars, failures,
                   oldPrimary, replicas, newP, todo, degraded, metaErr,
                   unrecorded>>

\* Read the password, then remove the router container the snapshot names.
RemoveRouter ==
    /\ pc = "removeRouter"
    /\ \/ /\ DBFaults
          /\ degraded' = TRUE
          /\ pc' = "finish"
          /\ UNCHANGED <<router, routerKnown>>
       \/ /\ pc' = "startRouter"
          /\ \/ routerKnown /\ router' = NoMember /\ routerKnown' = FALSE
             \/ /\ ~routerKnown \/ DockerFaults
                /\ UNCHANGED <<router, routerKnown>>
          /\ UNCHANGED degraded
    /\ UNCHANGED <<pgVars, outages, rowVars, cstatus, primaryID, failures,
                   oldPrimary, replicas, newP, todo, metaErr, unrecorded>>

\* The new router has the name of the old one, so it cannot be created while
\* the old one is there.
StartRouter ==
    /\ pc = "startRouter"
    /\ \/ /\ router = NoMember
          /\ router' = newP
          /\ \/ routerKnown' = TRUE /\ UNCHANGED degraded
             \/ DBFaults /\ degraded' = TRUE /\ UNCHANGED routerKnown
       \/ /\ router # NoMember \/ DockerFaults
          /\ router' \in IF router = NoMember THEN {NoMember, newP}
                                              ELSE {router}
          /\ degraded' = TRUE
          /\ UNCHANGED routerKnown
    /\ pc' = "finish"
    /\ UNCHANGED <<pgVars, outages, rowVars, cstatus, primaryID, failures,
                   oldPrimary, replicas, newP, todo, metaErr, unrecorded>>

FinalStatus == IF degraded THEN "degraded" ELSE "running"

Finish ==
    /\ pc = "finish"
    /\ cstatus' \in Written(cstatus, FinalStatus)
    /\ Return
    /\ UNCHANGED <<pgVars, router, outages, rowVars, primaryID, routerKnown,
                   failures, unrecorded>>

Controller ==
    \/ RunReachable \/ RunStrike \/ RunFailover
    \/ CheckQuorum \/ Elect
    \/ FenceNothing \/ FenceRemoves \/ FenceFails \/ FenceForgets
    \/ PromoteSucceeds \/ PromoteFails
    \/ DemoteOld \/ SetRole \/ SetPrimary
    \/ \E r \in Members : \/ PrepareReclone(r) \/ PrepareFails(r)
                          \/ CloneReplica(r) \/ StartReplica(r)
                          \/ ProvisionFails(r)
    \/ ReattachDone \/ RemoveRouter \/ StartRouter \/ Finish

-------------------------------------------------------------------------------
(* The control plane dies: what failover() held in memory is lost.          *)

Crash ==
    /\ Crashes
    /\ pc # "idle"
    /\ unrecorded' = (unrecorded \/ pc \in {"demote", "setRole"})
    /\ failures' = 0
    /\ Return
    /\ UNCHANGED <<pgVars, router, outages, rowVars, clusterVars>>

-------------------------------------------------------------------------------
(* The members (external: Postgres and Docker).                             *)

memberFrame == <<router, rowVars, clusterVars, failures, localVars, unrecorded>>

\* Postgres or its container stops; a promotion under way is forgotten.
MemberStops(m) ==
    /\ outages < MaxOutages
    /\ container[m] = "running"
    /\ container' = [container EXCEPT ![m] = "exited"]
    /\ promoting' = promoting \ {m}
    /\ outages' = outages + 1
    /\ UNCHANGED <<standby, lsn, replay, source, memberFrame>>

\* The container is removed behind the control plane's back.
ContainerLost(m) ==
    /\ Losses
    /\ outages < MaxOutages
    /\ container[m] # "gone"
    /\ container' = [container EXCEPT ![m] = "gone"]
    /\ promoting' = promoting \ {m}
    /\ outages' = outages + 1
    /\ UNCHANGED <<standby, lsn, replay, source, memberFrame>>

\* The restart policy or an operator starts it again.  A restarted primary has
\* replayed nothing, whatever it replayed when it was a standby.
MemberRestarts(m) ==
    /\ container[m] = "exited"
    /\ container' = [container EXCEPT ![m] = "running"]
    /\ replay' = [replay EXCEPT ![m] = IF standby[m] THEN lsn[m] ELSE 0]
    /\ UNCHANGED <<standby, promoting, lsn, source, outages, memberFrame>>

PromotionCompletes(m) ==
    /\ m \in promoting
    /\ standby' = [standby EXCEPT ![m] = FALSE]
    /\ promoting' = promoting \ {m}
    /\ UNCHANGED <<container, lsn, replay, source, outages, memberFrame>>

\* A client commits on a running member that is not a standby.
ClientWrites(m) ==
    /\ container[m] = "running" /\ ~standby[m]
    /\ lsn[m] < MaxLSN
    /\ lsn' = [lsn EXCEPT ![m] = @ + 1]
    /\ UNCHANGED <<container, standby, promoting, replay, source, outages,
                   memberFrame>>

StandbyStreams(m) ==
    /\ container[m] = "running" /\ standby[m]
    /\ source[m] # NoMember /\ container[source[m]] = "running"
    /\ lsn[m] < lsn[source[m]]
    /\ lsn' = [lsn EXCEPT ![m] = @ + 1]
    /\ replay' = [replay EXCEPT ![m] = lsn[m] + 1]
    /\ UNCHANGED <<container, standby, promoting, source, outages, memberFrame>>

Environment ==
    \E m \in Members : \/ MemberStops(m) \/ ContainerLost(m)
                       \/ MemberRestarts(m) \/ PromotionCompletes(m)
                       \/ ClientWrites(m) \/ StandbyStreams(m)

Next == Controller \/ Crash \/ Environment

Spec == Init /\ [][Next]_vars

\* The scheduler ticks the controller every 30 seconds and every call it makes
\* returns, and Postgres finishes a promotion it has started unless it stops.
FairSpec ==
    /\ Spec
    /\ WF_vars(Controller)
    /\ \A m \in Members : WF_vars(PromotionCompletes(m))

-------------------------------------------------------------------------------
(* Properties.                                                              *)

\* Every variable stays in its domain.
TypeOK ==
    /\ container \in [Members -> ContainerStates]
    /\ standby \in [Members -> BOOLEAN]
    /\ promoting \in SUBSET Members
    /\ lsn \in [Members -> Nat]
    /\ replay \in [Members -> Nat]
    /\ source \in [Members -> Members \cup {NoMember}]
    /\ router \in Members \cup {NoMember}
    /\ outages \in Nat
    /\ role \in [Members -> Roles]
    /\ status \in [Members -> Statuses]
    /\ hasContainer \in [Members -> BOOLEAN]
    /\ cstatus \in ClusterStatuses
    /\ primaryID \in Members
    /\ routerKnown \in BOOLEAN
    /\ failures \in 0 .. Threshold - 1
    /\ pc \in Steps
    /\ oldPrimary \in Members \cup {NoMember}
    /\ replicas \in SUBSET Members
    /\ newP \in Members \cup {NoMember}
    /\ todo \in SUBSET Members
    /\ degraded \in BOOLEAN
    /\ metaErr \in BOOLEAN
    /\ unrecorded \in BOOLEAN

\* The members that accept writes, now or once their container is started
\* again, and those about to.
Writers == {m \in Members : container[m] # "gone" /\ ~standby[m]} \cup promoting

\* No split brain (failover.go:165-169, 220-223): as long as every promotion is
\* on record, no two members can both be writable, however member outages,
\* silent probes, lost calls and control-plane crashes fall.
NoSplitBrain == unrecorded \/ \A m, n \in Writers : m = n

\* Fence takes an empty container_id as "nothing running to fence"
\* (failover_support.go:60-62): a container the row does not name must never be
\* a writable one.
ForgottenNeverWrites ==
    \A m \in Members : ~hasContainer[m] => m \notin Writers

\* Fence before promote (failover.go:220-223): when the controller goes on to
\* promote a replica, the container of the primary on record is gone, so no
\* restart policy can revive it.
FenceBeforePromote ==
    pc = "promote" =>
        \A m \in Members : role[m] = "primary" => container[m] = "gone"

\* A failover that is about to report "running" (failover.go:301-305) has every
\* other replica recorded as running on a container, and a router it knows of
\* that routes to the promoted member.
RunningIsEarned ==
    pc = "finish" /\ ~degraded =>
        /\ router = newP /\ routerKnown
        /\ \A r \in replicas \ {newP} : hasContainer[r] /\ status[r] = "running"

\* Re-cloning wipes a replica's data volume before the new copy exists
\* (failover.go:278-286): a member that holds data always remains, and from the
\* election on it is the promoted one.
PromotedCopySurvives ==
    \E m \in Members : lsn[m] > 0 /\ (newP # NoMember => m = newP)

\* A promotion whose metadata could not be saved leaves the cluster marked
\* degraded for operator attention (failover.go:236-240).
MetadataFailureSurfaced ==
    [][pc = "finish" /\ metaErr /\ cstatus = "degraded"
         => cstatus' = "degraded"]_vars

\* The right to be writable, as WriterLease hands it out: one holder at a time.
Lease == INSTANCE WriterLease WITH holders <- Writers

\* Failover implements that lease as long as the meta database and the control
\* plane stay up: a member becomes writable only when no other one can be.
ImplementsWriterLease == Lease!Spec

\* The member the database calls primary is up and writable.
PrimaryServing ==
    \E m \in Members : /\ role[m] = "primary"
                       /\ MayAnswer(m)
                       /\ ~standby[m]

\* A dead primary is replaced (failover.go:1-3): the cluster does not stay
\* without a serving primary.
FailsOver == []<>PrimaryServing
===============================================================================
