--------------------------- MODULE FailoverProofs ---------------------------
(***************************************************************************)
(* What the failover controller guarantees for every number of members,    *)
(* every threshold and every combination of faults: the inductive invariant,*)
(* that every action keeps it, and what follows from it.                   *)
(***************************************************************************)
EXTENDS Failover, TLAPS

-------------------------------------------------------------------------------
(* The inductive invariant.                                                 *)

\* The steps after the election, those between fence and record, and those
\* that follow the recorded promotion.
Elected == {"fence", "forget", "promote", "demote", "setRole", "setPrimary",
            "reattach", "clone", "start", "removeRouter", "startRouter",
            "finish"}
BeforeFence == {"quorum", "elect", "fence"}
Unfenced == {"forget", "promote"}
Promoted == {"demote", "setRole"}

\* What the locals of failover() hold: the snapshot agrees with the roles in the
\* table except where failover() itself has changed them.
LocalsInv ==
    /\ pc \in Elected => newP \in replicas /\ hasContainer[newP]
    /\ pc \in BeforeFence \cup {"forget"} => IsPrimaryOf(oldPrimary)
    /\ pc \in BeforeFence \cup Unfenced => \A r \in replicas : role[r] = "replica"
    /\ pc = "forget" => oldPrimary # NoMember /\ container[oldPrimary] = "gone"
    /\ pc # "idle" => cstatus # "error"
    /\ \A r \in replicas \ {newP} : role[r] = "replica"
    /\ todo \subseteq replicas \ {newP}
    /\ pc \notin {"reattach", "clone", "start"} => todo = {}
    /\ pc = "clone" => \A r \in Members : IsNext(r) => container[r] = "gone"
    /\ pc \in {"clone", "start"} =>
          \A r \in Members : IsNext(r) => r \notin promoting

\* The index one_primary_per_cluster.
OnePrimaryRow ==
    \A m, n \in Members : role[m] = "primary" /\ role[n] = "primary" => m = n

\* A promotion is under way only in a running container the row names.
PromotingRuns ==
    \A m \in promoting : container[m] = "running" /\ hasContainer[m]

\* A primary row without a container on record has no container.
PrimaryRowContainer ==
    \A m \in Members : role[m] = "primary" /\ ~hasContainer[m]
                          => container[m] = "gone"

\* Who may write, step by step.
LeaseInv ==
    unrecorded \/
      /\ pc \in Unfenced => Writers = {}
      /\ pc \in Promoted => Writers \subseteq {newP}
      /\ pc \notin Unfenced \cup Promoted /\ cstatus # "error" =>
            \A m \in Writers : role[m] = "primary"
      /\ \A m, n \in Writers : m = n

IInv ==
    /\ TypeOK
    /\ LocalsInv
    /\ OnePrimaryRow
    /\ PromotingRuns
    /\ PrimaryRowContainer
    /\ ForgottenNeverWrites
    /\ FenceBeforePromote
    /\ LeaseInv

-------------------------------------------------------------------------------
\* Members are positive numbers, so NoMember is none of them.
LEMMA MembersFact == NoMember \notin Members /\ \A m \in Members : m \in Nat
BY ConstantsAssumption DEF Members, NoMember

\* A freshly provisioned cluster satisfies the invariant.
LEMMA InitIInv == Init => IInv
<1> SUFFICES ASSUME Init PROVE IInv
  OBVIOUS
<1> USE ConstantsAssumption, MembersFact
<1>1. 1 \in Members
  BY DEF Members
<1>2. ASSUME NEW m \in Members
      PROVE  /\ container[m] = "running"
             /\ standby[m] = (m # 1)
             /\ hasContainer[m]
             /\ role[m] = IF m = 1 THEN "primary" ELSE "replica"
  BY Zenon DEF Init
<1>t. TypeOK
  <2>1. standby \in [Members -> BOOLEAN] /\ hasContainer \in [Members -> BOOLEAN]
    BY Zenon DEF Init
  <2>2. lsn \in [Members -> Nat] /\ replay \in [Members -> Nat]
    BY Zenon DEF Init
  <2>3. /\ container \in [Members -> ContainerStates]
        /\ source \in [Members -> Members \cup {NoMember}]
        /\ role \in [Members -> Roles]
        /\ status \in [Members -> Statuses]
    BY <1>1, Zenon DEF Init, ContainerStates, Roles, Statuses
  <2>4. failures \in 0 .. Threshold - 1
    BY DEF Init
  <2>5. QED
    BY <1>1, <2>1, <2>2, <2>3, <2>4, Zenon
       DEF Init, TypeOK, ClusterStatuses, Steps
<1>3. Writers = {1}
  BY <1>1, <1>2, Zenon DEF Init, Writers
<1>4. LocalsInv
  BY Zenon DEF Init, LocalsInv, Elected, BeforeFence, Unfenced
<1>5. /\ OnePrimaryRow /\ PromotingRuns /\ PrimaryRowContainer
      /\ ForgottenNeverWrites /\ FenceBeforePromote
  BY <1>2, Zenon DEF Init, OnePrimaryRow, PromotingRuns, PrimaryRowContainer,
              ForgottenNeverWrites, FenceBeforePromote
<1>6. LeaseInv
  BY <1>1, <1>2, <1>3, Zenon DEF Init, LeaseInv, Unfenced, Promoted
<1> QED
  BY <1>t, <1>4, <1>5, <1>6, Zenon DEF IInv

-------------------------------------------------------------------------------
(* Types.                                                                   *)

\* A best-effort write leaves a value of the column's type.
LEMMA WrittenType ==
    ASSUME NEW S, NEW a \in S, NEW b \in S, NEW x \in Written(a, b)
    PROVE  x \in S
BY Zenon DEF Written

\* From the election on there is a member to promote.
LEMMA PromotedIsMember ==
    ASSUME IInv, pc \in Elected
    PROVE  newP \in Members
BY Zenon DEF IInv, TypeOK, LocalsInv

\* Returning from failover() keeps the locals' types.
LEMMA ReturnType ==
    ASSUME Return
    PROVE  /\ pc' \in Steps
           /\ oldPrimary' \in Members \cup {NoMember}
           /\ newP' \in Members \cup {NoMember}
           /\ replicas' \in SUBSET Members /\ todo' \in SUBSET Members
           /\ degraded' \in BOOLEAN /\ metaErr' \in BOOLEAN
BY Zenon DEF Return, Steps

\* So does giving up and marking the cluster in error.
LEMMA AbortType ==
    ASSUME TypeOK, Abort
    PROVE  /\ cstatus' \in ClusterStatuses /\ primaryID' \in Members
           /\ routerKnown' \in BOOLEAN /\ failures' \in 0 .. Threshold - 1
BY Zenon DEF TypeOK, Abort, Written, ClusterStatuses

\* Controller.Run keeps every type; a strike stays below the threshold.
LEMMA RunType ==
    ASSUME TypeOK, RunReachable \/ RunStrike \/ RunFailover
    PROVE  TypeOK'
<1> USE ConstantsAssumption
<1>1. failures' \in 0 .. Threshold - 1
  BY DEF TypeOK, RunReachable, RunStrike, RunFailover
<1>2. CASE RunReachable \/ RunStrike
  BY <1>1, <1>2 DEF TypeOK, RunReachable, RunStrike, pgVars, rowVars,
                    clusterVars, localVars
<1>3. CASE RunFailover
  BY <1>1, <1>3 DEF TypeOK, RunFailover, pgVars, rowVars, clusterVars, Steps
<1> QED
  BY <1>2, <1>3, Zenon

\* The quorum check of failover() keeps every type.
LEMMA CheckQuorumType == ASSUME TypeOK, CheckQuorum PROVE TypeOK'
<1>1. CASE Abort
  BY <1>1, ReturnType, AbortType, Zenon
     DEF TypeOK, CheckQuorum, Abort, pgVars, rowVars
<1>2. CASE ~Abort
  BY <1>2 DEF TypeOK, CheckQuorum, pgVars, rowVars, clusterVars, Steps
<1> QED
  BY <1>1, <1>2, Zenon

\* elect() keeps every type.
LEMMA ElectType == ASSUME TypeOK, Elect PROVE TypeOK'
<1>1. CASE Abort
  BY <1>1, ReturnType, AbortType, Zenon
     DEF TypeOK, Elect, Abort, pgVars, rowVars
<1>2. CASE ~Abort
  BY <1>2 DEF TypeOK, Elect, pgVars, rowVars, clusterVars, Steps
<1> QED
  BY <1>1, <1>2, Zenon

\* Fence keeps every type.
LEMMA FenceType ==
    ASSUME TypeOK, FenceNothing \/ FenceRemoves \/ FenceFails \/ FenceForgets
    PROVE  TypeOK'
<1>1. CASE FenceNothing
  BY <1>1 DEF TypeOK, FenceNothing, pgVars, rowVars, clusterVars, Steps
<1>2. CASE FenceRemoves
  BY <1>2 DEF TypeOK, FenceRemoves, rowVars, clusterVars, Steps,
              ContainerStates
<1>3. CASE FenceFails
  <2>1. /\ container' \in [Members -> ContainerStates]
        /\ promoting' \in SUBSET Members
    BY <1>3, Zenon DEF TypeOK, FenceFails, ContainerStates
  <2> QED
    BY <1>3, <2>1, ReturnType, AbortType, Zenon
    DEF TypeOK, FenceFails, Abort, rowVars
<1>4. CASE FenceForgets
  <2>1. PICK b \in Written(TRUE, FALSE) :
           hasContainer' = [hasContainer EXCEPT ![oldPrimary] = b]
    BY <1>4, Zenon DEF FenceForgets
  <2>2. b \in BOOLEAN
    BY WrittenType, Zenon
  <2>3. hasContainer' \in [Members -> BOOLEAN]
    BY <2>1, <2>2, Zenon DEF TypeOK
  <2> QED
    BY <1>4, <2>3 DEF TypeOK, FenceForgets, pgVars, clusterVars, Steps
<1> QED
  BY <1>1, <1>2, <1>3, <1>4, Zenon

\* Promote keeps every type.
LEMMA PromoteType ==
    ASSUME TypeOK, newP \in Members, PromoteSucceeds \/ PromoteFails
    PROVE  TypeOK'
<1>1. standby' \in [Members -> BOOLEAN] /\ promoting' \in SUBSET Members
  <2>1. PromoteEffect \/ UNCHANGED <<standby, promoting>>
    BY Zenon DEF PromoteSucceeds, PromoteFails
  <2> QED
    BY <2>1, Zenon DEF TypeOK, PromoteEffect
<1>2. CASE PromoteSucceeds
  BY <1>1, <1>2 DEF TypeOK, PromoteSucceeds, rowVars, clusterVars, Steps
<1>3. CASE PromoteFails
  <2>1. unrecorded' \in BOOLEAN
    BY <1>3, Zenon DEF PromoteFails
  <2> QED
    BY <1>1, <1>3, <2>1, ReturnType, AbortType, Zenon
       DEF TypeOK, PromoteFails, Abort, rowVars
<1> QED
  BY <1>2, <1>3, Zenon

\* Recording the promotion keeps every type.
LEMMA RecordType ==
    ASSUME TypeOK, newP \in Members, DemoteOld \/ SetRole \/ SetPrimary
    PROVE  TypeOK'
<1>1. CASE DemoteOld
  <2>1. role' \in [Members -> Roles] /\ status' \in [Members -> Statuses]
    BY <1>1 DEF TypeOK, DemoteOld, Written, Roles, Statuses, NoMember
  <2> QED
    BY <1>1, <2>1, Zenon DEF TypeOK, DemoteOld, pgVars, clusterVars, Steps
<1>2. CASE SetRole
  <2>1. role' \in [Members -> Roles] /\ status' \in [Members -> Statuses]
    BY <1>2 DEF TypeOK, SetRole, Written, Roles, Statuses
  <2>2. metaErr' \in BOOLEAN /\ unrecorded' \in BOOLEAN
    BY <1>2, Zenon DEF TypeOK, SetRole
  <2> QED
    BY <1>2, <2>1, <2>2, Zenon DEF TypeOK, SetRole, pgVars, clusterVars, Steps
<1>3. CASE SetPrimary
  <2>1. primaryID' \in Members /\ metaErr' \in BOOLEAN
    BY <1>3, Zenon DEF TypeOK, SetPrimary
  <2>2. cstatus' \in ClusterStatuses
    BY <1>3, Zenon DEF TypeOK, SetPrimary, Written, ClusterStatuses
  <2> QED
    BY <1>3, <2>1, <2>2, Zenon DEF TypeOK, SetPrimary, pgVars, rowVars, Steps
<1> QED
  BY <1>1, <1>2, <1>3, Zenon

\* Re-cloning a replica keeps every type.
LEMMA ReattachType ==
    ASSUME TypeOK, newP \in Members, NEW r \in Members,
           \/ PrepareReclone(r) \/ PrepareFails(r) \/ CloneReplica(r)
           \/ StartReplica(r) \/ ProvisionFails(r)
    PROVE  TypeOK'
<1>1. CASE PrepareReclone(r)
  <2>0. PICK b \in Written(hasContainer[r], FALSE) :
           hasContainer' = [hasContainer EXCEPT ![r] = b]
    BY <1>1, Zenon DEF PrepareReclone
  <2>1. hasContainer' \in [Members -> BOOLEAN]
    <3>1. b \in BOOLEAN
      BY WrittenType, Zenon DEF TypeOK
    <3> QED
      BY <2>0, <3>1, Zenon DEF TypeOK
  <2>2. status' \in [Members -> Statuses]
    BY <1>1, Zenon DEF TypeOK, PrepareReclone, Written, Statuses
  <2>3. /\ container' \in [Members -> ContainerStates]
        /\ lsn' \in [Members -> Nat] /\ replay' \in [Members -> Nat]
    BY <1>1, Zenon DEF TypeOK, PrepareReclone, ContainerStates
  <2> QED
    BY <1>1, <2>1, <2>2, <2>3 DEF TypeOK, PrepareReclone, clusterVars, Steps
<1>2. CASE PrepareFails(r)
  <2>1. /\ container' \in [Members -> ContainerStates]
        /\ promoting' \in SUBSET Members
    BY <1>2, Zenon DEF TypeOK, PrepareFails, ContainerStates
  <2>2. status' \in [Members -> Statuses]
    BY <1>2, Zenon DEF TypeOK, PrepareFails, Written, Statuses
  <2> QED
    BY <1>2, <2>1, <2>2, Zenon DEF TypeOK, PrepareFails, clusterVars
<1>3. CASE CloneReplica(r)
  <2>1. standby' \in [Members -> BOOLEAN]
    BY <1>3, Zenon DEF TypeOK, CloneReplica
  <2>2. status' \in [Members -> Statuses]
    BY <1>3, Zenon DEF TypeOK, CloneReplica, Written, Statuses
  <2>3. /\ container' \in [Members -> ContainerStates]
        /\ lsn' \in [Members -> Nat] /\ replay' \in [Members -> Nat]
        /\ source' \in [Members -> Members \cup {NoMember}]
    BY <1>3, Zenon DEF TypeOK, CloneReplica, ContainerStates
  <2> QED
    BY <1>3, <2>1, <2>2, <2>3, Zenon
    DEF TypeOK, CloneReplica, clusterVars, Steps
<1>4. CASE StartReplica(r)
  <2>1. hasContainer' \in [Members -> BOOLEAN]
    BY <1>4, Zenon DEF TypeOK, StartReplica
  <2>2. status' \in [Members -> Statuses] /\ degraded' \in BOOLEAN
    BY <1>4, Zenon DEF TypeOK, StartReplica, Written, Statuses
  <2>3. container' \in [Members -> ContainerStates]
    BY <1>4, Zenon DEF TypeOK, StartReplica, ContainerStates
  <2> QED
    BY <1>4, <2>1, <2>2, <2>3, Zenon
    DEF TypeOK, StartReplica, clusterVars, Steps
<1>5. CASE ProvisionFails(r)
  <2>1. PICK b : /\ b \in IF pc = "start" THEN Written(hasContainer[r], TRUE)
                                          ELSE {hasContainer[r]}
                 /\ hasContainer' = [hasContainer EXCEPT ![r] = b]
    BY <1>5, Zenon DEF ProvisionFails
  <2>2. b \in BOOLEAN
    BY <2>1, WrittenType, Zenon DEF TypeOK
  <2>3. hasContainer' \in [Members -> BOOLEAN]
    BY <2>1, <2>2, Zenon DEF TypeOK
  <2>4. status' \in [Members -> Statuses]
    BY <1>5 DEF TypeOK, ProvisionFails, Written, Statuses
  <2>5. container' \in [Members -> ContainerStates]
    BY <1>5 DEF TypeOK, ProvisionFails, ContainerStates
  <2>6. lsn' \in [Members -> Nat] /\ replay' \in [Members -> Nat]
    BY <1>5 DEF TypeOK, ProvisionFails
  <2> QED
    BY <1>5, <2>3, <2>4, <2>5, <2>6, Zenon
    DEF TypeOK, ProvisionFails, clusterVars, Steps
<1> QED
  BY <1>1, <1>2, <1>3, <1>4, <1>5, Zenon

\* repointRouter keeps every type.
LEMMA RouterType ==
    ASSUME TypeOK, newP \in Members, ReattachDone \/ RemoveRouter \/ StartRouter
    PROVE  TypeOK'
<1>1. CASE ReattachDone
  BY <1>1, Zenon DEF TypeOK, ReattachDone, pgVars, rowVars, clusterVars, Steps
<1>2. CASE RemoveRouter
  BY <1>2, Zenon DEF TypeOK, RemoveRouter, pgVars, rowVars, Steps
<1>3. CASE StartRouter
  BY <1>3, Zenon DEF TypeOK, StartRouter, pgVars, rowVars, Steps
<1> QED
  BY <1>1, <1>2, <1>3, Zenon

\* The final status of failover() keeps every type.
LEMMA FinishType == ASSUME TypeOK, Finish PROVE TypeOK'
<1>1. cstatus' \in ClusterStatuses
  BY Zenon DEF TypeOK, Finish, Written, FinalStatus, ClusterStatuses
<1> QED
  BY <1>1, ReturnType, Zenon DEF TypeOK, Finish, pgVars, rowVars

\* A crash keeps every type.
LEMMA CrashType == ASSUME TypeOK, Crash PROVE TypeOK'
<1>1. unrecorded' \in BOOLEAN
  BY Zenon DEF Crash
<1>2. failures' \in 0 .. Threshold - 1
  BY ConstantsAssumption, SMTT(30) DEF Crash
<1> QED
  BY <1>1, <1>2, ReturnType, Zenon
  DEF TypeOK, Crash, pgVars, rowVars, clusterVars

\* What the members do by themselves keeps every type.
LEMMA EnvironmentType == ASSUME TypeOK, Environment PROVE TypeOK'
<1> PICK m \in Members : \/ MemberStops(m) \/ ContainerLost(m)
                         \/ MemberRestarts(m) \/ PromotionCompletes(m)
                         \/ ClientWrites(m) \/ StandbyStreams(m)
  BY Zenon DEF Environment
<1> USE DEF TypeOK, memberFrame, rowVars, clusterVars, localVars
<1>1. CASE MemberStops(m)
  BY <1>1 DEF MemberStops, ContainerStates
<1>2. CASE ContainerLost(m)
  BY <1>2 DEF ContainerLost, ContainerStates
<1>3. CASE MemberRestarts(m)
  BY <1>3, Zenon DEF MemberRestarts, ContainerStates
<1>4. CASE PromotionCompletes(m)
  BY <1>4, Zenon DEF PromotionCompletes
<1>5. CASE ClientWrites(m)
  BY <1>5 DEF ClientWrites
<1>6. CASE StandbyStreams(m)
  BY <1>6 DEF StandbyStreams
<1> QED
  BY <1>1, <1>2, <1>3, <1>4, <1>5, <1>6, Zenon

-------------------------------------------------------------------------------
(* Steps that touch neither a member nor a role.                            *)

\* Such a step keeps the facts about rows and containers.
LEMMA QuietFrame ==
    ASSUME IInv,
           UNCHANGED <<container, standby, promoting, role, hasContainer>>
    PROVE  /\ OnePrimaryRow' /\ PromotingRuns' /\ PrimaryRowContainer'
           /\ ForgottenNeverWrites'
           /\ Writers' = Writers
BY Zenon DEF IInv, OnePrimaryRow, PromotingRuns, PrimaryRowContainer,
       ForgottenNeverWrites, Writers

\* Giving up before the promotion keeps the writers under the primary row.
LEMMA QuietAbort ==
    ASSUME IInv, Abort, pc \in {"quorum", "elect"},
           UNCHANGED <<container, standby, promoting, role, hasContainer,
                       unrecorded>>
    PROVE  LocalsInv' /\ FenceBeforePromote' /\ LeaseInv'
<1>1. LocalsInv'
  BY Zenon DEF Abort, Return, LocalsInv, Elected, BeforeFence, Unfenced
<1>2. FenceBeforePromote'
  BY Zenon DEF Abort, Return, FenceBeforePromote
<1>3. LeaseInv'
  BY QuietFrame, Zenon
  DEF IInv, LocalsInv, LeaseInv, Abort, Return, Unfenced, Promoted
<1> QED
  BY <1>1, <1>2, <1>3, Zenon

\* Controller.Run starts a failover from a snapshot of the rows.
LEMMA RunStep ==
    ASSUME IInv, RunReachable \/ RunStrike \/ RunFailover
    PROVE  IInv' /\ Writers' \subseteq Writers
<1>1. TypeOK'
  BY RunType, Zenon DEF IInv
<1>2. /\ UNCHANGED <<container, standby, promoting, role, hasContainer>>
      /\ UNCHANGED <<cstatus, unrecorded, newP, todo>>
      /\ Examined /\ pc' \in {"idle", "quorum"}
  BY Zenon DEF RunReachable, RunStrike, RunFailover, Examined, pgVars, rowVars,
         clusterVars, localVars
<1>3. LocalsInv'
  <2>1. CASE RunFailover
    BY <1>2, <2>1, Zenon
    DEF IInv, LocalsInv, RunFailover, Examined, IsPrimaryOf,
                      Elected, BeforeFence, Unfenced
  <2>2. CASE RunReachable \/ RunStrike
    BY <1>2, <2>2, Zenon DEF IInv, LocalsInv, RunReachable, RunStrike, Examined,
                      localVars, Elected, BeforeFence, Unfenced
  <2> QED
    BY <2>1, <2>2, Zenon
<1>4. FenceBeforePromote'
  BY <1>2, Zenon DEF FenceBeforePromote
<1>5. LeaseInv'
  BY <1>2, QuietFrame, Zenon DEF IInv, LeaseInv, Examined, Unfenced, Promoted
<1> QED
  BY <1>1, <1>2, <1>3, <1>4, <1>5, QuietFrame, Zenon DEF IInv

\* The quorum check of failover() keeps the invariant.
LEMMA CheckQuorumStep ==
    ASSUME IInv, CheckQuorum
    PROVE  IInv' /\ Writers' \subseteq Writers
<1>1. TypeOK'
  BY CheckQuorumType, Zenon DEF IInv
<1>2. UNCHANGED <<container, standby, promoting, role, hasContainer, unrecorded>>
  BY Zenon DEF CheckQuorum, pgVars, rowVars
<1>3. CASE Abort
  BY <1>1, <1>2, <1>3, QuietFrame, QuietAbort, Zenon DEF IInv, CheckQuorum
<1>4. CASE ~Abort
  <2>1. /\ pc = "quorum" /\ pc' = "elect"
        /\ UNCHANGED <<cstatus, oldPrimary, replicas, newP, todo>>
    BY <1>4, Zenon DEF CheckQuorum, clusterVars
  <2>2. LocalsInv'
    BY <1>2, <2>1, Zenon DEF IInv, LocalsInv, IsPrimaryOf, Elected, BeforeFence,
                      Unfenced
  <2>3. FenceBeforePromote'
    BY <2>1, Zenon DEF FenceBeforePromote
  <2>4. LeaseInv'
    BY <1>2, <2>1, QuietFrame, Zenon DEF IInv, LeaseInv, Unfenced, Promoted
  <2> QED
    BY <1>1, <1>2, <2>2, <2>3, <2>4, QuietFrame, Zenon DEF IInv
<1> QED
  BY <1>3, <1>4, Zenon

\* elect() picks a member whose row names a container.
LEMMA ElectStep ==
    ASSUME IInv, Elect
    PROVE  IInv' /\ Writers' \subseteq Writers
<1>1. TypeOK'
  BY ElectType, Zenon DEF IInv
<1>2. UNCHANGED <<container, standby, promoting, role, hasContainer, unrecorded>>
  BY Zenon DEF Elect, pgVars, rowVars
<1>3. CASE Abort
  BY <1>1, <1>2, <1>3, QuietFrame, QuietAbort, Zenon DEF IInv, Elect
<1>4. CASE ~Abort
  <2>1. /\ pc = "elect" /\ pc' = "fence"
        /\ newP' \in replicas /\ hasContainer[newP']
        /\ UNCHANGED <<cstatus, oldPrimary, replicas, todo>>
    BY <1>4, Zenon DEF Elect, ProbeResult, MayAnswer, IsElected, clusterVars
  <2>2. LocalsInv'
    BY <1>2, <2>1, Zenon DEF IInv, LocalsInv, IsPrimaryOf, BeforeFence, Unfenced
  <2>3. FenceBeforePromote'
    BY <2>1, Zenon DEF FenceBeforePromote
  <2>4. LeaseInv'
    BY <1>2, <2>1, QuietFrame, Zenon DEF IInv, LeaseInv, Unfenced, Promoted
  <2> QED
    BY <1>1, <1>2, <2>2, <2>3, <2>4, QuietFrame, Zenon DEF IInv
<1> QED
  BY <1>3, <1>4, Zenon

\* Nothing on record to fence: the primary row, if any, has no container and
\* so is no writer.
LEMMA FenceNothingStep ==
    ASSUME IInv, FenceNothing
    PROVE  IInv' /\ Writers' \subseteq Writers
<1>1. TypeOK'
  BY FenceType, Zenon DEF IInv
<1>2. /\ UNCHANGED <<container, standby, promoting, role, hasContainer>>
      /\ UNCHANGED <<cstatus, oldPrimary, replicas, newP, todo, unrecorded>>
      /\ pc = "fence" /\ pc' = "promote"
      /\ oldPrimary = NoMember \/ ~hasContainer[oldPrimary]
  BY Zenon DEF FenceNothing, pgVars, rowVars, clusterVars
<1>3. \A m \in Members : role[m] = "primary" => m = oldPrimary /\ ~hasContainer[m]
  BY <1>2, MembersFact, Zenon
     DEF IInv, TypeOK, LocalsInv, IsPrimaryOf, OnePrimaryRow, BeforeFence
<1>4. LocalsInv'
  BY <1>2, Zenon DEF IInv, LocalsInv, Elected, BeforeFence, Unfenced
<1>5. FenceBeforePromote'
  BY <1>2, <1>3, Zenon DEF IInv, FenceBeforePromote, PrimaryRowContainer
<1>6. LeaseInv'
  <2>1. unrecorded \/ Writers = {}
    BY <1>2, <1>3 DEF IInv, TypeOK, LocalsInv, LeaseInv, Unfenced, Promoted,
                      ForgottenNeverWrites, Writers
  <2> QED
    BY <1>2, <2>1, QuietFrame, Zenon DEF LeaseInv, Unfenced, Promoted
<1> QED
  BY <1>1, <1>2, <1>4, <1>5, <1>6, QuietFrame, Zenon DEF IInv

\* SetPrimary starts the reattach loop without the promoted member.
LEMMA SetPrimaryStep ==
    ASSUME IInv, SetPrimary
    PROVE  IInv' /\ Writers' \subseteq Writers
<1>1. /\ UNCHANGED <<container, standby, promoting, role, hasContainer>>
      /\ UNCHANGED <<oldPrimary, replicas, newP, unrecorded>>
      /\ pc = "setPrimary" /\ pc' = "reattach"
      /\ todo' = replicas \ {newP}
      /\ cstatus' \in {cstatus, "degraded"}
  BY Zenon DEF SetPrimary, Written, pgVars, rowVars
<1>2. TypeOK'
  BY <1>1, RecordType, PromotedIsMember, Zenon DEF IInv, Elected
<1>3. LocalsInv'
  BY <1>1, Zenon DEF IInv, LocalsInv, Elected, BeforeFence, Unfenced
<1>4. FenceBeforePromote'
  BY <1>1, Zenon DEF FenceBeforePromote
<1>5. LeaseInv'
  BY <1>1, QuietFrame, Zenon DEF IInv, LocalsInv, LeaseInv, Unfenced, Promoted
<1> QED
  BY <1>1, <1>2, <1>3, <1>4, <1>5, QuietFrame, Zenon DEF IInv

\* repointRouter keeps the invariant.
LEMMA RouterStep ==
    ASSUME IInv, ReattachDone \/ RemoveRouter \/ StartRouter
    PROVE  IInv' /\ Writers' \subseteq Writers
<1>1. /\ UNCHANGED <<container, standby, promoting, role, hasContainer>>
      /\ UNCHANGED <<cstatus, oldPrimary, replicas, newP, todo, unrecorded>>
      /\ pc \in {"reattach", "removeRouter", "startRouter"} /\ todo = {}
      /\ pc' \in {"removeRouter", "startRouter", "finish"}
  BY Zenon DEF IInv, LocalsInv, ReattachDone, RemoveRouter, StartRouter, pgVars,
         rowVars, clusterVars
<1>2. TypeOK'
  BY <1>1, RouterType, PromotedIsMember, Zenon DEF IInv, Elected
<1>3. LocalsInv'
  BY <1>1, Zenon DEF IInv, LocalsInv, Elected, BeforeFence, Unfenced
<1>4. FenceBeforePromote'
  BY <1>1, Zenon DEF FenceBeforePromote
<1>5. LeaseInv'
  BY <1>1, QuietFrame, Zenon DEF IInv, LeaseInv, Unfenced, Promoted
<1> QED
  BY <1>1, <1>2, <1>3, <1>4, <1>5, QuietFrame, Zenon DEF IInv

\* The final status of failover() keeps the invariant.
LEMMA FinishStep ==
    ASSUME IInv, Finish
    PROVE  IInv' /\ Writers' \subseteq Writers
<1>1. /\ UNCHANGED <<container, standby, promoting, role, hasContainer,
                     unrecorded>>
      /\ pc = "finish" /\ Return
  BY Zenon DEF Finish, pgVars, rowVars
<1>2. TypeOK'
  BY FinishType, Zenon DEF IInv
<1>3. LocalsInv' /\ FenceBeforePromote'
  BY <1>1, Zenon
  DEF Return, LocalsInv, FenceBeforePromote, Elected, BeforeFence,
              Unfenced
<1>4. LeaseInv'
  BY <1>1, QuietFrame, Zenon
  DEF IInv, LocalsInv, LeaseInv, Return, Unfenced, Promoted
<1> QED
  BY <1>1, <1>2, <1>3, <1>4, QuietFrame, Zenon DEF IInv

\* Dying between the promotion and its record is what "unrecorded" remembers.
LEMMA CrashStep ==
    ASSUME IInv, Crash
    PROVE  IInv' /\ Writers' \subseteq Writers
<1>1. /\ UNCHANGED <<container, standby, promoting, role, hasContainer, cstatus>>
      /\ pc # "idle" /\ Return
      /\ unrecorded' = (unrecorded \/ pc \in {"demote", "setRole"})
  BY Zenon DEF Crash, pgVars, rowVars, clusterVars
<1>2. TypeOK'
  BY CrashType, Zenon DEF IInv
<1>3. LocalsInv' /\ FenceBeforePromote'
  BY <1>1, Zenon
  DEF Return, LocalsInv, FenceBeforePromote, Elected, BeforeFence,
              Unfenced
<1>4. LeaseInv'
  BY <1>1, QuietFrame, Zenon DEF IInv, LocalsInv, LeaseInv, Return, Unfenced, Promoted
<1> QED
  BY <1>1, <1>2, <1>3, <1>4, QuietFrame, Zenon DEF IInv

-------------------------------------------------------------------------------
(* Fencing and promoting.                                                   *)

\* The only writer is the primary row, so removing its container leaves none.
LEMMA FenceRemovesStep ==
    ASSUME IInv, FenceRemoves
    PROVE  IInv' /\ Writers' \subseteq Writers
<1> USE MembersFact
<1>1. TypeOK'
  BY FenceType, Zenon DEF IInv
<1>2. /\ UNCHANGED <<standby, role, hasContainer, cstatus, unrecorded>>
      /\ UNCHANGED <<oldPrimary, replicas, newP, todo>>
      /\ pc = "fence" /\ pc' = "forget"
      /\ oldPrimary \in Members /\ role[oldPrimary] = "primary"
      /\ container' = [container EXCEPT ![oldPrimary] = "gone"]
      /\ promoting' = promoting \ {oldPrimary}
  BY Zenon DEF IInv, LocalsInv, BeforeFence, IsPrimaryOf, FenceRemoves, rowVars,
         clusterVars
<1>3. Writers' = Writers \ {oldPrimary}
  BY <1>2, Zenon DEF IInv, TypeOK, Writers
<1>4. LocalsInv'
  BY <1>2, Zenon DEF IInv, TypeOK, LocalsInv, Elected, BeforeFence, Unfenced,
              IsPrimaryOf
<1>5. OnePrimaryRow' /\ PromotingRuns' /\ PrimaryRowContainer'
  BY <1>2 DEF IInv, TypeOK, OnePrimaryRow, PromotingRuns, PrimaryRowContainer
<1>6. ForgottenNeverWrites' /\ FenceBeforePromote'
  BY <1>2, <1>3, Zenon DEF IInv, ForgottenNeverWrites, FenceBeforePromote
<1>7. LeaseInv'
  BY <1>2, <1>3 DEF IInv, LocalsInv, LeaseInv, OnePrimaryRow, Unfenced,
                    Promoted, TypeOK, Writers
<1> QED
  BY <1>1, <1>3, <1>4, <1>5, <1>6, <1>7, Zenon DEF IInv

\* A failed fence aborts the failover, with the primary row unchanged.
LEMMA FenceFailsStep ==
    ASSUME IInv, FenceFails
    PROVE  IInv' /\ Writers' \subseteq Writers
<1> USE MembersFact
<1>1. TypeOK'
  BY FenceType, Zenon DEF IInv
<1>2. /\ UNCHANGED <<standby, role, hasContainer, unrecorded>>
      /\ pc = "fence" /\ Abort
      /\ oldPrimary \in Members /\ hasContainer[oldPrimary]
  BY Zenon DEF IInv, TypeOK, FenceFails, rowVars
<1>3. /\ promoting' \subseteq promoting
      /\ \A m \in promoting' : container'[m] = container[m]
      /\ \A m \in Members : container[m] = "gone" <=> container'[m] = "gone"
  BY <1>2 DEF IInv, TypeOK, FenceFails
<1>4. Writers' \subseteq Writers
  BY <1>2, <1>3, Zenon DEF Writers
<1>5. LocalsInv' /\ FenceBeforePromote'
  BY <1>2, Zenon DEF Abort, Return, LocalsInv, FenceBeforePromote, Elected,
              BeforeFence, Unfenced
<1>6. OnePrimaryRow' /\ PromotingRuns' /\ PrimaryRowContainer'
  BY <1>2, <1>3, Zenon
  DEF IInv, OnePrimaryRow, PromotingRuns, PrimaryRowContainer
<1>7. ForgottenNeverWrites'
  BY <1>2, <1>4, Zenon DEF IInv, ForgottenNeverWrites
<1>8. LeaseInv'
  BY <1>2, <1>4, Zenon
  DEF IInv, LocalsInv, LeaseInv, Abort, Return, Unfenced, Promoted
<1> QED
  BY <1>1, <1>4, <1>5, <1>6, <1>7, <1>8, Zenon DEF IInv

\* Fence forgets the container only after it is gone.
LEMMA FenceForgetsStep ==
    ASSUME IInv, FenceForgets
    PROVE  IInv' /\ Writers' \subseteq Writers
<1> USE MembersFact
<1>1. TypeOK'
  BY FenceType, Zenon DEF IInv
<1>2. /\ UNCHANGED <<container, standby, promoting, role, cstatus, unrecorded>>
      /\ UNCHANGED <<oldPrimary, replicas, newP, todo>>
      /\ pc = "forget" /\ pc' = "promote"
      /\ oldPrimary \in Members /\ role[oldPrimary] = "primary"
      /\ container[oldPrimary] = "gone"
  BY Zenon DEF IInv, LocalsInv, IsPrimaryOf, FenceForgets, pgVars, clusterVars
<1>3. \A m \in Members : m # oldPrimary => hasContainer'[m] = hasContainer[m]
  BY <1>2, Zenon DEF IInv, TypeOK, FenceForgets
<1>4. /\ Writers' = Writers
      /\ oldPrimary \notin promoting /\ oldPrimary \notin Writers
  BY <1>2, Zenon DEF IInv, Writers, PromotingRuns
<1>5. newP \in replicas /\ hasContainer'[newP]
  BY <1>2, <1>3, Zenon DEF IInv, TypeOK, LocalsInv, Elected, Unfenced
<1>6. LocalsInv'
  BY <1>2, <1>5, Zenon DEF IInv, LocalsInv, Elected, BeforeFence, Unfenced
<1>7. OnePrimaryRow' /\ PromotingRuns' /\ PrimaryRowContainer'
  <2>1. OnePrimaryRow'
    BY <1>2, Zenon DEF IInv, OnePrimaryRow
  <2>2. PromotingRuns'
    BY <1>2, <1>3, <1>4, Zenon DEF IInv, TypeOK, PromotingRuns
  <2>3. PrimaryRowContainer'
    BY <1>2, <1>3, Zenon DEF IInv, OnePrimaryRow, PrimaryRowContainer
  <2> QED
    BY <2>1, <2>2, <2>3, Zenon
<1>8. ForgottenNeverWrites' /\ FenceBeforePromote'
  BY <1>2, <1>3, <1>4, Zenon
     DEF IInv, ForgottenNeverWrites, FenceBeforePromote, OnePrimaryRow
<1>9. LeaseInv'
  BY <1>2, <1>4, Zenon DEF IInv, LeaseInv, Unfenced, Promoted
<1> QED
  BY <1>1, <1>4, <1>6, <1>7, <1>8, <1>9, Zenon DEF IInv

\* Promoting when nobody may write makes the promoted member the only writer.
LEMMA PromoteFrame ==
    ASSUME IInv, pc = "promote", CanPromote, PromoteEffect,
           UNCHANGED <<container, hasContainer, role>>
    PROVE  /\ Writers' = Writers \cup {newP}
           /\ OnePrimaryRow' /\ PromotingRuns' /\ PrimaryRowContainer'
           /\ ForgottenNeverWrites'
<1>1. newP \in Members /\ hasContainer[newP] /\ container[newP] = "running"
  BY PromotedIsMember, Zenon DEF Elected, CanPromote, MayAnswer
<1>2. Writers' = Writers \cup {newP}
  BY <1>1 DEF IInv, TypeOK, PromoteEffect, Writers
<1>3. OnePrimaryRow' /\ PromotingRuns' /\ PrimaryRowContainer'
  BY <1>1, Zenon DEF IInv, PromoteEffect, OnePrimaryRow, PromotingRuns,
              PrimaryRowContainer
<1>4. ForgottenNeverWrites'
  BY <1>1, <1>2, Zenon DEF IInv, ForgottenNeverWrites
<1> QED
  BY <1>2, <1>3, <1>4, Zenon

\* A successful promotion keeps the invariant.
LEMMA PromoteSucceedsStep == ASSUME IInv, PromoteSucceeds PROVE IInv'
<1>1. TypeOK'
  BY PromoteType, PromotedIsMember, Zenon
     DEF IInv, Elected, PromoteSucceeds, PromoteFails
<1>2. /\ UNCHANGED <<container, role, hasContainer, cstatus, unrecorded>>
      /\ UNCHANGED <<oldPrimary, replicas, newP, todo>>
      /\ pc = "promote" /\ pc' = "demote"
      /\ CanPromote /\ PromoteEffect
  BY Zenon DEF PromoteSucceeds, rowVars, clusterVars
<1>3. LocalsInv' /\ FenceBeforePromote'
  BY <1>2, Zenon DEF IInv, LocalsInv, FenceBeforePromote, Elected, BeforeFence,
              Unfenced
<1>4. LeaseInv'
  BY <1>2, PromoteFrame, Zenon DEF IInv, LeaseInv, Unfenced, Promoted
<1> QED
  BY <1>1, <1>2, <1>3, <1>4, PromoteFrame, Zenon DEF IInv

\* A promotion whose answer is lost leaves the cluster in error or unrecorded.
LEMMA PromoteFailsStep == ASSUME IInv, PromoteFails PROVE IInv'
<1>1. TypeOK'
  BY PromoteType, PromotedIsMember, Zenon
     DEF IInv, Elected, PromoteSucceeds, PromoteFails
<1>2. /\ UNCHANGED <<container, role, hasContainer>>
      /\ pc = "promote" /\ Abort
  BY Zenon DEF PromoteFails, rowVars
<1>3. LocalsInv' /\ FenceBeforePromote'
  BY <1>2, Zenon DEF Abort, Return, LocalsInv, FenceBeforePromote, Elected,
              BeforeFence, Unfenced
<1>4. CASE UNCHANGED <<standby, promoting>>
  <2>1. LeaseInv'
    BY <1>2, <1>4, QuietFrame, Zenon
       DEF IInv, PromoteFails, LeaseInv, Abort, Return, Unfenced, Promoted
  <2> QED
    BY <1>1, <1>2, <1>3, <1>4, <2>1, QuietFrame, Zenon DEF IInv
<1>5. CASE ~UNCHANGED <<standby, promoting>>
  <2>1. CanPromote /\ PromoteEffect
    BY <1>5, Zenon DEF PromoteFails
  <2>2. unrecorded' \/ (~unrecorded /\ cstatus' = "error")
    BY <1>5, Zenon DEF IInv, TypeOK, PromoteFails
  <2>3. LeaseInv'
    BY <1>2, <2>1, <2>2, PromoteFrame, Zenon
       DEF IInv, LeaseInv, Abort, Return, Unfenced, Promoted
  <2> QED
    BY <1>1, <1>2, <1>3, <2>1, <2>3, PromoteFrame, Zenon DEF IInv
<1> QED
  BY <1>4, <1>5, Zenon

-------------------------------------------------------------------------------
(* Recording the promotion.                                                 *)

\* Demoting the old primary frees the role or leaves the rows alone.
LEMMA DemoteOldStep ==
    ASSUME IInv, DemoteOld
    PROVE  IInv' /\ Writers' \subseteq Writers
<1> USE MembersFact
<1>1. /\ UNCHANGED <<container, standby, promoting, hasContainer>>
      /\ UNCHANGED <<cstatus, unrecorded, oldPrimary, replicas, newP, todo>>
      /\ pc = "demote" /\ pc' = "setRole"
  BY Zenon DEF DemoteOld, pgVars, clusterVars
<1>2. TypeOK'
  BY <1>1, RecordType, PromotedIsMember, Zenon DEF IInv, Elected
<1>3. \A m \in Members : role'[m] = role[m] \/ role'[m] = "replica"
  BY SMTT(30) DEF IInv, TypeOK, DemoteOld, Written
<1>4. LocalsInv' /\ FenceBeforePromote'
  BY <1>1, <1>3, Zenon DEF IInv, TypeOK, LocalsInv, FenceBeforePromote, Elected,
                    BeforeFence, Unfenced
<1>5. OnePrimaryRow' /\ PromotingRuns' /\ PrimaryRowContainer'
  BY <1>1, <1>3 DEF IInv, OnePrimaryRow, PromotingRuns, PrimaryRowContainer
<1>6. ForgottenNeverWrites' /\ Writers' = Writers
  BY <1>1, Zenon DEF IInv, ForgottenNeverWrites, Writers
<1>7. LeaseInv'
  BY <1>1, <1>6, Zenon DEF IInv, LeaseInv, Unfenced, Promoted
<1> QED
  BY <1>2, <1>4, <1>5, <1>6, <1>7, Zenon DEF IInv

\* The promoted member takes the role, or the promotion is unrecorded.
LEMMA SetRoleStep ==
    ASSUME IInv, SetRole
    PROVE  IInv' /\ Writers' \subseteq Writers
<1> USE MembersFact
<1>1. /\ UNCHANGED <<container, standby, promoting, hasContainer>>
      /\ UNCHANGED <<cstatus, oldPrimary, replicas, newP, todo>>
      /\ pc = "setRole" /\ pc' = "setPrimary"
      /\ newP \in Members
  BY PromotedIsMember, Zenon DEF SetRole, pgVars, clusterVars, Elected
<1>2. TypeOK'
  BY <1>1, RecordType, PromotedIsMember, Zenon DEF IInv, Elected
<1>3. \/ /\ RoleFree /\ UNCHANGED unrecorded
         /\ role' = [role EXCEPT ![newP] = "primary"]
      \/ unrecorded' = TRUE /\ UNCHANGED role
  BY Zenon DEF SetRole
<1>4. \A m \in Members : m # newP => role'[m] = role[m]
  BY <1>3, SMTT(30) DEF IInv, TypeOK
<1>5. LocalsInv' /\ FenceBeforePromote'
  BY <1>1, <1>4, Zenon DEF IInv, TypeOK, LocalsInv, FenceBeforePromote, Elected,
                    BeforeFence, Unfenced
<1>6. OnePrimaryRow'
  <2>1. CASE UNCHANGED role
    BY <2>1, Zenon DEF IInv, OnePrimaryRow
  <2>2. CASE RoleFree /\ role' = [role EXCEPT ![newP] = "primary"]
    <3>1. \A m \in Members \ {newP} : role'[m] # "primary"
      BY <1>4, <2>2, Zenon DEF RoleFree
    <3> QED
      BY <3>1, Zenon DEF OnePrimaryRow
  <2> QED
    BY <1>3, <2>1, <2>2, Zenon
<1>7. PromotingRuns' /\ PrimaryRowContainer'
  BY <1>1, <1>4, <1>5 DEF IInv, LocalsInv, Elected, PromotingRuns,
                          PrimaryRowContainer
<1>8. ForgottenNeverWrites' /\ Writers' = Writers
  BY <1>1, Zenon DEF IInv, ForgottenNeverWrites, Writers
<1>9. LeaseInv'
  BY <1>1, <1>3, <1>8 DEF IInv, TypeOK, LeaseInv, Unfenced, Promoted
<1> QED
  BY <1>2, <1>5, <1>6, <1>7, <1>8, <1>9, Zenon DEF IInv

-------------------------------------------------------------------------------
(* Re-cloning a replica: only that replica changes, and it gains no right to *)
(* write.                                                                    *)

\* What a step of the reattach loop on replica r must satisfy.
LEMMA ReattachFrame ==
    ASSUME IInv, TypeOK', NEW r \in Members, IsNext(r),
           pc \in {"reattach", "clone", "start"},
           pc' \in {"reattach", "clone", "start"},
           UNCHANGED <<role, cstatus, unrecorded, oldPrimary, replicas, newP>>,
           \A m \in Members \ {r} : /\ container'[m] = container[m]
                                    /\ hasContainer'[m] = hasContainer[m],
           promoting' \subseteq promoting,
           r \in promoting' => container'[r] = "running" /\ hasContainer'[r],
           Writers' \subseteq Writers,
           r \in Writers' => hasContainer'[r],
           todo' \subseteq todo,
           pc' \in {"clone", "start"} => todo' = todo /\ r \notin promoting',
           pc' = "clone" => container'[r] = "gone"
    PROVE  IInv' /\ Writers' \subseteq Writers
<1> USE MembersFact
<1>1. r \in replicas /\ r # newP /\ role[r] = "replica"
  BY Zenon DEF IInv, LocalsInv, IsNext
<1>2. \A s \in Members : (IsNext(s))' /\ todo' = todo => s = r
  BY DEF IInv, TypeOK, IsNext
<1>3. newP \in replicas /\ hasContainer'[newP]
  BY <1>1, PromotedIsMember, Zenon DEF IInv, LocalsInv, Elected
<1>4. LocalsInv'
  BY <1>2, <1>3, Zenon DEF IInv, LocalsInv, Elected, BeforeFence, Unfenced
<1>5. OnePrimaryRow' /\ PromotingRuns' /\ PrimaryRowContainer'
  <2>1. OnePrimaryRow'
    BY Zenon DEF IInv, OnePrimaryRow
  <2>2. PromotingRuns'
    BY <1>1 DEF IInv, TypeOK, PromotingRuns
  <2>3. PrimaryRowContainer'
    BY <1>1, Zenon DEF IInv, PrimaryRowContainer
  <2> QED
    BY <2>1, <2>2, <2>3, Zenon
<1>6. ForgottenNeverWrites' /\ FenceBeforePromote'
  BY Zenon DEF IInv, ForgottenNeverWrites, FenceBeforePromote
<1>7. LeaseInv'
  BY Zenon DEF IInv, LeaseInv, Unfenced, Promoted
<1> QED
  BY <1>4, <1>5, <1>6, <1>7, Zenon DEF IInv

\* What the steps of the loop have in common.
LEMMA ReattachShape ==
    ASSUME IInv, NEW r \in Members,
           \/ PrepareReclone(r) \/ PrepareFails(r) \/ CloneReplica(r)
           \/ StartReplica(r) \/ ProvisionFails(r)
    PROVE  /\ pc \in {"reattach", "clone", "start"} /\ IsNext(r)
           /\ pc' \in {"reattach", "clone", "start"}
           /\ UNCHANGED <<role, cstatus, unrecorded, oldPrimary, replicas, newP>>
           /\ TypeOK'
<1>1. /\ pc \in {"reattach", "clone", "start"} /\ IsNext(r)
      /\ pc' \in {"reattach", "clone", "start"}
      /\ UNCHANGED <<role, cstatus, unrecorded, oldPrimary, replicas, newP>>
  BY Zenon DEF PrepareReclone, PrepareFails, CloneReplica, StartReplica,
               ProvisionFails, clusterVars
<1> QED
  BY <1>1, ReattachType, PromotedIsMember, Zenon DEF IInv, Elected

\* Wiping a replica takes its container and any right to write.
LEMMA PrepareRecloneStep ==
    ASSUME IInv, NEW r \in Members, PrepareReclone(r)
    PROVE  IInv' /\ Writers' \subseteq Writers
<1>1. /\ container' = [container EXCEPT ![r] = "gone"]
      /\ promoting' = promoting \ {r}
      /\ UNCHANGED <<standby, todo>>
  BY Zenon DEF PrepareReclone
<1>2. PICK b \in Written(hasContainer[r], FALSE) :
         hasContainer' = [hasContainer EXCEPT ![r] = b]
  BY Zenon DEF PrepareReclone
<1>3. \A m \in Members \ {r} : hasContainer'[m] = hasContainer[m]
  BY <1>2, Zenon DEF IInv, TypeOK
<1>4. /\ \A m \in Members \ {r} : container'[m] = container[m]
      /\ container'[r] = "gone"
  BY <1>1, Zenon DEF IInv, TypeOK
<1>5. Writers' \subseteq Writers /\ r \notin Writers'
  BY <1>1, <1>4, Zenon DEF Writers
<1> QED
  BY <1>1, <1>3, <1>4, <1>5, ReattachShape, ReattachFrame, ZenonT(30)

\* A replica that cannot be wiped is left out, at most stopped.
LEMMA PrepareFailsStep ==
    ASSUME IInv, NEW r \in Members, PrepareFails(r)
    PROVE  IInv' /\ Writers' \subseteq Writers
<1>1. /\ UNCHANGED <<standby, hasContainer>> /\ pc' = "reattach"
      /\ promoting' \subseteq promoting /\ todo' \subseteq todo
  BY Zenon DEF PrepareFails
<1>2. /\ \A m \in Members \ {r} : container'[m] = container[m]
      /\ container[r] = "gone" => container'[r] = "gone"
      /\ r \in promoting' => container'[r] = container[r]
  BY Zenon DEF IInv, TypeOK, PrepareFails
<1>3. Writers' \subseteq Writers
  BY <1>1, <1>2, Zenon DEF Writers
<1> QED
  BY <1>1, <1>2, <1>3, ReattachShape, ReattachFrame, ZenonT(30)
     DEF IInv, PromotingRuns, ForgottenNeverWrites

\* The new copy is a standby.
LEMMA CloneReplicaStep ==
    ASSUME IInv, NEW r \in Members, CloneReplica(r)
    PROVE  IInv' /\ Writers' \subseteq Writers
<1>1. /\ container[r] = "gone" /\ r \notin promoting
      /\ UNCHANGED <<promoting, hasContainer, todo>> /\ pc' = "start"
      /\ container' = [container EXCEPT ![r] = "exited"]
      /\ standby' = [standby EXCEPT ![r] = TRUE]
  BY Zenon DEF IInv, LocalsInv, CloneReplica
<1>2. /\ \A m \in Members \ {r} : container'[m] = container[m]
      /\ \A m \in Members \ {r} : standby'[m] = standby[m]
      /\ standby'[r]
  BY <1>1, Zenon DEF IInv, TypeOK
<1>3. Writers' \subseteq Writers /\ r \notin Writers'
  BY <1>1, <1>2, Zenon DEF Writers
<1> QED
  BY <1>1, <1>2, <1>3, ReattachShape, ReattachFrame, Zenon

\* Starting it changes nothing about who may write.
LEMMA StartReplicaStep ==
    ASSUME IInv, NEW r \in Members, StartReplica(r)
    PROVE  IInv' /\ Writers' \subseteq Writers
<1>1. /\ container[r] # "gone" /\ pc' = "reattach"
      /\ UNCHANGED <<promoting, standby>> /\ todo' \subseteq todo
      /\ container' = [container EXCEPT ![r] = "running"]
      /\ hasContainer' = [hasContainer EXCEPT ![r] = TRUE]
  BY Zenon DEF StartReplica
<1>2. /\ \A m \in Members \ {r} : /\ container'[m] = container[m]
                                  /\ hasContainer'[m] = hasContainer[m]
      /\ container'[r] = "running" /\ hasContainer'[r]
  BY <1>1, Zenon DEF IInv, TypeOK
<1>3. Writers' \subseteq Writers
  BY <1>1, <1>2, Zenon DEF Writers
<1> QED
  BY <1>1, <1>2, <1>3, ReattachShape, ReattachFrame, ZenonT(30)

\* A failed re-clone at most removes the replica's container, and never
\* forgets one.
LEMMA ProvisionFailsStep ==
    ASSUME IInv, NEW r \in Members, ProvisionFails(r)
    PROVE  IInv' /\ Writers' \subseteq Writers
<1>1. /\ pc \in {"clone", "start"} /\ IsNext(r) /\ pc' = "reattach"
      /\ UNCHANGED <<promoting, standby>> /\ todo' \subseteq todo
  BY Zenon DEF ProvisionFails
<1>2. r \notin promoting
  BY <1>1, Zenon DEF IInv, LocalsInv
<1>3. PICK c \in {"gone", container[r]} :
         container' = [container EXCEPT ![r] = c]
  BY Zenon DEF ProvisionFails
<1>4. /\ \A m \in Members \ {r} : container'[m] = container[m]
      /\ container'[r] \in {"gone", container[r]}
  BY <1>3, Zenon DEF IInv, TypeOK
<1>5. PICK b \in IF pc = "start" THEN Written(hasContainer[r], TRUE)
                                 ELSE {hasContainer[r]} :
         hasContainer' = [hasContainer EXCEPT ![r] = b]
  BY Zenon DEF ProvisionFails
<1>6. hasContainer[r] => b
  BY <1>5, Zenon DEF Written
<1>7. /\ \A m \in Members \ {r} : hasContainer'[m] = hasContainer[m]
      /\ hasContainer[r] => hasContainer'[r]
  BY <1>5, <1>6, Zenon DEF IInv, TypeOK
<1>8. Writers' \subseteq Writers
  BY <1>1, <1>4, Zenon DEF Writers
<1>9. r \in Writers' => hasContainer'[r]
  BY <1>7, <1>8, Zenon DEF IInv, ForgottenNeverWrites
<1> QED
  BY <1>1, <1>2, <1>4, <1>7, <1>8, <1>9, ReattachShape, ReattachFrame, Zenon

-------------------------------------------------------------------------------
(* The members by themselves.                                               *)

\* What a step of the members must satisfy.
LEMMA EnvironmentFrame ==
    ASSUME IInv, TypeOK', UNCHANGED memberFrame,
           Writers' \subseteq Writers,
           promoting' \subseteq promoting,
           \A m \in promoting' : container'[m] = "running",
           \A m \in Members : container[m] = "gone" => container'[m] = "gone"
    PROVE  IInv' /\ Writers' \subseteq Writers
<1> USE MembersFact
<1>1. /\ UNCHANGED <<role, hasContainer, cstatus, unrecorded>>
      /\ UNCHANGED <<pc, oldPrimary, replicas, newP, todo>>
  BY SMTT(30) DEF memberFrame, rowVars, clusterVars, localVars
<1>2. LocalsInv'
  BY <1>1, Zenon DEF IInv, TypeOK, LocalsInv, IsPrimaryOf, IsNext
<1>3. OnePrimaryRow' /\ PromotingRuns' /\ PrimaryRowContainer'
  BY <1>1, Zenon DEF IInv, OnePrimaryRow, PromotingRuns, PrimaryRowContainer
<1>4. ForgottenNeverWrites' /\ FenceBeforePromote'
  BY <1>1, Zenon DEF IInv, ForgottenNeverWrites, FenceBeforePromote
<1>5. LeaseInv'
  BY <1>1, Zenon DEF IInv, LeaseInv
<1> QED
  BY <1>2, <1>3, <1>4, <1>5, Zenon DEF IInv

\* Each step of the members does.
LEMMA EnvironmentStep ==
    ASSUME IInv, Environment
    PROVE  IInv' /\ Writers' \subseteq Writers
<1> USE MembersFact
<1>1. TypeOK'
  BY EnvironmentType, Zenon DEF IInv
<1>2. PICK m \in Members :
         \/ MemberStops(m) \/ ContainerLost(m) \/ MemberRestarts(m)
         \/ PromotionCompletes(m) \/ ClientWrites(m) \/ StandbyStreams(m)
  BY Zenon DEF Environment
<1>3. UNCHANGED memberFrame
  BY <1>2, Zenon
  DEF MemberStops, ContainerLost, MemberRestarts, PromotionCompletes,
              ClientWrites, StandbyStreams, memberFrame
<1>4. CASE MemberStops(m) \/ ContainerLost(m) \/ MemberRestarts(m)
  <2>1. /\ UNCHANGED standby
        /\ promoting' \subseteq promoting
        /\ \A n \in promoting' : container'[n] = "running"
        /\ \A n \in Members : container[n] = "gone" => container'[n] = "gone"
    BY <1>4 DEF IInv, TypeOK, PromotingRuns, MemberStops, ContainerLost,
                MemberRestarts
  <2>2. Writers' \subseteq Writers
    BY <2>1, Zenon DEF Writers
  <2> QED
    BY <1>1, <1>3, <2>1, <2>2, EnvironmentFrame, Zenon
<1>5. CASE PromotionCompletes(m)
  <2>1. Writers' \subseteq Writers
    BY <1>5, Zenon DEF IInv, TypeOK, PromotionCompletes, Writers
  <2> QED
    BY <1>1, <1>3, <1>5, <2>1, EnvironmentFrame, Zenon
       DEF IInv, PromotingRuns, PromotionCompletes
<1>6. CASE ClientWrites(m) \/ StandbyStreams(m)
  <2>1. UNCHANGED <<container, standby, promoting>>
    BY <1>6, Zenon DEF ClientWrites, StandbyStreams
  <2>2. Writers' = Writers
    BY <2>1, Zenon DEF Writers
  <2> QED
    BY <1>1, <1>3, <2>1, <2>2, EnvironmentFrame, Zenon DEF IInv, PromotingRuns
<1> QED
  BY <1>2, <1>4, <1>5, <1>6, Zenon

-------------------------------------------------------------------------------
(* Safety.                                                                  *)

\* Every step keeps the invariant, and only a promotion makes a member a
\* writer.
LEMMA NextIInv ==
    ASSUME IInv, [Next]_vars
    PROVE  /\ IInv'
           /\ \/ PromoteSucceeds \/ PromoteFails
              \/ Writers' \subseteq Writers
<1>1. CASE RunReachable \/ RunStrike \/ RunFailover
  BY <1>1, RunStep, Zenon
<1>2. CASE CheckQuorum \/ Elect
  BY <1>2, CheckQuorumStep, ElectStep, Zenon
<1>3. CASE FenceNothing \/ FenceRemoves \/ FenceFails \/ FenceForgets
  BY <1>3, FenceNothingStep, FenceRemovesStep, FenceFailsStep, FenceForgetsStep,
     Zenon
<1>4. CASE PromoteSucceeds \/ PromoteFails
  BY <1>4, PromoteSucceedsStep, PromoteFailsStep, Zenon
<1>5. CASE DemoteOld \/ SetRole \/ SetPrimary
  BY <1>5, DemoteOldStep, SetRoleStep, SetPrimaryStep, Zenon
<1>6. CASE \E r \in Members : \/ PrepareReclone(r) \/ PrepareFails(r)
                              \/ CloneReplica(r) \/ StartReplica(r)
                              \/ ProvisionFails(r)
  BY <1>6, PrepareRecloneStep, PrepareFailsStep, CloneReplicaStep,
     StartReplicaStep, ProvisionFailsStep, Zenon
<1>7. CASE ReattachDone \/ RemoveRouter \/ StartRouter \/ Finish
  BY <1>7, RouterStep, FinishStep, Zenon
<1>8. CASE Crash \/ Environment
  BY <1>8, CrashStep, EnvironmentStep, Zenon
<1>9. CASE UNCHANGED vars
  <2>1. /\ UNCHANGED <<container, standby, promoting, role, hasContainer>>
        /\ UNCHANGED <<lsn, replay, source, router, outages, status>>
        /\ UNCHANGED <<cstatus, primaryID, routerKnown, failures, unrecorded>>
        /\ UNCHANGED <<pc, oldPrimary, replicas, newP, todo, degraded, metaErr>>
    BY <1>9, Zenon DEF vars, pgVars, rowVars, clusterVars, localVars
  <2>2. TypeOK'
    BY <2>1, Zenon DEF IInv, TypeOK
  <2>3. LocalsInv' /\ FenceBeforePromote'
    BY <2>1, Zenon DEF IInv, LocalsInv, FenceBeforePromote, IsPrimaryOf, IsNext
  <2>4. LeaseInv'
    BY <2>1, QuietFrame, Zenon DEF IInv, LeaseInv
  <2> QED
    BY <2>1, <2>2, <2>3, <2>4, QuietFrame, Zenon DEF IInv
<1> QED
  BY <1>1, <1>2, <1>3, <1>4, <1>5, <1>6, <1>7, <1>8, <1>9, Zenon
  DEF Next, Controller

\* The invariant holds in every behaviour of the controller, its crashes and
\* its environment.
THEOREM Invariance == Spec => []IInv
BY InitIInv, NextIInv, PTL DEF Spec

\* Every variable of the failover controller keeps to its domain.
THEOREM TypeCorrect == Spec => []TypeOK
<1>1. IInv => TypeOK
  BY Zenon DEF IInv
<1> QED
  BY <1>1, Invariance, PTL

\* failover() never lets two members be writable, for any number of members and
\* any pattern of outages, lost calls and crashes, as long as every promotion
\* it made is on record.
THEOREM SplitBrainFree == Spec => []NoSplitBrain
<1>1. IInv => NoSplitBrain
  BY Zenon DEF IInv, LeaseInv, NoSplitBrain
<1> QED
  BY <1>1, Invariance, PTL

\* The row of a writable member always names its container, also after lost
\* writes and crashes: an empty container_id is safe for Fence to skip.
THEOREM ForgottenSafe == Spec => []ForgottenNeverWrites
<1>1. IInv => ForgottenNeverWrites
  BY Zenon DEF IInv
<1> QED
  BY <1>1, Invariance, PTL

\* The promotion step of failover() is reached only when the container of the
\* primary on record is gone.
THEOREM FencedFirst == Spec => []FenceBeforePromote
<1>1. IInv => FenceBeforePromote
  BY Zenon DEF IInv
<1> QED
  BY <1>1, Invariance, PTL

-------------------------------------------------------------------------------
(* What a failover leaves behind: the data, and the status it reports.      *)

\* A member that holds data always remains, the promoted one once it is
\* elected, and what a member has replayed is in its WAL.
DataInv ==
    /\ PromotedCopySurvives
    /\ \A m \in Members : replay[m] > 0 => lsn[m] > 0

LEMMA NextData == ASSUME IInv, DataInv, [Next]_vars PROVE DataInv'
<1> USE MembersFact
<1>0. lsn \in [Members -> Nat] /\ replay \in [Members -> Nat]
  BY Zenon DEF IInv, TypeOK
<1>1. CASE UNCHANGED <<lsn, replay>> /\ (newP' = newP \/ newP' = NoMember)
  BY <1>1, Zenon DEF DataInv, PromotedCopySurvives
<1>2. CASE Elect
  <2>1. \/ UNCHANGED <<lsn, replay>> /\ newP' = NoMember
        \/ /\ UNCHANGED <<lsn, replay>>
           /\ newP' \in replicas /\ replay[newP'] > 0
    BY <1>2, Zenon DEF Elect, IsElected, Abort, Return, pgVars
  <2>2. replicas \subseteq Members
    BY Zenon DEF IInv, TypeOK
  <2> QED
    BY <1>1, <2>1, <2>2, Zenon DEF DataInv, PromotedCopySurvives
<1>3. ASSUME pc \in {"reattach", "clone", "start"}
      PROVE  newP \in Members /\ lsn[newP] > 0 /\ \A r \in Members : IsNext(r) => r # newP
  BY <1>3, PromotedIsMember, Zenon
  DEF IInv, LocalsInv, Elected, IsNext, DataInv, PromotedCopySurvives
<1>4. ASSUME NEW r \in Members, pc \in {"reattach", "clone", "start"}, IsNext(r), newP' = newP,
             NEW w \in Nat, NEW p \in Nat, p > 0 => w > 0,
             lsn' = [lsn EXCEPT ![r] = w], replay' = [replay EXCEPT ![r] = p]
      PROVE  DataInv'
  <2>1. newP \in Members /\ lsn'[newP] > 0
    BY <1>0, <1>3, <1>4, Zenon
  <2>2. \A m \in Members : replay'[m] > 0 => lsn'[m] > 0
    BY <1>0, <1>4, Zenon DEF DataInv
  <2> QED
    BY <1>4, <2>1, <2>2, Zenon DEF DataInv, PromotedCopySurvives
<1>5. CASE \E r \in Members : PrepareReclone(r) \/ CloneReplica(r) \/ ProvisionFails(r)
  <2>1. PICK r \in Members : PrepareReclone(r) \/ CloneReplica(r) \/ ProvisionFails(r)
    BY <1>5, Zenon
  <2>2. pc \in {"reattach", "clone", "start"} /\ IsNext(r) /\ newP' = newP
    BY <2>1, Zenon DEF PrepareReclone, CloneReplica, ProvisionFails
  <2>3. \/ UNCHANGED <<lsn, replay>>
        \/ lsn' = [lsn EXCEPT ![r] = 0] /\ replay' = [replay EXCEPT ![r] = 0]
        \/ lsn' = [lsn EXCEPT ![r] = lsn[newP]] /\ replay' = [replay EXCEPT ![r] = lsn[newP]]
    BY <2>1, Zenon DEF PrepareReclone, CloneReplica, ProvisionFails
  <2>4. lsn[newP] \in Nat
    BY <1>0, <1>3, <2>2, Zenon
  <2> QED
    BY <1>1, <1>4, <2>2, <2>3, <2>4, Zenon
<1>6. CASE Environment
  <2>1. PICK m \in Members : \/ MemberStops(m) \/ ContainerLost(m)
                             \/ MemberRestarts(m) \/ PromotionCompletes(m)
                             \/ ClientWrites(m) \/ StandbyStreams(m)
    BY <1>6, Zenon DEF Environment
  <2>2. newP' = newP
    BY <2>1, Zenon
    DEF MemberStops, ContainerLost, MemberRestarts, PromotionCompletes,
                ClientWrites, StandbyStreams, memberFrame, localVars
  <2>3. \/ UNCHANGED <<lsn, replay>>
        \/ UNCHANGED lsn /\ replay' = [replay EXCEPT ![m] = IF standby[m] THEN lsn[m] ELSE 0]
        \/ lsn' = [lsn EXCEPT ![m] = lsn[m] + 1] /\ UNCHANGED replay
        \/ lsn' = [lsn EXCEPT ![m] = lsn[m] + 1] /\ replay' = [replay EXCEPT ![m] = lsn[m] + 1]
    BY <2>1, Zenon DEF MemberStops, ContainerLost, MemberRestarts, PromotionCompletes,
                ClientWrites, StandbyStreams
  <2>4. \A n \in Members : /\ lsn[n] > 0 => lsn'[n] > 0
                           /\ replay'[n] > 0 => lsn'[n] > 0
    BY <1>0, <2>3 DEF DataInv
  <2> QED
    BY <2>2, <2>4, Zenon DEF DataInv, PromotedCopySurvives
<1>7. CASE RunReachable \/ RunStrike \/ RunFailover \/ CheckQuorum \/ Crash
  BY <1>1, <1>7, Zenon
  DEF RunReachable, RunStrike, RunFailover, CheckQuorum, Crash, Abort, Return,
                    pgVars, localVars
<1>8. CASE FenceNothing \/ FenceRemoves \/ FenceFails \/ FenceForgets \/ PromoteSucceeds \/ PromoteFails
  BY <1>1, <1>8, Zenon DEF FenceNothing, FenceRemoves, FenceFails, FenceForgets, PromoteSucceeds,
                    PromoteFails, Abort, Return, pgVars
<1>9. CASE DemoteOld \/ SetRole \/ SetPrimary \/ ReattachDone \/ RemoveRouter \/ StartRouter \/ Finish
  BY <1>1, <1>9, Zenon DEF DemoteOld, SetRole, SetPrimary, ReattachDone, RemoveRouter, StartRouter,
                    Finish, Return, pgVars
<1>10. CASE \E r \in Members : PrepareFails(r) \/ StartReplica(r)
  BY <1>1, <1>10, Zenon DEF PrepareFails, StartReplica
<1>11. CASE UNCHANGED vars
  BY <1>1, <1>11, Zenon DEF vars, pgVars, localVars
<1> QED
  BY <1>2, <1>5, <1>6, <1>7, <1>8, <1>9, <1>10, <1>11, Zenon
  DEF Next, Controller

\* The re-clone loop of failover() never wipes the last copy: for any number of
\* members, wherever calls fail or the control plane dies, some member holds the
\* data, and from the election on the elected one does.
THEOREM CopySurvives == Spec => []PromotedCopySurvives
<1>1. Init => DataInv
  BY ConstantsAssumption, SMTT(30) DEF Init, DataInv, PromotedCopySurvives, Members
<1>2. DataInv /\ IInv /\ [Next]_vars => DataInv'
  BY NextData, Zenon
<1>3. DataInv => PromotedCopySurvives
  BY Zenon DEF DataInv
<1> QED
  BY <1>1, <1>2, <1>3, Invariance, PTL DEF Spec

Reattaching == {"reattach", "clone", "start", "removeRouter", "startRouter", "finish"}

\* As long as nothing went wrong, the replicas the loop is done with are
\* recorded as up, and at the end the router serves the promoted member.
EarnedInv ==
    /\ pc \notin Reattaching => ~degraded
    /\ pc \in Reattaching /\ ~degraded =>
          \A r \in replicas : r # newP /\ r \notin todo => hasContainer[r] /\ status[r] = "running"
    /\ pc = "finish" /\ ~degraded => router = newP /\ routerKnown

LEMMA NextEarned == ASSUME IInv, EarnedInv, [Next]_vars PROVE EarnedInv'
<1> USE MembersFact
<1>0. /\ replicas \subseteq Members /\ todo \subseteq Members /\ degraded \in BOOLEAN
      /\ hasContainer \in [Members -> BOOLEAN] /\ status \in [Members -> Statuses]
  BY Zenon DEF IInv, TypeOK
<1>1. CASE degraded' = FALSE /\ pc' \notin Reattaching
  BY <1>1, Zenon DEF EarnedInv, Reattaching
<1>2. CASE pc \notin Reattaching /\ UNCHANGED degraded /\ pc' \notin Reattaching
  <2>1. ~degraded'
    BY <1>2, Zenon DEF EarnedInv
  <2> QED
    BY <1>2, <2>1, Zenon DEF EarnedInv, Reattaching
<1>3. CASE UNCHANGED <<pc, degraded, replicas, newP, todo, hasContainer, status, router, routerKnown>>
  BY <1>3, Zenon DEF EarnedInv
<1>4. CASE degraded' /\ pc' \in Reattaching
  BY <1>4, Zenon DEF EarnedInv
<1>5. CASE RunReachable \/ RunStrike \/ Environment \/ UNCHANGED vars
  BY <1>3, <1>5 DEF RunReachable, RunStrike, Environment, MemberStops, ContainerLost, MemberRestarts,
      PromotionCompletes, ClientWrites, StandbyStreams, memberFrame, vars, rowVars, localVars, clusterVars
<1>6. CASE RunFailover \/ CheckQuorum \/ Elect \/ Crash \/ Finish
  BY <1>1, <1>2, <1>6, Zenon
  DEF RunFailover, Examined, CheckQuorum, Elect, Crash, Finish, Abort, Return, Reattaching
<1>7. CASE FenceNothing \/ FenceRemoves \/ FenceFails \/ FenceForgets \/ PromoteSucceeds \/ PromoteFails
  BY <1>1, <1>2, <1>7, Zenon
  DEF FenceNothing, FenceRemoves, FenceFails, FenceForgets, PromoteSucceeds,
                    PromoteFails, Abort, Return, Reattaching
<1>8. CASE DemoteOld \/ SetRole
  BY <1>2, <1>8, Zenon DEF DemoteOld, SetRole, Reattaching
<1>9. CASE SetPrimary
  <2>1. /\ pc = "setPrimary" /\ pc' = "reattach" /\ UNCHANGED <<degraded, replicas, newP>>
        /\ todo' = replicas \ {newP}
    BY <1>9, Zenon DEF SetPrimary
  <2> QED
    BY <2>1, Zenon DEF EarnedInv, Reattaching
<1>10. ASSUME NEW r \in Members, IsNext(r), pc \in {"reattach", "clone", "start"},
              pc' \in {"reattach", "clone", "start"}, UNCHANGED <<replicas, newP>>,
              NEW b, NEW s, hasContainer' = [hasContainer EXCEPT ![r] = b],
              status' = [status EXCEPT ![r] = s],
              \/ degraded'
              \/ UNCHANGED <<degraded, todo>>
              \/ UNCHANGED degraded /\ todo' = todo \ {r} /\ b /\ s = "running"
       PROVE  EarnedInv'
  <2>1. CASE degraded'
    BY <1>4, <1>10, <2>1, Zenon DEF Reattaching
  <2>2. CASE ~degraded' /\ UNCHANGED degraded
    <3>1. \A q \in replicas : q # newP /\ q \notin todo => hasContainer[q] /\ status[q] = "running"
      BY <1>10, <2>2, Zenon DEF EarnedInv, Reattaching
    <3>2. \A q \in Members : q # r => hasContainer'[q] = hasContainer[q] /\ status'[q] = status[q]
      BY <1>0, <1>10, Zenon
    <3>3. r \in todo /\ status'[r] = s
      BY <1>0, <1>10, Zenon DEF IsNext
    <3>4. b => hasContainer'[r]
      BY <1>0, <1>10, Zenon
    <3>5. \A q \in replicas : q # newP /\ q \notin todo' => hasContainer'[q] /\ status'[q] = "running"
      BY <1>0, <1>10, <2>2, <3>1, <3>2, <3>3, <3>4
    <3> QED
      BY <1>10, <3>5, Zenon DEF EarnedInv, Reattaching
  <2> QED
    BY <1>10, <2>1, <2>2, Zenon
<1>11. CASE \E r \in Members : PrepareReclone(r) \/ CloneReplica(r)
  <2>1. PICK r \in Members : PrepareReclone(r) \/ CloneReplica(r)
    BY <1>11, Zenon
  <2>2. /\ IsNext(r) /\ pc \in {"reattach", "clone"} /\ pc' \in {"clone", "start"}
        /\ UNCHANGED <<replicas, newP, degraded, todo>>
    BY <2>1, Zenon DEF PrepareReclone, CloneReplica
  <2>3. hasContainer = [hasContainer EXCEPT ![r] = hasContainer[r]]
    BY <1>0, Zenon
  <2>4. /\ \E b : hasContainer' = [hasContainer EXCEPT ![r] = b]
        /\ \E s : status' = [status EXCEPT ![r] = s]
    BY <2>1, <2>3, Zenon DEF PrepareReclone, CloneReplica
  <2> QED
    BY <1>10, <2>2, <2>4, Zenon
<1>12. CASE \E r \in Members : StartReplica(r)
  <2>1. PICK r \in Members : StartReplica(r)
    BY <1>12, Zenon
  <2>2. /\ IsNext(r) /\ pc = "start" /\ pc' = "reattach" /\ UNCHANGED <<replicas, newP>>
        /\ hasContainer' = [hasContainer EXCEPT ![r] = TRUE] /\ todo' = todo \ {r}
        /\ \/ status' = [status EXCEPT ![r] = "running"] /\ UNCHANGED degraded
           \/ degraded' = TRUE
    BY <2>1, Zenon DEF StartReplica
  <2>3. CASE degraded' = TRUE
    BY <1>4, <2>2, <2>3, Zenon DEF Reattaching
  <2> QED
    BY <1>10, <2>2, <2>3, Zenon
<1>13. CASE \E r \in Members : PrepareFails(r) \/ ProvisionFails(r)
  BY <1>4, <1>13, Zenon DEF PrepareFails, ProvisionFails, Reattaching
<1>14. CASE ReattachDone \/ RemoveRouter
  <2>1. /\ pc \in Reattaching /\ pc' \in Reattaching /\ UNCHANGED <<replicas, newP, todo, hasContainer, status>>
        /\ degraded' \/ (UNCHANGED degraded /\ pc' # "finish")
    BY <1>14, Zenon DEF ReattachDone, RemoveRouter, Reattaching, rowVars
  <2> QED
    BY <1>4, <2>1 DEF EarnedInv
<1>15. CASE StartRouter
  <2>1. /\ pc \in Reattaching /\ pc' \in Reattaching /\ UNCHANGED <<replicas, newP, todo, hasContainer, status>>
        /\ degraded' \/ (UNCHANGED degraded /\ router' = newP /\ routerKnown')
    BY <1>15, Zenon DEF StartRouter, Reattaching, rowVars
  <2> QED
    BY <1>4, <2>1 DEF EarnedInv
<1> QED
  BY <1>5, <1>6, <1>7, <1>8, <1>9, <1>11, <1>12, <1>13, <1>14, <1>15, Zenon
  DEF Next, Controller

\* A failover reports "running" only of a cluster whose every other replica was
\* re-cloned and recorded and whose router serves the promoted member, wherever
\* the calls in between failed.
THEOREM RunningEarned == Spec => []RunningIsEarned
<1>1. Init => EarnedInv
  BY Zenon DEF Init, EarnedInv, Reattaching
<1>2. EarnedInv /\ IInv /\ [Next]_vars => EarnedInv'
  BY NextEarned, Zenon
<1>3. EarnedInv /\ IInv => RunningIsEarned
  <2> SUFFICES ASSUME EarnedInv, IInv, pc = "finish", ~degraded
               PROVE  /\ router = newP /\ routerKnown
                      /\ \A r \in replicas \ {newP} : hasContainer[r] /\ status[r] = "running"
    BY Zenon DEF RunningIsEarned
  <2>1. todo = {}
    BY Zenon DEF IInv, LocalsInv
  <2> QED
    BY <2>1, Zenon DEF EarnedInv, Reattaching
<1> QED
  BY <1>1, <1>2, <1>3, Invariance, PTL DEF Spec

-------------------------------------------------------------------------------
(* Refinement: while the meta database and the control plane stay up, every *)
(* promotion is recorded, and failover implements the writer lease.         *)

\* Every promotion is recorded; once the old primary is demoted, the role is
\* free for the promoted member.
Recorded ==
    /\ ~unrecorded
    /\ pc \in {"promote", "demote"} => IsPrimaryOf(oldPrimary)
    /\ pc = "setRole" => \A m \in Members : role[m] # "primary"

\* Without database faults and crashes every promotion gets recorded.
LEMMA NextRecorded ==
    ASSUME ~DBFaults, ~Crashes, IInv, Recorded, [Next]_vars
    PROVE  Recorded'
<1> USE MembersFact
<1>1. CASE UNCHANGED <<role, unrecorded, oldPrimary>>
           /\ (pc' = pc \/ pc' \notin {"promote", "demote", "setRole"})
  BY <1>1, Zenon DEF Recorded, IsPrimaryOf
<1>2. CASE FenceNothing \/ FenceForgets
  <2>1. /\ UNCHANGED <<role, unrecorded, oldPrimary>>
        /\ pc \in {"fence", "forget"} /\ pc' = "promote"
    BY <1>2, Zenon DEF FenceNothing, FenceForgets, rowVars
  <2> QED
    BY <2>1, Zenon DEF IInv, LocalsInv, BeforeFence, Recorded, IsPrimaryOf
<1>3. CASE PromoteSucceeds
  BY <1>3, Zenon DEF Recorded, IsPrimaryOf, PromoteSucceeds, rowVars
<1>4. CASE DemoteOld
  <2>1. UNCHANGED unrecorded /\ pc = "demote" /\ pc' = "setRole"
    BY <1>4, Zenon DEF DemoteOld
  <2>2. \A m \in Members : role'[m] # "primary"
    BY <1>4, <2>1 DEF IInv, TypeOK, OnePrimaryRow, Recorded, IsPrimaryOf,
                      DemoteOld, Written
  <2> QED
    BY <2>1, <2>2, Zenon DEF Recorded
<1>5. CASE SetRole
  <2>1. RoleFree /\ pc' = "setPrimary"
    BY <1>5, Zenon DEF Recorded, SetRole, RoleFree
  <2>2. UNCHANGED unrecorded
    BY <1>5, <2>1, Zenon DEF SetRole
  <2> QED
    BY <2>1, <2>2, Zenon DEF Recorded
<1>6. CASE /\ UNCHANGED unrecorded
           /\ pc' \notin {"promote", "demote", "setRole"}
  BY <1>6, Zenon DEF Recorded
<1>7. CASE PromoteFails
  BY <1>7, Zenon DEF Recorded, PromoteFails, Abort, Return, Written
<1>8. CASE RunReachable \/ RunStrike \/ RunFailover \/ CheckQuorum \/ Elect
  BY <1>6, <1>8, Zenon
  DEF RunReachable, RunStrike, RunFailover, CheckQuorum, Elect,
                    Examined, Abort, Return, localVars
<1>9. CASE FenceRemoves \/ FenceFails \/ SetPrimary
  BY <1>6, <1>9, Zenon DEF FenceRemoves, FenceFails, SetPrimary, Abort, Return
<1>10. CASE \E r \in Members : \/ PrepareReclone(r) \/ PrepareFails(r)
                               \/ CloneReplica(r) \/ StartReplica(r)
                               \/ ProvisionFails(r)
  BY <1>6, <1>10, Zenon DEF PrepareReclone, PrepareFails, CloneReplica, StartReplica,
                     ProvisionFails
<1>11. CASE ReattachDone \/ RemoveRouter \/ StartRouter \/ Finish
  BY <1>6, <1>11, Zenon
  DEF ReattachDone, RemoveRouter, StartRouter, Finish, Return
<1>12. CASE Environment
  BY <1>1, <1>12, Zenon
  DEF Environment, MemberStops, ContainerLost, MemberRestarts,
                     PromotionCompletes, ClientWrites, StandbyStreams,
                     memberFrame, rowVars, localVars
<1>13. CASE UNCHANGED vars
  BY <1>1, <1>13, Zenon DEF vars, rowVars, localVars
<1> QED
  BY <1>2, <1>3, <1>4, <1>5, <1>7, <1>8, <1>9, <1>10, <1>11, <1>12, <1>13, Zenon
     DEF Next, Controller, Crash

\* A promotion grants the lease, and only when nobody holds it; every other
\* step leaves it or revokes it.
LEMMA LeaseStep ==
    ASSUME IInv, ~unrecorded, [Next]_vars
    PROVE  [Lease!Next]_Writers
<1>1. \A m, n \in Writers : m = n
  BY Zenon DEF IInv, LeaseInv
<1>2. CASE Writers' \subseteq Writers
  <2>1. Writers' = Writers \/ \E m \in Writers : Writers' = Writers \ {m}
    BY <1>1, <1>2, Zenon
  <2>2. Writers \subseteq Members
    BY Zenon DEF IInv, TypeOK, Writers
  <2> QED
    BY <2>1, <2>2, Zenon DEF Lease!Next, Lease!Revoke
<1>3. CASE /\ pc = "promote" /\ CanPromote /\ PromoteEffect
           /\ UNCHANGED <<container, hasContainer, role>>
  <2>1. Writers = {} /\ Writers' = {newP}
    BY <1>3, PromoteFrame, Zenon DEF IInv, LeaseInv, Unfenced
  <2>2. newP \in Members
    BY <1>3, PromotedIsMember, Zenon DEF Elected
  <2> QED
    BY <2>1, <2>2, Zenon DEF Lease!Next, Lease!Grant
<1>4. CASE PromoteSucceeds
  BY <1>3, <1>4, Zenon DEF PromoteSucceeds, rowVars
<1>5. CASE PromoteFails
  <2>1. CASE UNCHANGED <<standby, promoting>>
    BY <1>2, <1>5, <2>1, Zenon DEF PromoteFails, Writers
  <2> QED
    BY <1>3, <1>5, <2>1, Zenon DEF PromoteFails, rowVars
<1> QED
  BY <1>2, <1>4, <1>5, NextIInv, Zenon

\* The cluster starts with the lease held by its first primary.
LEMMA LeaseInit == Init => Recorded /\ Lease!Init
<1> SUFFICES ASSUME Init PROVE Recorded /\ Lease!Init
  OBVIOUS
<1>1. Recorded
  BY Zenon DEF Init, Recorded
<1>2. \A m, n \in Writers : m = n
  BY <1>1, InitIInv, Zenon DEF IInv, LeaseInv, Recorded
<1>3. Writers \subseteq Members
  BY InitIInv, Zenon DEF IInv, TypeOK, Writers
<1>4. Writers = {} \/ \E m \in Members : Writers = {m}
  BY <1>2, <1>3, Zenon
<1> QED
  BY <1>1, <1>4, Zenon DEF Lease!Init

\* While the meta database and the control plane stay up, failover hands the
\* right to write from member to member as WriterLease does.
THEOREM LeaseRefinement ==
    ASSUME ~DBFaults, ~Crashes
    PROVE  Spec => ImplementsWriterLease
<1>1. Spec => []Recorded
  <2>1. Recorded /\ IInv /\ [Next]_vars => Recorded'
    BY NextRecorded, Zenon
  <2> QED
    BY <2>1, LeaseInit, Invariance, PTL DEF Spec
<1>2. IInv /\ Recorded /\ [Next]_vars => [Lease!Next]_Writers
  BY LeaseStep, Zenon DEF Recorded
<1> QED
  BY <1>1, <1>2, LeaseInit, Invariance, PTL
     DEF Spec, ImplementsWriterLease, Lease!Spec

\* The quorum of failover() is always within reach of the replicas, whatever
\* their number, and is a strict majority of the members unless there are two.
THEOREM QuorumSound ==
    ASSUME NEW n \in Nat \ {0}
    PROVE  /\ Needed(n) \in 1 .. n
           /\ n # 1 => 2 * Needed(n) > n + 1
BY DEF Needed
=============================================================================
