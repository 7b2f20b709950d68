----------------------------- MODULE MCServices -----------------------------
(***************************************************************************)
(* Accounts, clusters, dumps in the object store, and copies of instances, *)
(* for TLC.  They share no variable, so a behaviour follows one of them,   *)
(* the one "focus" names, while the others stay where they start.          *)
(***************************************************************************)
EXTENDS Accounts, ClusterCtl, Objects, Copies

VARIABLE focus

all == <<focus, accounts, clusters, dumps, copies>>

ServicesInit ==
    /\ focus \in {"accounts", "clusters", "dumps", "copies"}
    /\ AccountsInit /\ ClustersInit /\ DumpsInit /\ CopiesInit
    /\ focus # "accounts" => ~autoProvision
    /\ focus # "dumps" => remote = DumpMajor
    /\ focus # "copies" => backups = {} /\ ~source.encrypted

AccountsOnly == focus = "accounts" /\ UNCHANGED <<focus, clusters, dumps, copies>>
ClustersOnly == focus = "clusters" /\ UNCHANGED <<focus, accounts, dumps, copies>>
DumpsOnly == focus = "dumps" /\ UNCHANGED <<focus, accounts, clusters, copies>>
CopiesOnly == focus = "copies" /\ UNCHANGED <<focus, accounts, clusters, dumps>>

ServicesNext ==
    \/ AccountsOnly /\ AccountsNext
    \/ ClustersOnly /\ ClustersNext
    \/ DumpsOnly /\ DumpsNext
    \/ CopiesOnly /\ CopiesNext

ServicesSpec == ServicesInit /\ [][ServicesNext]_all
-----------------------------------------------------------------------------
\* The type invariants of the parts.
ServicesTypeOK == AccountsTypeOK /\ ClustersTypeOK /\ DumpsTypeOK /\ CopiesTypeOK
=============================================================================
