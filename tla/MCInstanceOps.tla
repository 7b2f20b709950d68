---------------------------- MODULE MCInstanceOps ----------------------------
(* Instances of InstanceOps for TLC.                                         *)
EXTENDS InstanceOps, TLC

\* Handlers are interchangeable.
ProcSymmetry == Permutations(Procs)

\* Symmetry is not sound for liveness.  Instead the first handler that is idle takes
\* the next request, which no property can tell from another one taking it.
InTurn ==
    \A p, q \in Procs :
        p < q /\ job[q] = NoJob /\ job'[q] # NoJob => job[p] # NoJob

\* As requests are finitely many, some handler going on is every handler going on;
\* without outages no container exits, so there is nothing for Docker to restart.
LiveFairness ==
    /\ WF_vars(\E p \in Procs : Handler(p))
    /\ WF_vars(Reconcile)

LiveSpec == Init /\ job[1] # NoJob /\ [][Next /\ InTurn]_vars /\ LiveFairness
==============================================================================
