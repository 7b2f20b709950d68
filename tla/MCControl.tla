------------------------------ MODULE MCControl ------------------------------
(***************************************************************************)
(* The progress stream, the alerts and the health reports for TLC.  They   *)
(* share no variable, so a behaviour follows one of them, the one "focus"  *)
(* names, under its own fairness, while the others stay where they start.  *)
(***************************************************************************)
EXTENDS LiveFeed, Alerting, Health

VARIABLE focus

all == <<focus, feed, alerting, health>>

ControlInit ==
    /\ focus \in {"feed", "alerts", "health"}
    /\ FeedInit /\ AlertingInit /\ HealthInit

FeedOnly == focus = "feed" /\ UNCHANGED <<focus, alerting, health>>
AlertsOnly == focus = "alerts" /\ UNCHANGED <<focus, feed, health>>
HealthOnly == focus = "health" /\ UNCHANGED <<focus, feed, alerting>>

ControlNext ==
    \/ FeedOnly /\ FeedNext
    \/ AlertsOnly /\ AlertingNext
    \/ HealthOnly /\ HealthNext

\* The fairness of the part that is followed: as focus never changes, fairness of
\* the steps of one part or of another is fairness of each.
Fairness ==
    /\ WF_all((AlertsOnly /\ EvaluateAlerts) \/ (HealthOnly /\ runHealthChecks))
    /\ WF_all((AlertsOnly /\ UpsertAge) \/ (HealthOnly /\ RestoreDrill))
    /\ \A k \in Metrics : /\ WF_all(AlertsOnly /\ CollectMetrics(k))
                          /\ WF_all(AlertsOnly /\ PruneMetrics(k))
    /\ \A p \in Publishers : WF_all(FeedOnly /\ Publishing(p))
    /\ \A c \in Clients : WF_all(FeedOnly /\ Handling(c))

ControlSpec == ControlInit /\ [][ControlNext]_all /\ Fairness
-----------------------------------------------------------------------------
\* The type invariants of the parts.
ControlTypeOK == FeedTypeOK /\ AlertingTypeOK /\ HealthTypeOK
=============================================================================
