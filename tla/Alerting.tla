------------------------------ MODULE Alerting ------------------------------
(***************************************************************************)
(* The alerts of one instance: samples collected and pruned, the age of    *)
(* the newest backup from its health report, the users' rules, and the job *)
(* that evaluates them, records what fires and calls the webhook.  Every   *)
(* job is a process of its own; they meet in the meta database.  Instances *)
(* share none of this state.                                               *)
(***************************************************************************)
EXTENDS Integers, Sequences, SequencesExt

CONSTANTS
    Watched,        \* the kinds of alert followed, a subset of Kinds
    RuleThresholds, \* thresholds a user sets
    MaxRules,       \* bound: rows of alert_rules
    MaxMoves        \* bound: changes of the world, of the rules, and failures

VARIABLES
    world,          \* what is really so
    rules,          \* alert_rules, oldest first
    samples,        \* newest stored sample of each metric
    age,            \* last_backup_age_secs of the health report
    alerts,         \* firing rows of alerts: kind -> severity
    told,           \* kinds the webhook last heard are firing
    eval,           \* progress of evaluateAlerts
    lost,           \* history: a notice was not delivered
    moves           \* moves made

data == <<world, rules, samples, age>>
alerting == <<world, rules, samples, age, alerts, told, eval, lost, moves>>

Kinds == {"disk_full", "replication_lag", "backup_stale", "connection_saturation"}

ASSUME AlertingAssumption == Watched \subseteq Kinds /\ MaxRules \in Nat /\ MaxMoves \in Nat

Unknown == -1
Metrics == Watched \ {"backup_stale"}

DefaultThresholds == [disk_full |-> 10, replication_lag |-> 300,
                      backup_stale |-> 25, connection_saturation |-> 90]

\* Readings on either side of the default, and past the critical line.
Readings == [disk_full |-> {50, 8, 4}, replication_lag |-> {10, 400},
             backup_stale |-> {1, 30}, connection_saturation |-> {50, 95, 99}]

Crossed(k, v, t) == IF k = "disk_full" THEN v < t ELSE v > t

criticalAt == [disk_full |-> 5, replication_lag |-> 900, connection_saturation |-> 98]

SeverityOf(k, v) ==
    IF k # "backup_stale" /\ Crossed(k, v, criticalAt[k]) THEN "critical" ELSE "warning"

\* One finding for each threshold crossed; an unknown value has none.
Evaluate(snapshot, th) ==
    [k \in {w \in Watched : snapshot[w] # Unknown /\ Crossed(w, snapshot[w], th[w])}
        |-> SeverityOf(k, snapshot[k])]
-----------------------------------------------------------------------------
Rule == [scope : {"all", "one", "other"}, kind : Watched,
         threshold : RuleThresholds, enabled : BOOLEAN]

ByAgeOnly == SelectSeq(rules, LAMBDA r : r.enabled /\ r.scope # "other")

\* The instance's own rules after the rules for all.
ListEffective ==
    SelectSeq(rules, LAMBDA r : r.enabled /\ r.scope = "all")
    \o SelectSeq(rules, LAMBDA r : r.enabled /\ r.scope = "one")

EffectiveThresholds(rs) ==
    FoldLeft(LAMBDA th, r : [th EXCEPT ![r.kind] = r.threshold], DefaultThresholds, rs)

Move == moves < MaxMoves /\ moves' = moves + 1

CreateRule ==
    /\ Move /\ Len(rules) < MaxRules
    /\ \E r \in Rule : rules' = Append(rules, r)
    /\ UNCHANGED <<world, samples, age, alerts, told, eval, lost>>

UpdateRule ==
    /\ Move
    /\ \E i \in DOMAIN rules, r \in Rule : rules' = [rules EXCEPT ![i] = r]
    /\ UNCHANGED <<world, samples, age, alerts, told, eval, lost>>

DeleteRule ==
    /\ Move
    /\ \E i \in DOMAIN rules : rules' = RemoveAt(rules, i)
    /\ UNCHANGED <<world, samples, age, alerts, told, eval, lost>>
-----------------------------------------------------------------------------
\* A primary has no replication_lag_seconds.
Reports(k) == world.running /\ (k = "replication_lag" => world.standby)

\* Collect and Insert, by SQL or by Docker; a probe that fails stores nothing.
CollectMetrics(k) ==
    /\ Reports(k)
    /\ samples' = [samples EXCEPT ![k] = world.reading[k]]
    /\ UNCHANGED <<world, rules, age, alerts, told, eval, lost, moves>>

PruneNothing(k) == k \notin Metrics /\ UNCHANGED alerting

\* Prune reaches a sample that no newer one has replaced for the retention time.
PruneMetrics(k) ==
    /\ samples[k] # Unknown /\ ~Reports(k)
    /\ samples' = [samples EXCEPT ![k] = Unknown]
    /\ UNCHANGED <<world, rules, age, alerts, told, eval, lost, moves>>

\* Check and Upsert: without a completed backup the age is zero.
UpsertAge ==
    /\ world.running
    /\ age' = IF world.newest = Unknown THEN 0 ELSE world.newest
    /\ UNCHANGED <<world, rules, samples, alerts, told, eval, lost, moves>>
-----------------------------------------------------------------------------
NoEval == [at |-> "idle"]

\* evaluateAlerts reads the reports; without them no backup has an age ...
EvalReports ==
    /\ eval = NoEval /\ world.running
    /\ \/ /\ eval' = [at |-> "rules", age |-> IF age > 0 THEN age ELSE Unknown]
          /\ UNCHANGED moves
       \/ Move /\ eval' = [at |-> "rules", age |-> Unknown]
    /\ UNCHANGED <<data, alerts, told, lost>>

\* ... then the rules; without them the defaults hold ...
EvalRules ==
    /\ eval.at = "rules"
    /\ \/ /\ eval' = [at |-> "latest", age |-> eval.age, th |-> EffectiveThresholds(ListEffective)]
          /\ UNCHANGED moves
       \/ Move /\ eval' = [at |-> "latest", age |-> eval.age, th |-> DefaultThresholds]
    /\ UNCHANGED <<data, alerts, told, lost>>

Snapshot(a) == [k \in Watched |-> IF k = "backup_stale" THEN a ELSE samples[k]]

\* ... then the samples, without which the instance is skipped.
EvalLatest ==
    /\ eval.at = "latest"
    /\ \/ /\ eval' = [at |-> "sync", found |-> Evaluate(Snapshot(eval.age), eval.th)]
          /\ UNCHANGED moves
       \/ Move /\ eval' = NoEval
    /\ UNCHANGED <<data, alerts, told, lost>>

SyncSaysAll ==
    /\ eval.at = "sync"
    /\ alerts' = eval.found
    /\ eval' = [at |-> "notify", fired |-> DOMAIN eval.found,
                resolved |-> DOMAIN alerts \ DOMAIN eval.found]
    /\ UNCHANGED <<data, told, lost, moves>>

SyncResolvesQuietly ==
    /\ eval.at = "sync"
    /\ alerts' = eval.found
    /\ eval' = [at |-> "notify", fired |-> DOMAIN eval.found \ DOMAIN alerts, resolved |-> {}]
    /\ UNCHANGED <<data, told, lost, moves>>

\* Sync is one transaction: it replaces the firing rows and says what changed.  A
\* Commit that reports a failure may have taken effect: then nobody is told.
Sync ==
    /\ eval.at = "sync"
    /\ \/ /\ alerts' = eval.found
          /\ eval' = [at |-> "notify", fired |-> DOMAIN eval.found \ DOMAIN alerts,
                      resolved |-> DOMAIN alerts \ DOMAIN eval.found]
          /\ UNCHANGED <<lost, moves>>
       \/ Move /\ eval' = NoEval /\ UNCHANGED <<alerts, lost>>
       \/ /\ Move /\ eval' = NoEval /\ alerts' = eval.found
          /\ lost' = (lost \/ DOMAIN alerts # DOMAIN eval.found)
    /\ UNCHANGED <<data, told>>

\* The webhook is called once, and the timeline written, whatever it answers.
Notify ==
    /\ eval.at = "notify"
    /\ eval' = NoEval
    /\ \/ told' = (told \cup eval.fired) \ eval.resolved /\ UNCHANGED <<lost, moves>>
       \/ /\ eval.fired \cup eval.resolved # {}
          /\ Move /\ lost' = TRUE /\ UNCHANGED told
    /\ UNCHANGED <<data, alerts>>
-----------------------------------------------------------------------------
\* The process dies and starts again: a notice not sent yet is never sent.
EvalCrash ==
    /\ Move /\ eval # NoEval
    /\ lost' = (lost \/ (eval.at = "notify" /\ eval.fired \cup eval.resolved # {}))
    /\ eval' = NoEval
    /\ UNCHANGED <<data, alerts, told>>

\* Load, a backup or its ageing, promotion, and stop or start of the instance.
WorldChanges ==
    /\ Move
    /\ \/ \E k \in Metrics : \E v \in Readings[k] : world' = [world EXCEPT !.reading[k] = v]
       \/ \E v \in Readings["backup_stale"] : world' = [world EXCEPT !.newest = v]
       \/ world' = [world EXCEPT !.standby = FALSE]
       \/ world' = [world EXCEPT !.running = ~@]
    /\ world' # world
    /\ UNCHANGED <<rules, samples, age, alerts, told, eval, lost>>

AlertingInit ==
    /\ world = [running |-> TRUE, standby |-> TRUE, newest |-> Unknown,
                reading |-> [k \in Metrics |-> CHOOSE v \in Readings[k] :
                                                  ~Crossed(k, v, DefaultThresholds[k])]]
    /\ rules = <<>> /\ samples = [k \in Metrics |-> Unknown] /\ age = 0
    /\ alerts = [k \in {} |-> "warning"] /\ told = {}
    /\ eval = NoEval /\ lost = FALSE /\ moves = 0

EvaluateAlerts == EvalReports \/ EvalRules \/ EvalLatest \/ Sync \/ Notify

AlertingNext ==
    \/ EvaluateAlerts \/ UpsertAge \/ EvalCrash \/ WorldChanges
    \/ CreateRule \/ UpdateRule \/ DeleteRule
    \/ \E k \in Metrics : CollectMetrics(k) \/ PruneMetrics(k)

AlertingSpec == AlertingInit /\ [][AlertingNext]_alerting

\* The scheduler keeps running every job.
AlertingFairSpec ==
    /\ AlertingSpec
    /\ WF_alerting(EvaluateAlerts) /\ WF_alerting(UpsertAge)
    /\ \A k \in Metrics : WF_alerting(CollectMetrics(k)) /\ WF_alerting(PruneMetrics(k))
-----------------------------------------------------------------------------
AlertingTypeOK ==
    /\ rules \in Seq(Rule) /\ Len(rules) <= MaxRules
    /\ \A k \in Metrics : samples[k] \in Readings[k] \cup {Unknown}
    /\ age \in Readings["backup_stale"] \cup {0}
    /\ DOMAIN alerts \subseteq Watched /\ told \subseteq Watched
    /\ eval.at \in {"idle", "rules", "latest", "sync", "notify"}
    /\ lost \in BOOLEAN /\ moves \in 0..MaxMoves

\* Between evaluations the webhook's idea of what is firing is the database's,
\* unless a notice was refused, died with the process, or was withheld because
\* Commit reported a failure after it took effect.
NoticesInStep == eval.at # "notify" /\ ~lost => told = DOMAIN alerts

\* While none is lost, every notice is news: none repeats what was last said.
NoticesAreNews ==
    eval.at = "notify" /\ ~lost => eval.fired \cap told = {} /\ eval.resolved \subseteq told

Value(k) == IF k = "backup_stale" THEN world.newest ELSE world.reading[k]

\* What the threshold of a kind should be, whatever order rules were made and
\* changed in: that of the newest enabled rule of the instance, else of the newest
\* for all, else the default ("a specific rule ALWAYS beats a global one").
Threshold(k) ==
    LET Of(scope) == {i \in DOMAIN rules : /\ rules[i].enabled /\ rules[i].kind = k
                                           /\ rules[i].scope = scope}
        Newest(S) == rules[CHOOSE i \in S : \A j \in S : j <= i].threshold
    IN  IF Of("one") # {} THEN Newest(Of("one"))
        ELSE IF Of("all") # {} THEN Newest(Of("all"))
        ELSE DefaultThresholds[k]

Bad(k) == Crossed(k, Value(k), Threshold(k))
Measured(k) == world.running /\ Value(k) # Unknown

\* An alert settles on the truth: it fires in the end for a condition that
\* persists on a running instance, by the threshold that should count, and is over
\* in the end when the condition is, also for a promoted standby whose last lag sample only retention removes.
AlertsSettle ==
    \A k \in Watched :
        /\ <>[](Measured(k) /\ Bad(k) /\ (k \in Metrics => Reports(k)))
              => <>[](k \in DOMAIN alerts)
        /\ <>[](Measured(k) /\ (~Bad(k) \/ (k \in Metrics /\ ~Reports(k))))
              => <>[](k \notin DOMAIN alerts)

\* Receivers of the webhook follow the database: they know what it knows, and are
\* told only what they did not (Sync, Notify).
NoticesFollow == NoticesInStep /\ NoticesAreNews
=============================================================================
