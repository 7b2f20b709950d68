--------------------------- MODULE ControlProofs ----------------------------
(***************************************************************************)
(* Proofs about the alerts and the health reports with their drills, for any*)
(* number of rules and moves, and about the three parts of MCControl.      *)
(***************************************************************************)
EXTENDS MCControl, ProcessProofs

\* What receivers of the webhook know at each point of an evaluation: what the
\* database says, or did before the transition whose notice is still to come.
NoticeInv ==
    /\ lost \in BOOLEAN
    /\ ~lost /\ eval.at # "notify" => told = DOMAIN alerts
    /\ ~lost /\ eval.at = "notify" =>
         /\ (told \cup eval.fired) \ eval.resolved = DOMAIN alerts
         /\ eval.fired \cap told = {} /\ eval.resolved \subseteq told

LEMMA NoticeInit == AlertingInit => NoticeInv
<1> SUFFICES ASSUME AlertingInit PROVE NoticeInv
  OBVIOUS
<1>1. DOMAIN alerts = {} /\ told = {} /\ lost = FALSE /\ eval.at = "idle"
  BY Zenon DEF AlertingInit, NoEval
<1> QED
  BY <1>1, Zenon DEF NoticeInv

LEMMA NoticeStep == ASSUME NoticeInv, [AlertingNext]_alerting PROVE NoticeInv'
<1>1. CASE EvalReports \/ EvalRules \/ EvalLatest
  <2>1. UNCHANGED <<alerts, told, lost>> /\ eval.at # "notify" /\ eval'.at # "notify"
    BY <1>1 DEF EvalReports, EvalRules, EvalLatest, NoEval
  <2> QED
    BY <2>1, Zenon DEF NoticeInv
<1>2. CASE Sync
  <2>1. CASE UNCHANGED <<alerts, lost>> /\ eval' = NoEval
    BY <1>2, <2>1, Zenon DEF Sync, NoticeInv, NoEval
  <2>2. CASE /\ alerts' = eval.found
             /\ eval' = [at |-> "notify", fired |-> DOMAIN eval.found \ DOMAIN alerts,
                         resolved |-> DOMAIN alerts \ DOMAIN eval.found]
             /\ UNCHANGED lost
    <3>1. UNCHANGED <<told, lost>> /\ eval.at = "sync"
      BY <1>2, <2>2, Zenon DEF Sync
    <3>2. /\ eval'.at = "notify" /\ eval'.fired = DOMAIN alerts' \ DOMAIN alerts
          /\ eval'.resolved = DOMAIN alerts \ DOMAIN alerts'
      BY <2>2, Zenon
    <3> QED
      BY <3>1, <3>2, Zenon DEF NoticeInv
  <2>3. CASE /\ alerts' = eval.found /\ eval' = NoEval
             /\ lost' = (lost \/ DOMAIN alerts # DOMAIN eval.found)
    <3>1. UNCHANGED told /\ eval.at = "sync" /\ eval'.at = "idle"
      BY <1>2, <2>3, Zenon DEF Sync, NoEval
    <3> QED
      BY <2>3, <3>1, Zenon DEF NoticeInv
  <2> QED
    BY <1>2, <2>1, <2>2, <2>3, Zenon DEF Sync
<1>3. CASE Notify
  <2>1. eval.at = "notify" /\ eval'.at # "notify" /\ UNCHANGED alerts
    BY <1>3, Zenon DEF Notify, NoEval
  <2>2. \/ told' = (told \cup eval.fired) \ eval.resolved /\ lost' = lost
        \/ lost' = TRUE
    BY <1>3, Zenon DEF Notify
  <2> QED
    BY <2>1, <2>2, Zenon DEF NoticeInv
<1>4. CASE EvalCrash
  <2>1. /\ UNCHANGED <<alerts, told>> /\ eval'.at # "notify"
        /\ lost' = (lost \/ (eval.at = "notify" /\ eval.fired \cup eval.resolved # {}))
    BY <1>4, Zenon DEF EvalCrash, NoEval
  <2> QED
    BY <2>1, Zenon DEF NoticeInv
<1>5. CASE \/ UpsertAge \/ WorldChanges \/ CreateRule \/ UpdateRule \/ DeleteRule
           \/ (\E k \in Metrics : CollectMetrics(k) \/ PruneMetrics(k)) \/ UNCHANGED alerting
  <2>1. UNCHANGED <<alerts, told, eval, lost>>
    BY <1>5, Zenon
    DEF UpsertAge, WorldChanges, CreateRule, UpdateRule, DeleteRule, CollectMetrics,
                PruneMetrics, alerting
  <2> QED
    BY <2>1, Zenon DEF NoticeInv
<1> QED
  BY <1>1, <1>2, <1>3, <1>4, <1>5, Zenon DEF AlertingNext, EvaluateAlerts

\* Whatever the samples, the rules and the world do, and wherever the process dies:
\* until a notice is lost, receivers are told what the database records and nothing
\* twice.
THEOREM NoticesKeepStep == AlertingSpec => []NoticesFollow
<1>1. NoticeInv => NoticesFollow
  BY Zenon DEF NoticeInv, NoticesFollow, NoticesInStep, NoticesAreNews
<1> QED
  BY NoticeInit, NoticeStep, <1>1, PTL DEF AlertingSpec
-----------------------------------------------------------------------------
\* Readings stay readings: in the world, in the samples and in the report; the rules
\* stay rules, and only watched kinds fire.
AlertTypes ==
    /\ rules \in Seq(Rule) /\ Len(rules) <= MaxRules
    /\ world = [running |-> world.running, standby |-> world.standby,
                newest |-> world.newest, reading |-> world.reading]
    /\ world.newest \in Readings["backup_stale"] \cup {Unknown}
    /\ world.reading = [k \in Metrics |-> world.reading[k]]
    /\ \A k \in Metrics : world.reading[k] \in Readings[k]
    /\ samples = [k \in Metrics |-> samples[k]]
    /\ \A k \in Metrics : samples[k] \in Readings[k] \cup {Unknown}
    /\ age \in Readings["backup_stale"] \cup {0}
    /\ DOMAIN alerts \subseteq Watched /\ told \subseteq Watched
    /\ eval.at \in {"idle", "rules", "latest", "sync", "notify"}
    /\ eval.at = "sync" => DOMAIN eval.found \subseteq Watched
    /\ eval.at = "notify" => eval.fired \subseteq Watched
    /\ lost \in BOOLEAN /\ moves \in 0..MaxMoves

\* A rule is appended, replaced or removed.
LEMMA RulesStay ==
    ASSUME AlertTypes, CreateRule \/ UpdateRule \/ DeleteRule
    PROVE  rules' \in Seq(Rule) /\ Len(rules') <= MaxRules
<1>0. rules \in Seq(Rule) /\ Len(rules) <= MaxRules /\ Len(rules) \in Nat /\ MaxRules \in Nat
  BY AlertingAssumption DEF AlertTypes
<1>1. CASE CreateRule
  BY <1>0, <1>1 DEF CreateRule
<1>2. CASE UpdateRule
  <2>1. PICK i \in DOMAIN rules, r \in Rule : rules' = [rules EXCEPT ![i] = r]
    BY <1>2, Zenon DEF UpdateRule
  <2>2. i \in 1 .. Len(rules)
    BY <1>0, <2>1
  <2> QED
    BY <1>0, <2>1, <2>2, ExceptSeq
<1>3. CASE DeleteRule
  <2>1. PICK i \in DOMAIN rules : rules' = SubSeq(rules, 1, i-1) \o SubSeq(rules, i+1, Len(rules))
    BY <1>3, Zenon DEF DeleteRule, RemoveAt
  <2>2. i \in 1 .. Len(rules)
    BY <1>0, <2>1
  <2> DEFINE a == SubSeq(rules, 1, i-1)
             b == SubSeq(rules, i+1, Len(rules))
  <2>3. a \in Seq(Rule) /\ Len(a) = i - 1
    BY <1>0, <2>2, SubSeqProperties
  <2>4. b \in Seq(Rule) /\ Len(b) = Len(rules) - i
    BY <1>0, <2>2, SubSeqProperties
  <2> HIDE DEF a, b
  <2>5. a \o b \in Seq(Rule) /\ Len(a \o b) = Len(a) + Len(b)
    BY <2>3, <2>4, ConcatProperties, Zenon
  <2>6. rules' = a \o b
    BY <2>1, Zenon DEF a, b
  <2>7. Len(a) + Len(b) <= MaxRules
    BY <1>0, <2>2, <2>3, <2>4
  <2> QED
    BY <2>5, <2>6, <2>7, Zenon
<1> QED
  BY <1>1, <1>2, <1>3, Zenon

LEMMA MoveBound == ASSUME AlertTypes, Move PROVE moves' \in 0..MaxMoves
BY AlertingAssumption DEF AlertTypes, Move

LEMMA AlertTypesInit == AlertingInit => AlertTypes
<1> SUFFICES ASSUME AlertingInit PROVE AlertTypes
  OBVIOUS
<1>1. \A k \in Metrics : \E v \in Readings[k] : ~Crossed(k, v, DefaultThresholds[k])
  <2>1. ASSUME NEW k \in Kinds
        PROVE  \E v \in Readings[k] : ~Crossed(k, v, DefaultThresholds[k])
    <3>1. CASE k = "disk_full"
      BY <3>1 DEF Readings, Crossed, DefaultThresholds
    <3>2. CASE k = "replication_lag"
      BY <3>2 DEF Readings, Crossed, DefaultThresholds
    <3>3. CASE k = "backup_stale"
      BY <3>3 DEF Readings, Crossed, DefaultThresholds
    <3>4. CASE k = "connection_saturation"
      BY <3>4 DEF Readings, Crossed, DefaultThresholds
    <3> QED
      BY <2>1, <3>1, <3>2, <3>3, <3>4, Zenon DEF Kinds
  <2> QED
    BY <2>1, AlertingAssumption, Zenon DEF Metrics
<1>2. world = [running |-> TRUE, standby |-> TRUE, newest |-> Unknown,
               reading |-> [k \in Metrics |-> CHOOSE v \in Readings[k] :
                                                 ~Crossed(k, v, DefaultThresholds[k])]]
  BY Zenon DEF AlertingInit
<1>3. \A k \in Metrics : world.reading[k] \in Readings[k]
  BY <1>1, <1>2, Zenon
<1>4. /\ world = [running |-> world.running, standby |-> world.standby,
                  newest |-> world.newest, reading |-> world.reading]
      /\ world.newest = Unknown
      /\ world.reading = [k \in Metrics |-> world.reading[k]]
  BY <1>2
<1>5. /\ rules = <<>> /\ samples = [k \in Metrics |-> Unknown] /\ age = 0
      /\ DOMAIN alerts = {} /\ told = {} /\ eval.at = "idle" /\ lost = FALSE /\ moves = 0
  BY Zenon DEF AlertingInit, NoEval
<1>6. rules \in Seq(Rule) /\ Len(rules) <= MaxRules /\ moves \in 0..MaxMoves
  BY <1>5, AlertingAssumption
<1> QED
  BY <1>3, <1>4, <1>5, <1>6, Zenon DEF AlertTypes
LEMMA AlertTypesStep == ASSUME AlertTypes, [AlertingNext]_alerting PROVE AlertTypes'
<1>1. CASE CreateRule \/ UpdateRule \/ DeleteRule
  <2>1. UNCHANGED <<world, samples, age, alerts, told, eval, lost>> /\ Move
    BY <1>1, Zenon DEF CreateRule, UpdateRule, DeleteRule
  <2> QED
    BY <1>1, <2>1, RulesStay, MoveBound, Zenon DEF AlertTypes
<1>2. CASE \E k \in Metrics : CollectMetrics(k) \/ PruneMetrics(k)
  <2>1. PICK k \in Metrics : \E v \in Readings[k] \cup {Unknown} : samples' = [samples EXCEPT ![k] = v]
    BY <1>2, Zenon DEF CollectMetrics, PruneMetrics, AlertTypes
  <2>2. UNCHANGED <<world, rules, age, alerts, told, eval, lost, moves>>
    BY <1>2, Zenon DEF CollectMetrics, PruneMetrics
  <2>3. /\ samples' = [m \in Metrics |-> samples'[m]]
        /\ \A m \in Metrics : samples'[m] \in Readings[m] \cup {Unknown}
    BY <2>1, Zenon DEF AlertTypes
  <2> QED
    BY <2>2, <2>3, Zenon DEF AlertTypes
<1>3. CASE UpsertAge
  BY <1>3, Zenon DEF UpsertAge, AlertTypes
<1>4. CASE EvalReports \/ EvalRules
  <2>1. /\ UNCHANGED <<world, rules, samples, age, alerts, told, lost>> /\ (Move \/ UNCHANGED moves)
        /\ eval'.at \in {"rules", "latest"}
    BY <1>4 DEF EvalReports, EvalRules, data
  <2> QED
    BY <2>1, MoveBound, Zenon DEF AlertTypes
<1>5. CASE EvalLatest
  <2>1. UNCHANGED <<world, rules, samples, age, alerts, told, lost>> /\ (Move \/ UNCHANGED moves)
    BY <1>5, Zenon DEF EvalLatest, data
  <2>2. eval'.at = "idle" \/ (eval'.at = "sync" /\ DOMAIN eval'.found \subseteq Watched)
    <3>1. DOMAIN Evaluate(Snapshot(eval.age), eval.th) \subseteq Watched
      BY Zenon DEF Evaluate
    <3> QED
      BY <1>5, <3>1 DEF EvalLatest, NoEval
  <2> QED
    BY <2>1, <2>2, MoveBound, Zenon DEF AlertTypes
<1>6. CASE Sync
  <2>1. /\ UNCHANGED <<world, rules, samples, age, told>> /\ (Move \/ UNCHANGED moves)
        /\ lost' \in BOOLEAN
    BY <1>6, Zenon DEF Sync, data, AlertTypes
  <2>2. /\ DOMAIN alerts' \subseteq Watched
        /\ eval'.at = "idle" \/ (eval'.at = "notify" /\ eval'.fired \subseteq Watched)
    BY <1>6 DEF Sync, NoEval, AlertTypes
  <2> QED
    BY <2>1, <2>2, MoveBound, Zenon DEF AlertTypes
<1>7. CASE Notify \/ EvalCrash
  <2>1. /\ UNCHANGED <<world, rules, samples, age, alerts>> /\ (Move \/ UNCHANGED moves)
        /\ eval'.at = "idle"
    BY <1>7 DEF Notify, EvalCrash, data, NoEval
  <2>2. lost' \in BOOLEAN
    <3>1. CASE Notify
      BY <3>1, Zenon DEF Notify, AlertTypes
    <3>2. CASE EvalCrash
      BY <3>2, Zenon DEF EvalCrash
    <3> QED
      BY <1>7, <3>1, <3>2, Zenon
  <2>3. told' \subseteq Watched
    BY <1>7, Zenon DEF Notify, EvalCrash, AlertTypes
  <2> QED
    BY <2>1, <2>2, <2>3, MoveBound, Zenon DEF AlertTypes
<1>8. CASE WorldChanges
  <2>1. UNCHANGED <<rules, samples, age, alerts, told, eval, lost>> /\ Move
    BY <1>8, Zenon DEF WorldChanges
  <2>2. /\ world' = [running |-> world'.running, standby |-> world'.standby,
                     newest |-> world'.newest, reading |-> world'.reading]
        /\ world'.newest \in Readings["backup_stale"] \cup {Unknown}
        /\ world'.reading = [k \in Metrics |-> world'.reading[k]]
        /\ \A k \in Metrics : world'.reading[k] \in Readings[k]
    <3>1. CASE \E k \in Metrics : \E v \in Readings[k] : world' = [world EXCEPT !.reading[k] = v]
      <4>0. PICK k \in Metrics : \E v \in Readings[k] : world' = [world EXCEPT !.reading[k] = v]
        BY <3>1, Zenon
      <4>1. PICK v \in Readings[k] : world' = [world EXCEPT !.reading[k] = v]
        BY <4>0, Zenon
      <4>2. world' = [running |-> world.running, standby |-> world.standby, newest |-> world.newest,
                      reading |-> [world.reading EXCEPT ![k] = v]]
        BY <4>1, Zenon DEF AlertTypes
      <4> QED
        BY <4>2, Zenon DEF AlertTypes
    <3>2. CASE \E v \in Readings["backup_stale"] : world' = [world EXCEPT !.newest = v]
      BY <3>2, Zenon DEF AlertTypes
    <3>3. CASE world' = [world EXCEPT !.standby = FALSE]
      BY <3>3, Zenon DEF AlertTypes
    <3>4. CASE world' = [world EXCEPT !.running = ~@]
      BY <3>4, Zenon DEF AlertTypes
    <3> QED
      BY <1>8, <3>1, <3>2, <3>3, <3>4, Zenon DEF WorldChanges
  <2> QED
    BY <2>1, <2>2, MoveBound, Zenon DEF AlertTypes
<1>9. CASE UNCHANGED alerting
  BY <1>9, Zenon DEF alerting, AlertTypes
<1> QED
  BY <1>1, <1>2, <1>3, <1>4, <1>5, <1>6, <1>7, <1>8, <1>9, Zenon
  DEF AlertingNext, EvaluateAlerts

LEMMA AlertsTyped == AlertingSpec => []AlertingTypeOK
<1>1. AlertTypes => AlertingTypeOK
  BY Zenon DEF AlertTypes, AlertingTypeOK
<1> QED
  BY AlertTypesInit, AlertTypesStep, <1>1, PTL DEF AlertingSpec
-----------------------------------------------------------------------------
\* Types of the health report and the drill.  A volume that is there between drills,
\* files in it before a restore and a container that outlived its drill were left
\* by a crash or by a removal that failed.
HealthInv ==
    /\ inst = [running |-> inst.running, archiving |-> inst.archiving, backups |-> inst.backups,
               wal |-> inst.wal, restorable |-> inst.restorable]
    /\ inst.backups \subseteq Ages /\ inst.wal \in WalAnswers
    /\ report = [stored |-> report.stored, issues |-> report.issues, drill |-> report.drill]
    /\ report.stored \in BOOLEAN /\ report.drill \in {"none", "passed", "failed"}
    /\ drill \in [at : {"idle", "container", "wait", "remove", "clean", "record"},
                  verdict : {"none", "passed", "failed", "error"}]
    /\ drill.at \in {"idle", "container", "wait"} => drill.verdict = "none"
    /\ turns \in Nat
    /\ volume \in {"absent", "empty", "used"} /\ stray \in BOOLEAN /\ littered \in BOOLEAN
    /\ drill.at \in {"container", "wait", "remove", "clean"} => volume # "absent"
    /\ stray => littered /\ volume # "absent"
    /\ ~littered => /\ drill.at \in {"idle", "record"} => volume = "absent"
                    /\ drill.at \in {"container", "wait"} => volume = "empty"

LEMMA HealthStarts == HealthInit => HealthInv
<1> SUFFICES ASSUME HealthInit PROVE HealthInv
  OBVIOUS
<1>1. /\ inst = [running |-> inst.running, archiving |-> inst.archiving, backups |-> inst.backups,
                 wal |-> inst.wal, restorable |-> inst.restorable]
      /\ inst.backups = {0} /\ inst.wal = "small"
  BY Zenon DEF HealthInit
<1>2. /\ report = [stored |-> report.stored, issues |-> report.issues, drill |-> report.drill]
      /\ report.stored = FALSE /\ report.drill = "none"
  BY Zenon DEF HealthInit
<1>3. drill = [at |-> "idle", verdict |-> "none"]
  BY Zenon DEF HealthInit, NoDrill
<1>4. volume = "absent" /\ stray = FALSE /\ littered = FALSE /\ turns = 0
  BY Zenon DEF HealthInit
<1> QED
  BY <1>1, <1>2, <1>3, <1>4, Zenon DEF HealthInv, Ages, WalAnswers

LEMMA HealthStep == ASSUME HealthInv, [HealthNext]_health PROVE HealthInv'
<1>0. turns' \in Nat
  <2>1. Turn \/ UNCHANGED turns
    BY Zenon
    DEF HealthNext, RestoreDrill, runHealthChecks, CreateVolume, CreateContainer, waitRestoreExit,
           RemoveContainer, RemoveVolume, UpdateDrill, DrillCrash, InstanceChanges, health
  <2> QED
    BY <2>1 DEF Turn, HealthInv
<1>1. CASE runHealthChecks
  BY <1>0, <1>1, Zenon DEF runHealthChecks, HealthInv
<1>2. CASE CreateVolume
  BY <1>0, <1>2 DEF CreateVolume, Goto, NoDrill, HealthInv
<1>3. CASE CreateContainer
  BY <1>0, <1>3 DEF CreateContainer, Goto, HealthInv
<1>4. CASE waitRestoreExit
  BY <1>0, <1>4 DEF waitRestoreExit, Goto, HealthInv
<1>5. CASE RemoveContainer \/ RemoveVolume
  <2>1. CASE RemoveContainer
    <3>1. /\ drill' = [at |-> "clean", verdict |-> drill.verdict] /\ drill.at = "remove"
          /\ UNCHANGED <<inst, report, volume>>
          /\ \/ UNCHANGED <<stray, littered>>
             \/ stray' = TRUE /\ littered' = TRUE
      BY <2>1, Zenon DEF RemoveContainer, Goto
    <3>2. /\ drill' \in [at : {"clean"}, verdict : {"none", "passed", "failed", "error"}]
          /\ drill'.at = "clean"
      BY <3>1 DEF HealthInv
    <3>3. volume' # "absent" /\ (stray' => littered')
      <4>1. volume # "absent" /\ (stray => littered)
        BY <3>1 DEF HealthInv
      <4>2. CASE UNCHANGED <<stray, littered>>
        BY <3>1, <4>1, <4>2, Zenon
      <4>3. CASE stray' = TRUE /\ littered' = TRUE
        BY <3>1, <4>1, <4>3, Zenon
      <4> QED
        BY <3>1, <4>2, <4>3, Zenon
    <3>4. /\ stray' \in BOOLEAN /\ littered' \in BOOLEAN
          /\ drill' \in [at : {"idle", "container", "wait", "remove", "clean", "record"},
                         verdict : {"none", "passed", "failed", "error"}]
      BY <3>1, <3>2 DEF HealthInv
    <3> QED
      BY <1>0, <3>1, <3>2, <3>3, <3>4, Zenon DEF HealthInv
  <2>2. CASE RemoveVolume
    BY <1>0, <2>2 DEF RemoveVolume, Goto, HealthInv
  <2> QED
    BY <1>5, <2>1, <2>2, Zenon
<1>6. CASE UpdateDrill
  <2>1. /\ drill.at = "record" /\ drill' = NoDrill /\ UNCHANGED <<inst, volume, stray, littered>>
        /\ \/ report' = report
           \/ /\ report' = [report EXCEPT !.stored = TRUE, !.drill = drill.verdict]
              /\ drill.verdict # "error"
    BY <1>6, Zenon DEF UpdateDrill
  <2>2. /\ report' = [stored |-> report'.stored, issues |-> report'.issues, drill |-> report'.drill]
        /\ report'.stored \in BOOLEAN /\ report'.drill \in {"none", "passed", "failed"}
    BY <2>1, Zenon DEF HealthInv
  <2> QED
    BY <1>0, <2>1, <2>2, Zenon DEF HealthInv, NoDrill
<1>7. CASE DrillCrash
  <2>1. /\ UNCHANGED <<inst, report>> /\ drill' = NoDrill
        /\ littered' = (volume' # "absent") /\ volume' \in {volume, "used"}
        /\ stray' \in BOOLEAN /\ (stray' => stray \/ drill.at \in {"container", "wait", "remove"})
    BY <1>7, Zenon DEF DrillCrash, HealthInv
  <2>2. stray' => volume' # "absent"
    BY <2>1 DEF HealthInv
  <2> QED
    BY <1>0, <2>1, <2>2, Zenon DEF HealthInv, NoDrill
<1>8. CASE InstanceChanges
  <2>1. UNCHANGED <<report, drill, volume, stray, littered>>
    BY <1>8, Zenon DEF InstanceChanges
  <2>2. /\ inst' = [running |-> inst'.running, archiving |-> inst'.archiving, backups |-> inst'.backups,
                    wal |-> inst'.wal, restorable |-> inst'.restorable]
        /\ inst'.backups \subseteq Ages /\ inst'.wal \in WalAnswers
    BY <1>8, Zenon DEF InstanceChanges, HealthInv
  <2> QED
    BY <1>0, <2>1, <2>2 DEF HealthInv
<1>9. CASE UNCHANGED health
  BY <1>9 DEF health, HealthInv
<1> QED
  BY <1>1, <1>2, <1>3, <1>4, <1>5, <1>6, <1>7, <1>8, <1>9, Zenon
  DEF HealthNext, RestoreDrill

LEMMA HealthTyped == HealthSpec => []HealthTypeOK
<1>1. HealthInv => HealthTypeOK
  BY Zenon DEF HealthInv, HealthTypeOK
<1> QED
  BY HealthStarts, HealthStep, <1>1, PTL DEF HealthSpec

\* A restore drill that runs to its end reports a failure only of a backup that does
\* not restore, or over a volume that an earlier crash or an earlier removal that
\* failed left there; once a drill removes that volume the exception is over.
THEOREM DrillsAreFair == HealthSpec => NoFalseAlarm
<1>1. ASSUME HealthInv, [HealthNext]_health, drill.at = "wait", drill'.verdict = "failed", turns' = turns
      PROVE  ~inst.restorable \/ littered
  <2>1. drill.verdict = "none" /\ drill' # drill /\ turns \in Nat /\ ~Turn
    BY <1>1 DEF HealthInv, Turn
  <2>2. waitRestoreExit
    <3>1. ~runHealthChecks /\ ~DrillCrash /\ ~InstanceChanges /\ ~UNCHANGED health
      BY <2>1, Zenon DEF runHealthChecks, DrillCrash, InstanceChanges, health
    <3>2. ~CreateVolume /\ ~CreateContainer /\ ~RemoveContainer /\ ~RemoveVolume /\ ~UpdateDrill
      BY <1>1 DEF CreateVolume, CreateContainer, RemoveContainer, RemoveVolume, UpdateDrill, NoDrill
    <3> QED
      BY <1>1, <3>1, <3>2, Zenon DEF HealthNext, RestoreDrill
  <2>3. drill' = [at |-> "remove", verdict |-> IF volume = "empty" /\ inst.restorable THEN "passed" ELSE "failed"]
    BY <2>1, <2>2, Zenon DEF waitRestoreExit, Goto
  <2> QED
    BY <1>1, <2>3, Zenon DEF HealthInv
<1>2. HealthInv /\ [HealthNext]_health =>
        [drill.at = "wait" /\ drill'.verdict = "failed" /\ turns' = turns
             => ~inst.restorable \/ littered]_health
  BY <1>1, Zenon
<1> QED
  BY HealthStarts, HealthStep, <1>2, PTL DEF HealthSpec, NoFalseAlarm
-----------------------------------------------------------------------------
\* The parts share no variable: a step of the sum is a step of each or leaves it
\* alone.
LEMMA ControlHasParts == ControlSpec => FeedSpec /\ AlertingSpec /\ HealthSpec
<1>1. ControlInit => FeedInit /\ AlertingInit /\ HealthInit
  BY Zenon DEF ControlInit
<1>2. [ControlNext]_all => [FeedNext]_feed /\ [AlertingNext]_alerting /\ [HealthNext]_health
  BY Zenon DEF ControlNext, FeedOnly, AlertsOnly, HealthOnly, all
<1> QED
  BY <1>1, <1>2, PTL DEF ControlSpec, FeedSpec, AlertingSpec, HealthSpec

\* Types of all three: among them that no channel holds more than its buffer and
\* that a drill's error is never recorded as its verdict.
THEOREM ControlTyped == ControlSpec => []ControlTypeOK
BY ControlHasParts, FeedTyped, AlertsTyped, HealthTyped, PTL DEF ControlTypeOK
=============================================================================
