------------------------------- MODULE Health -------------------------------
(***************************************************************************)
(* The health report of one instance and the two jobs that write it: the   *)
(* health check, every few minutes, and the restore drill, once a day.     *)
(***************************************************************************)
EXTENDS Naturals, FiniteSetsExt

CONSTANT MaxTurns   \* bound: changes of the instance, failures and crashes

VARIABLES
    inst,           \* what is so of the instance and its backups
    report,         \* the instance_health row
    drill,          \* the drill under way: its next step and its verdict
    volume,         \* the drill's volume: absent, empty or used
    stray,          \* whether a drill's container outlived its drill
    littered,       \* history: a crash or a failed removal left the volume that is there
    turns

health == <<inst, report, drill, volume, stray, littered, turns>>

\* The catalog's rows by age, the youngest 0; Never is the zero StoppedAt of a
\* backup that did not finish.
Never == 9
MaxBackupAge == 1
Ages == {0, 2, Never}

\* What "du" says of pg_wal: a size, one beyond 64 bits, no number, or nothing.
WalAnswers == {"small", "large", "overflow", "garbled", "no answer"}
MaxWALBytes == 1

Turn == turns < MaxTurns /\ turns' = turns + 1

NoDrill == [at |-> "idle", verdict |-> "none"]

HealthInit ==
    /\ inst = [running |-> TRUE, archiving |-> TRUE, backups |-> {0}, wal |-> "small",
               restorable |-> TRUE]
    /\ report = [stored |-> FALSE, issues |-> {}, drill |-> "none"]
    /\ drill = NoDrill /\ volume = "absent" /\ stray = FALSE
    /\ littered = FALSE /\ turns = 0
-----------------------------------------------------------------------------
\* A number too large for its type saturates; what is not a number reads as zero.
parseDuBytes(answer) ==
    CASE answer \in {"small", "garbled"} -> 0 [] answer = "large" -> 2 [] OTHER -> 3

AgeIssues ==
    LET completed == inst.backups \ {Never}
    IN  IF inst.backups = {} THEN {"no backups exist"}
        ELSE IF completed = {} THEN {"no completed backup yet"}
        ELSE IF Min(completed) > MaxBackupAge THEN {"last backup is old"} ELSE {}

ProbeForgiven ==
    IF inst.wal # "no answer" /\ parseDuBytes(inst.wal) > MaxWALBytes
      THEN {"pg_wal is large"} ELSE {}

WalIssues ==
    IF inst.wal = "no answer" THEN {"pg_wal probe failed"}
    ELSE IF parseDuBytes(inst.wal) > MaxWALBytes THEN {"pg_wal is large"} ELSE {}

Issues ==
    (IF inst.archiving THEN {} ELSE {"WAL archiving check is failing"})
        \cup AgeIssues \cup WalIssues

\* runHealthChecks.  Upsert replaces the whole row, the drill's columns with it:
\* a report of Check says that no drill ran.
runHealthChecks ==
    /\ inst.running
    /\ report' = [stored |-> TRUE, issues |-> Issues, drill |-> "none"]
    /\ UNCHANGED <<inst, drill, volume, stray, littered, turns>>
-----------------------------------------------------------------------------
Goto(at, verdict) == drill' = [at |-> at, verdict |-> verdict]

\* RestoreDrill.  The volume's name is fixed, and creating one that exists hands
\* out the old one.
CreateVolume ==
    /\ drill = NoDrill /\ inst.running
    /\ \/ Goto("container", "none") /\ UNCHANGED turns
          /\ volume' = IF volume = "absent" THEN "empty" ELSE volume
       \/ Turn /\ Goto("record", "error") /\ UNCHANGED volume
    /\ UNCHANGED <<inst, report, stray, littered>>

\* A container that cannot be created or started ends the drill without verdict.
CreateContainer ==
    /\ drill.at = "container"
    /\ \/ Goto("wait", "none") /\ UNCHANGED turns
       \/ Turn /\ (Goto("remove", "error") \/ Goto("clean", "error"))
    /\ UNCHANGED <<inst, report, volume, stray, littered>>

\* Without --delta pgBackRest restores into an empty directory only.  Losing
\* sight of the container, its deadline and a shutdown are failed drills too.
waitRestoreExit ==
    /\ drill.at = "wait"
    /\ volume' = "used"
    /\ \/ /\ Goto("remove", IF volume = "empty" /\ inst.restorable THEN "passed" ELSE "failed")
          /\ UNCHANGED turns
       \/ Turn /\ Goto("remove", "failed")
    /\ UNCHANGED <<inst, report, stray, littered>>

\* The deferred calls, their errors dropped: the container is removed; one that is
\* not stays, since its name is used only once and nothing looks for it ...
RemoveContainer ==
    /\ drill.at = "remove" /\ Goto("clean", drill.verdict)
    /\ \/ UNCHANGED <<stray, littered, turns>>
       \/ Turn /\ stray' = TRUE /\ littered' = TRUE
    /\ UNCHANGED <<inst, report, volume>>

KeepFailed ==
    /\ drill.at = "clean" /\ Goto("record", drill.verdict)
    /\ volume' = IF stray \/ drill.verdict = "failed" THEN volume ELSE "absent"
    /\ UNCHANGED <<inst, report, stray, littered, turns>>

\* ... then the volume, which Docker keeps as long as a container mounts it.
RemoveVolume ==
    /\ drill.at = "clean" /\ Goto("record", drill.verdict)
    /\ \/ stray /\ UNCHANGED <<volume, littered, turns>>
       \/ ~stray /\ volume' = "absent" /\ littered' = FALSE /\ UNCHANGED turns
       \/ Turn /\ littered' = TRUE /\ UNCHANGED volume
    /\ UNCHANGED <<inst, report, stray>>

DrillClobbers ==
    /\ drill.at = "record"
    /\ report' = [stored |-> TRUE, issues |-> {}, drill |-> drill.verdict]
    /\ drill' = NoDrill
    /\ UNCHANGED <<inst, volume, stray, littered, turns>>

\* runRestoreDrills records a verdict, touching nothing else of the report; the
\* write may fail.
UpdateDrill ==
    /\ drill.at = "record"
    /\ drill' = NoDrill
    /\ \/ UNCHANGED turns
          /\ report' = IF drill.verdict = "error" THEN report
                       ELSE [report EXCEPT !.stored = TRUE, !.drill = drill.verdict]
       \/ Turn /\ UNCHANGED report
    /\ UNCHANGED <<inst, volume, stray, littered>>
-----------------------------------------------------------------------------
\* The process dies: the deferred calls do not run.
DrillCrash ==
    /\ Turn /\ drill # NoDrill
    /\ drill' = NoDrill
    /\ stray' \in CASE drill.at = "wait" -> {TRUE}
                   [] drill.at \in {"container", "remove"} -> {stray, TRUE}
                   [] OTHER -> {stray}
    /\ volume' = IF drill.at = "wait" THEN "used" ELSE volume
    /\ littered' = (volume' # "absent")
    /\ UNCHANGED <<inst, report>>

InstanceChanges ==
    /\ Turn
    /\ \/ inst' = [inst EXCEPT !.running = ~@]
       \/ inst' = [inst EXCEPT !.archiving = ~@]
       \/ inst' = [inst EXCEPT !.restorable = ~@]
       \/ \E rows \in SUBSET Ages : inst' = [inst EXCEPT !.backups = rows]
       \/ \E answer \in WalAnswers : inst' = [inst EXCEPT !.wal = answer]
    /\ inst' # inst
    /\ UNCHANGED <<report, drill, volume, stray, littered>>

RestoreDrill ==
    CreateVolume \/ CreateContainer \/ waitRestoreExit \/ RemoveContainer \/ RemoveVolume
    \/ UpdateDrill

HealthNext == runHealthChecks \/ RestoreDrill \/ DrillCrash \/ InstanceChanges

HealthSpec == HealthInit /\ [][HealthNext]_health

\* The scheduler keeps running both jobs.
HealthFairSpec == HealthSpec /\ WF_health(runHealthChecks) /\ WF_health(RestoreDrill)
-----------------------------------------------------------------------------
\* The drill columns hold a verdict or nothing: an error is never recorded.
HealthTypeOK ==
    /\ inst.backups \subseteq Ages /\ inst.wal \in WalAnswers
    /\ report.stored \in BOOLEAN /\ report.drill \in {"none", "passed", "failed"}
    /\ drill \in [at : {"idle", "container", "wait", "remove", "clean", "record"},
                 verdict : {"none", "passed", "failed", "error"}]
    /\ volume \in {"absent", "empty", "used"} /\ stray \in BOOLEAN

\* Sound: archived, backed up lately by a backup that finished, and no answer that
\* calls pg_wal large.
Sound ==
    /\ inst.archiving
    /\ \E age \in inst.backups \ {Never} : age <= MaxBackupAge
    /\ inst.wal \in {"small", "garbled"}

\* The report converges to the truth, whatever drills are recorded in between: an
\* instance that stays unsound shows issues and one that stays sound shows none.
ReportSettles ==
    /\ <>[](inst.running /\ ~Sound) => <>[](report.stored /\ report.issues # {})
    /\ <>[](inst.running /\ Sound) => <>[](report.issues = {})

\* The drill's volume is removed in the end, also after a failed drill and after a
\* removal that failed, since the next drill tries again; only a container that
\* was left mounts it for good.
DrillVolumeGoes ==
    (volume # "absent" /\ ~stray) ~> (volume = "absent" \/ stray \/ ~inst.running)

\* No false alarm: a drill that runs to its end fails only if the backup does not
\* restore, or the volume was left by a crash or a removal that failed and has
\* not been removed since.
NoFalseAlarm ==
    [][drill.at = "wait" /\ drill'.verdict = "failed" /\ turns' = turns
           => ~inst.restorable \/ littered]_health

\* "the Reliability page shows the pass/fail per instance" (production-hardening.md):
\* a recorded verdict is replaced by a verdict only.
VerdictStays == [][report.drill # "none" => report'.drill # "none"]_health

\* Check and RestoreDrill: the issues the Reliability page lists are true in the
\* end, a drill fails for its backup's sake or for files that could not be removed,
\* and its volume goes.  How long the page shows a verdict is not part of it: the
\* next report of Check replaces the verdict by "no drill ran" (VerdictStays fails).
HealthIsTrue == ReportSettles /\ DrillVolumeGoes /\ NoFalseAlarm
=============================================================================
