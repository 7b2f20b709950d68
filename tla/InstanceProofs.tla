---------------------------- MODULE InstanceProofs ----------------------------
(***************************************************************************)
(* Proofs about InstanceOps, for any number of handlers, requests and       *)
(* outages: types, what the kinds of step that the handlers are made of do, *)
(* and two promises that hold whatever handlers overlap: the row names a    *)
(* volume with the instance's data, and (without restores) one server runs. *)
(* InstanceSerialProofs goes on from here.                                  *)
(***************************************************************************)
EXTENDS InstanceOps, TLAPS

-------------------------------------------------------------------------------
(* The shape of the state, and who holds the mutex.                         *)

Handlers == {"none", "provision", "start", "stop", "restart", "destroy",
             "restore", "visibility"}
Exclusive == {"restore", "visibility"}
Ids == Containers \cup {NoContainer}
Labels ==
    {"idle", "lock", "get", "unlock",
     "volume", "create", "record", "start", "port", "setPort", "ready",
     "done", "undo", "undoVolume", "fail",
     "call", "refresh", "mark", "container", "repo", "row",
     "stop", "fill", "commit", "setRuntime", "setVolume", "dropOld",
     "dropVolume", "undoStop", "undoPort", "undoRow",
     "setPublic", "revert", "recreate", "rerecord", "restart", "giveUp"}
Stages == {"idle", "scan", "one", "adopt", "status"}
Jobs == [op : Handlers, pc : Labels, inst : Rows, new : Ids, vol : Volumes,
         want : BOOLEAN]
Passes == [pc : Stages, inst : Rows, info : Ids, running : BOOLEAN]
Servers == [st : ContainerStates, vol : Volumes, fixed : BOOLEAN,
            public : BOOLEAN]

Shape ==
    /\ row \in Rows
    /\ ctr \in [Containers -> Servers]
    /\ vol \in [Volumes -> {"none", "blank", "data", "gone"}]
    /\ mutex \in Procs \cup {0}
    /\ rec \in Passes
    /\ calls \in 0..MaxCalls /\ outages \in 0..MaxOutages
    /\ provisioned \in BOOLEAN /\ doomed \in BOOLEAN

Holds(p) == job[p].op \in Exclusive /\ job[p].pc # "lock"

\* The holder of the mutex is the one handler past its Lock; only Restore and
\* SetVisibility come to Lock and Unlock.
Locks ==
    /\ \A p \in Procs : Holds(p) <=> mutex = p
    /\ \A p \in Procs : job[p].pc \in {"lock", "unlock"} =>
                            job[p].op \in Exclusive

Typed == Shape /\ job \in [Procs -> Jobs] /\ Locks

\* What Goto does to a handler, field by field.
Others(p) == \A q \in Procs \ {p} : job'[q] = job[q]
Went(p, l) ==
    /\ Others(p)
    /\ l = "return" => job'[p] = NoJob
    /\ l # "return" =>
          /\ job'[p].pc = l /\ job'[p].op = job[p].op
          /\ job'[p].inst = job[p].inst /\ job'[p].new = job[p].new
          /\ job'[p].vol = job[p].vol /\ job'[p].want = job[p].want

Moved(p, l) == job' \in [Procs -> Jobs] /\ Went(p, l)

\* A label that a handler without, or with, the mutex may go to.
Allowed(p, l) ==
    /\ job[p].pc # "lock" /\ l \in (Labels \ {"lock"}) \cup {"return"}
    /\ l = "unlock" => job[p].op \in Exclusive
    /\ l = "return" => job[p].op \notin Exclusive

\* The initial values have their types.
LEMMA Blank ==
    /\ DefaultVolume \in Volumes /\ NoRow \in Rows
    /\ NoJob \in Jobs /\ NoPass \in Passes
  <1>1. DefaultVolume \in Volumes
    BY InstanceOpsAssumption DEF DefaultVolume, Volumes
  <1>2. NoRow \in Rows
    BY <1>1, Zenon DEF NoRow, Rows
  <1>3. "none" \in Handlers /\ "idle" \in Labels /\ "idle" \in Stages
        /\ NoContainer \in Ids
    BY Zenon DEF Handlers, Labels, Stages, Ids
  <1>4. NoJob \in Jobs
    BY <1>1, <1>2, <1>3, Zenon DEF NoJob, Jobs
  <1>5. NoPass \in Passes
    BY <1>2, <1>3, Zenon DEF NoPass, Passes
  <1> QED BY <1>1, <1>2, <1>4, <1>5, Zenon

\* Goto changes the program counter, or ends the handler.
LEMMA GotoDoes ==
    ASSUME job \in [Procs -> Jobs], NEW p \in Procs, NEW l, Goto(p, l)
    PROVE  Went(p, l)
  <1>1. CASE l = "return"
    <2>1. job' = [job EXCEPT ![p] = NoJob]
      BY <1>1, Zenon DEF Goto
    <2> QED BY <2>1, <1>1, Zenon DEF Went, Others
  <1>2. CASE l # "return"
    <2>1. job' = [job EXCEPT ![p] = [job[p] EXCEPT !.pc = l]]
      BY <1>2, Zenon DEF Goto
    <2>2. job'[p] = [job[p] EXCEPT !.pc = l] /\ job[p] \in Jobs
      BY <2>1, Zenon
    <2>3. /\ job'[p].pc = l /\ job'[p].op = job[p].op
          /\ job'[p].inst = job[p].inst /\ job'[p].new = job[p].new
          /\ job'[p].vol = job[p].vol /\ job'[p].want = job[p].want
      BY <2>2, Zenon DEF Jobs
    <2> QED BY <2>1, <2>3, <1>2, Zenon DEF Went, Others
  <1> QED BY <1>1, <1>2, Zenon

LEMMA GotoMoves ==
    ASSUME job \in [Procs -> Jobs], NEW p \in Procs,
           NEW l \in Labels \cup {"return"}, Goto(p, l)
    PROVE  Moved(p, l)
  <1>1. CASE l = "return"
    <2>1. job' = [job EXCEPT ![p] = NoJob]
      BY <1>1, Zenon DEF Goto
    <2> QED BY <2>1, Blank, GotoDoes, Zenon DEF Moved
  <1>2. CASE l # "return"
    <2>1. job' = [job EXCEPT ![p] = [job[p] EXCEPT !.pc = l]] /\ l \in Labels
      BY <1>2, Zenon DEF Goto
    <2>2. [job[p] EXCEPT !.pc = l] \in Jobs
      BY <2>1, Zenon DEF Jobs
    <2> QED BY <2>1, <2>2, GotoDoes, Zenon DEF Moved
  <1> QED BY <1>1, <1>2, Zenon

\* A handler that goes on where it may leaves the mutex with its holder.
LEMMA MovedLocks ==
    ASSUME Typed, NEW p \in Procs, NEW l, Allowed(p, l), Moved(p, l),
           mutex' = mutex
    PROVE  job' \in [Procs -> Jobs] /\ Locks'
  <1>1. \A q \in Procs \ {p} : job'[q] = job[q]
    BY Zenon DEF Moved, Went, Others
  <1>2. Holds(p)' <=> Holds(p)
    BY DEF Moved, Went, Allowed, Holds, NoJob, Exclusive
  <1>3. job'[p].pc \in {"lock", "unlock"} => job'[p].op \in Exclusive
    BY DEF Moved, Went, Allowed, NoJob
  <1> QED BY <1>1, <1>2, <1>3, Zenon DEF Typed, Locks, Holds, Moved

-------------------------------------------------------------------------------
(* The model's updates as explicit records.                                 *)

\* What the four updates of the row write.
LEMMA RowUpdates ==
    ASSUME row \in Rows
    PROVE  /\ \A s : SetStatus(s) = [status |-> s, cid |-> row.cid,
                                     vol |-> row.vol, public |-> row.public]
           /\ \A c : SetRuntime(c) = [status |-> row.status, cid |-> c,
                                      vol |-> row.vol, public |-> row.public]
           /\ \A v : SetDataVolume(v) = [status |-> row.status,
                                         cid |-> row.cid, vol |-> v,
                                         public |-> row.public]
           /\ \A b : SetPublic(b) = [status |-> row.status, cid |-> row.cid,
                                     vol |-> row.vol, public |-> b]
  BY DEF Rows, SetStatus, SetRuntime, SetDataVolume, SetPublic

\* They keep the row a row.
LEMMA RowTypes ==
    ASSUME row \in Rows
    PROVE  /\ \A s \in Statuses : SetStatus(s) \in Rows
           /\ \A c \in Ids : SetRuntime(c) \in Rows
           /\ \A v \in Volumes : SetDataVolume(v) \in Rows
           /\ \A b \in BOOLEAN : SetPublic(b) \in Rows
  <1>1. /\ row.status \in Statuses \cup {"none"} /\ row.cid \in Ids
        /\ row.vol \in Volumes /\ row.public \in BOOLEAN
    BY Zenon DEF Rows, Ids
  <1>2. \A s \in Statuses : SetStatus(s) \in Rows
    BY <1>1, RowUpdates DEF Rows, Ids
  <1>3. \A c \in Ids : SetRuntime(c) \in Rows
    BY <1>1, RowUpdates DEF Rows, Ids
  <1>4. \A v \in Volumes : SetDataVolume(v) \in Rows
    BY <1>1, RowUpdates DEF Rows, Ids
  <1>5. \A b \in BOOLEAN : SetPublic(b) \in Rows
    BY <1>1, RowUpdates DEF Rows, Ids
  <1> QED BY <1>2, <1>3, <1>4, <1>5, Zenon

\* A call of Docker on c changes the state of c to s, and nothing else.
Restated(c, s) ==
    /\ ctr' \in [Containers -> Servers]
    /\ \A d \in Containers \ {c} : ctr'[d] = ctr[d]
    /\ ctr'[c].st = s /\ ctr'[c].vol = ctr[c].vol
    /\ ctr'[c].fixed = ctr[c].fixed /\ ctr'[c].public = ctr[c].public

\* Starting, stopping, removing and losing a container.
LEMMA ContainerUpdates ==
    ASSUME ctr \in [Containers -> Servers], NEW c \in Containers
    PROVE  /\ StartContainer(c) => Restated(c, "running")
           /\ StopContainer(c) => Restated(c, IF ctr[c].st = "created"
                                              THEN "created" ELSE "stopped")
           /\ RemoveContainer(c) => Restated(c, "gone")
           /\ ctr' = [ctr EXCEPT ![c].st = "exited"] => Restated(c, "exited")
  <1>1. ASSUME NEW s \in ContainerStates, ctr' = [ctr EXCEPT ![c].st = s]
        PROVE  Restated(c, s)
    <2>1. [ctr[c] EXCEPT !.st = s] \in Servers
      BY <1>1, Zenon DEF Servers
    <2>2. ctr'[c] = [ctr[c] EXCEPT !.st = s]
      BY <1>1, Zenon
    <2>3. ctr[c] \in Servers
      OBVIOUS
    <2>4. /\ ctr'[c].st = s /\ ctr'[c].vol = ctr[c].vol
          /\ ctr'[c].fixed = ctr[c].fixed /\ ctr'[c].public = ctr[c].public
      BY <2>2, <2>3, Zenon DEF Servers
    <2>5. ctr' \in [Containers -> Servers]
      BY <1>1, <2>1, Zenon
    <2> QED BY <1>1, <2>4, <2>5, Zenon DEF Restated
  <1>2. {"running", "created", "stopped", "gone", "exited"}
            \subseteq ContainerStates
    BY Zenon DEF ContainerStates
  <1>3. StartContainer(c) => Restated(c, "running")
    BY <1>1, <1>2, Zenon DEF StartContainer
  <1>4. StopContainer(c) => Restated(c, IF ctr[c].st = "created"
                                        THEN "created" ELSE "stopped")
    BY <1>1, <1>2, Zenon DEF StopContainer
  <1>5. RemoveContainer(c) => Restated(c, "gone")
    BY <1>1, <1>2, Zenon DEF RemoveContainer
  <1>6. ctr' = [ctr EXCEPT ![c].st = "exited"] => Restated(c, "exited")
    BY <1>1, <1>2, Zenon
  <1> QED BY <1>3, <1>4, <1>5, <1>6, Zenon

\* A new container, and the other volume updates.
LEMMA VolumeUpdates ==
    ASSUME vol \in [Volumes -> {"none", "blank", "data", "gone"}],
           NEW v \in Volumes
    PROVE  /\ CreateVolume(v) \/ RemoveVolume(v)
                 => vol' \in [Volumes -> {"none", "blank", "data", "gone"}]
           /\ CreateVolume(v) =>
                 /\ \A w \in Volumes \ {v} : vol'[w] = vol[w]
                 /\ vol'[v] = IF vol[v] \in {"none", "gone"} THEN "blank"
                                                             ELSE vol[v]
           /\ RemoveVolume(v) =>
                 vol'[v] = "gone" /\ \A w \in Volumes \ {v} : vol'[w] = vol[w]
  BY Zenon DEF CreateVolume, RemoveVolume

-------------------------------------------------------------------------------
(* Each kind of step keeps the types and the mutex, and moves its handler.  *)

LEMMA WritesTyped ==
    ASSUME Typed, NEW p \in Procs, NEW l, Allowed(p, l), NEW new \in Rows,
           Writes(p, new, l)
    PROVE  Typed'
  <1>1. Moved(p, l)
    BY GotoMoves, Zenon DEF Typed, Allowed, Writes
  <1>2. row' \in Rows /\ UNCHANGED rowFrame
    BY Zenon DEF Writes, TryWrite, Written, Typed, Shape
  <1>3. job' \in [Procs -> Jobs] /\ Locks'
    BY <1>1, <1>2, MovedLocks, Zenon DEF rowFrame
  <1>4. Shape'
    BY <1>2, Zenon DEF Typed, Shape, rowFrame, dockerVars, historyVars
  <1> QED BY <1>1, <1>3, <1>4, Zenon DEF Typed

LEMMA TakesLocks ==
    ASSUME Typed, NEW p \in Procs, NEW l \in Labels, Allowed(p, l),
           NEW r \in Rows, mutex' = mutex,
           job' = [job EXCEPT ![p].inst = r, ![p].pc = l]
    PROVE  job' \in [Procs -> Jobs] /\ Locks'
  <1>1. job \in [Procs -> Jobs] /\ job[p] \in Jobs
    BY Zenon DEF Typed
  <1>2. job'[p] = [[job[p] EXCEPT !.inst = r] EXCEPT !.pc = l]
    BY <1>1, Zenon
  <1>3. job'[p].pc = l /\ job'[p].op = job[p].op
    BY <1>1, <1>2, Zenon DEF Jobs
  <1>4. job' \in [Procs -> Jobs]
    BY <1>1, Zenon DEF Jobs
  <1>5. Others(p)
    BY <1>1, Zenon DEF Others
  <1>6. l # "lock" /\ l # "return" /\ job[p].pc # "lock"
    BY Zenon DEF Allowed, Labels
  <1>7. Holds(p)' <=> Holds(p)
    BY <1>3, <1>6, Zenon DEF Holds
  <1>8. job'[p].pc \in {"lock", "unlock"} => job'[p].op \in Exclusive
    BY <1>3, <1>6, Zenon DEF Allowed
  <1>9. Locks'
    BY <1>5, <1>7, <1>8, Zenon DEF Typed, Locks, Holds, Others
  <1> QED BY <1>4, <1>9, Zenon

LEMMA GetsTyped ==
    ASSUME Typed, NEW p \in Procs, NEW ok \in Labels, NEW bad,
           Allowed(p, ok), Allowed(p, bad), Gets(p, ok, bad)
    PROVE  Typed'
  <1>1. UNCHANGED <<row, rowFrame>>
    BY Zenon DEF Gets
  <1>2. Shape'
    BY <1>1, Zenon DEF Typed, Shape, rowFrame, dockerVars, historyVars
  <1>3. row \in Rows /\ mutex' = mutex
    BY <1>1, Zenon DEF Typed, Shape, rowFrame
  <1>4. CASE row # NoRow /\ job' = [job EXCEPT ![p].inst = row, ![p].pc = ok]
    BY <1>2, <1>3, <1>4, TakesLocks, Zenon DEF Typed
  <1>5. CASE Missing /\ Goto(p, bad)
    <2>1. Moved(p, bad)
      BY <1>5, GotoMoves, Zenon DEF Typed, Allowed
    <2> QED BY <1>2, <1>3, <1>5, <2>1, MovedLocks, Zenon DEF Typed
  <1> QED BY <1>4, <1>5, Zenon DEF Gets

LEMMA CreatesTyped ==
    ASSUME Typed, NEW p \in Procs, NEW v \in Volumes, NEW fixed \in BOOLEAN,
           NEW public \in BOOLEAN, NEW ok \in Labels, NEW bad,
           Allowed(p, ok), Allowed(p, bad),
           Creates(p, v, fixed, public, ok, bad)
    PROVE  Typed'
  <1>1. UNCHANGED dockerFrame
    BY Zenon DEF Creates
  <1>2. CASE /\ fixed => NameFree
             /\ \E c \in Containers :
                   /\ CreateContainer(c, v, fixed, public)
                   /\ job' = [job EXCEPT ![p].new = c, ![p].pc = ok]
    <2>1. PICK c \in Containers :
              /\ CreateContainer(c, v, fixed, public)
              /\ job' = [job EXCEPT ![p].new = c, ![p].pc = ok]
      BY <1>2, Zenon
    <2>2. job \in [Procs -> Jobs] /\ job[p] \in Jobs
      BY Zenon DEF Typed
    <2>3. job'[p] = [[job[p] EXCEPT !.new = c] EXCEPT !.pc = ok]
      BY <2>1, <2>2, Zenon
    <2>4. job'[p].pc = ok /\ job'[p].op = job[p].op
      BY <2>2, <2>3, Zenon DEF Jobs
    <2>5. job' \in [Procs -> Jobs]
      BY <2>1, <2>2, Zenon DEF Jobs, Ids
    <2>6. Others(p)
      BY <2>1, <2>2, Zenon DEF Others
    <2>7. ok # "lock" /\ ok # "return" /\ job[p].pc # "lock"
      BY Zenon DEF Allowed, Labels
    <2>8. Holds(p)' <=> Holds(p)
      BY <2>4, <2>7, Zenon DEF Holds
    <2>9. job'[p].pc \in {"lock", "unlock"} => job'[p].op \in Exclusive
      BY <2>4, <2>7, Zenon DEF Allowed
    <2>10. mutex' = mutex
      BY <1>1, Zenon DEF dockerFrame
    <2>11. Locks'
      BY <2>6, <2>8, <2>9, <2>10, Zenon DEF Typed, Locks, Holds, Others
    <2>12. [st |-> "created", vol |-> v, fixed |-> fixed, public |-> public]
              \in Servers
      BY Zenon DEF Servers, ContainerStates
    <2>13. /\ ctr' \in [Containers -> Servers]
           /\ ctr[c].st = "none" /\ CreateVolume(v)
           /\ \A d \in Containers \ {c} : ctr'[d] = ctr[d]
           /\ ctr'[c] = [st |-> "created", vol |-> v, fixed |-> fixed,
                         public |-> public]
      BY <2>1, <2>12, Zenon DEF CreateContainer, NextContainer, Typed, Shape
    <2>14. vol' \in [Volumes -> {"none", "blank", "data", "gone"}]
      BY <2>13, VolumeUpdates, Zenon DEF Typed, Shape
    <2>15. Shape'
      BY <1>1, <2>13, <2>14, Zenon DEF Typed, Shape, dockerFrame, historyVars
    <2> QED BY <2>5, <2>11, <2>15, Zenon DEF Typed
  <1>3. CASE Refused(fixed => NameFree) /\ UNCHANGED dockerVars /\ Goto(p, bad)
    <2>1. Moved(p, bad)
      BY <1>3, GotoMoves, Zenon DEF Typed, Allowed
    <2>2. Shape' /\ mutex' = mutex
      BY <1>1, <1>3, Zenon
      DEF Typed, Shape, dockerFrame, dockerVars, historyVars
    <2> QED BY <1>3, <2>1, <2>2, MovedLocks, Zenon DEF Typed
  <1> QED BY <1>2, <1>3, Zenon DEF Creates

\* A step that goes on at l and changes at most the containers, and keeps
\* them containers.
LEMMA ServerStepTyped ==
    ASSUME Typed, NEW p \in Procs, NEW l, Allowed(p, l), Goto(p, l),
           ctr' \in [Containers -> Servers],
           vol' \in [Volumes -> {"none", "blank", "data", "gone"}],
           UNCHANGED dockerFrame
    PROVE  Typed'
  <1>1. Moved(p, l)
    BY GotoMoves, Zenon DEF Typed, Allowed
  <1>2. Shape' /\ mutex' = mutex
    BY Zenon DEF Typed, Shape, dockerFrame, historyVars
  <1> QED BY <1>1, <1>2, MovedLocks, Zenon DEF Typed

LEMMA StartsTyped ==
    ASSUME Typed, NEW p \in Procs, NEW c \in Ids, NEW ok, NEW bad,
           Allowed(p, ok), Allowed(p, bad), Starts(p, c, ok, bad)
    PROVE  Typed'
  <1>1. /\ UNCHANGED vol /\ UNCHANGED dockerFrame
        /\ ctr \in [Containers -> Servers]
        /\ vol' \in [Volumes -> {"none", "blank", "data", "gone"}]
    BY Zenon DEF Starts, Typed, Shape
  <1>2. CASE Exists(c) /\ StartContainer(c) /\ Goto(p, ok)
    <2>1. Restated(c, "running")
      BY <1>1, <1>2, ContainerUpdates, Zenon DEF Exists, Ids
    <2> QED BY <1>1, <1>2, <2>1, ServerStepTyped, Zenon DEF Restated
  <1>3. CASE Refused(Exists(c)) /\ UNCHANGED ctr /\ Goto(p, bad)
    BY <1>1, <1>3, ServerStepTyped, Zenon
  <1> QED BY <1>2, <1>3, Zenon DEF Starts

LEMMA StopsTyped ==
    ASSUME Typed, NEW p \in Procs, NEW c \in Ids, NEW ok, NEW bad,
           Allowed(p, ok), Allowed(p, bad), Stops(p, c, ok, bad)
    PROVE  Typed'
  <1>1. /\ UNCHANGED vol /\ UNCHANGED dockerFrame
        /\ ctr \in [Containers -> Servers]
        /\ vol' \in [Volumes -> {"none", "blank", "data", "gone"}]
    BY Zenon DEF Stops, Typed, Shape
  <1>2. CASE Exists(c) /\ StopContainer(c) /\ Goto(p, ok)
    <2>1. Restated(c, IF ctr[c].st = "created" THEN "created" ELSE "stopped")
      BY <1>1, <1>2, ContainerUpdates, Zenon DEF Exists, Ids
    <2>2. ctr' \in [Containers -> Servers]
      BY <2>1, Zenon DEF Restated
    <2>3. Typed'
      BY <1>1, <1>2, <2>2, ServerStepTyped, Zenon
    <2> QED BY <1>2, <2>1, <2>3, Zenon
  <1>3. CASE Refused(Exists(c)) /\ UNCHANGED ctr /\ Goto(p, bad)
    BY <1>1, <1>3, ServerStepTyped, Zenon
  <1> QED BY <1>2, <1>3, Zenon DEF Stops

LEMMA RemovesTyped ==
    ASSUME Typed, NEW p \in Procs, NEW c \in Ids, NEW l, Allowed(p, l),
           Removes(p, c, l)
    PROVE  Typed'
  <1>1. /\ UNCHANGED vol /\ UNCHANGED dockerFrame /\ Goto(p, l)
        /\ ctr \in [Containers -> Servers]
        /\ vol' \in [Volumes -> {"none", "blank", "data", "gone"}]
    BY Zenon DEF Removes, Typed, Shape
  <1>2. CASE Exists(c) /\ RemoveContainer(c)
    <2>1. Restated(c, "gone")
      BY <1>1, <1>2, ContainerUpdates, Zenon DEF Exists, Ids
    <2> QED BY <1>1, <1>2, <2>1, ServerStepTyped, Zenon DEF Restated
  <1>3. CASE Refused(Exists(c)) /\ UNCHANGED ctr
    BY <1>1, <1>3, ServerStepTyped, Zenon
  <1> QED BY <1>2, <1>3, Zenon DEF Removes

LEMMA RemovesVolumeTyped ==
    ASSUME Typed, NEW p \in Procs, NEW v \in Volumes, NEW ok, NEW bad,
           Allowed(p, ok), Allowed(p, bad), RemovesVolume(p, v, ok, bad)
    PROVE  Typed'
  <1>1. /\ UNCHANGED ctr /\ UNCHANGED dockerFrame
        /\ vol \in [Volumes -> {"none", "blank", "data", "gone"}]
        /\ ctr' \in [Containers -> Servers]
    BY Zenon DEF RemovesVolume, Typed, Shape
  <1>2. CASE ~InUse(v) /\ RemoveVolume(v) /\ Goto(p, ok)
    <2>1. vol' \in [Volumes -> {"none", "blank", "data", "gone"}]
      BY <1>1, <1>2, VolumeUpdates, Zenon
    <2> QED BY <1>1, <1>2, <2>1, ServerStepTyped, Zenon
  <1>3. CASE Refused(~InUse(v)) /\ UNCHANGED vol /\ Goto(p, bad)
    BY <1>1, <1>3, ServerStepTyped, Zenon
  <1> QED BY <1>2, <1>3, Zenon DEF RemovesVolume

LEMMA ExecsTyped ==
    ASSUME Typed, NEW p \in Procs, NEW c \in Ids, NEW ok, NEW bad,
           Allowed(p, ok), Allowed(p, bad), Execs(p, c, ok, bad)
    PROVE  Typed'
  <1>1. /\ UNCHANGED dockerFrame
        /\ vol' \in [Volumes -> {"none", "blank", "data", "gone"}]
        /\ ctr' \in [Containers -> Servers]
    BY Zenon DEF Execs, Typed, Shape, dockerVars
  <1> QED BY <1>1, ServerStepTyped, Zenon DEF Execs

-------------------------------------------------------------------------------
(* Every step of every handler keeps the types and the mutex.               *)

\* The two ways a step without a call of Docker goes on.
LEMMA RowStepTyped ==
    ASSUME Typed, NEW p \in Procs, NEW l, Allowed(p, l), Goto(p, l),
           row' \in Rows, UNCHANGED rowFrame
    PROVE  Typed'
  <1>1. Moved(p, l)
    BY GotoMoves, Zenon DEF Typed, Allowed
  <1>2. Shape' /\ mutex' = mutex
    BY Zenon DEF Typed, Shape, rowFrame, dockerVars, historyVars
  <1> QED BY <1>1, <1>2, MovedLocks, Zenon DEF Typed

LEMMA TakesTyped ==
    ASSUME Typed, NEW p \in Procs, NEW l \in Labels, Allowed(p, l),
           NEW r \in Rows, job' = [job EXCEPT ![p].inst = r, ![p].pc = l],
           UNCHANGED <<row, rowFrame>>
    PROVE  Typed'
  <1>1. Shape' /\ mutex' = mutex
    BY Zenon DEF Typed, Shape, rowFrame, dockerVars, historyVars
  <1> QED BY <1>1, TakesLocks, Zenon DEF Typed

LEMMA ProvisionTyped ==
    ASSUME Typed, NEW p \in Procs, Provision(p)
    PROVE  Typed'
  <1> USE DEF At
  <1>0. /\ job[p] \in Jobs /\ row \in Rows /\ DefaultVolume \in Volumes
        /\ job[p].inst \in Rows /\ job[p].new \in Ids /\ job[p].vol \in Volumes
        /\ job[p].want \in BOOLEAN /\ job[p].inst.cid \in Ids
        /\ job[p].inst.vol \in Volumes /\ job[p].inst.public \in BOOLEAN
    BY Blank, Zenon DEF Typed, Shape, Jobs, Rows, Ids
  <1>1. CASE ProvisionGet(p)
    <2>1. Allowed(p, "volume") /\ Allowed(p, "fail")
      BY <1>1, Zenon DEF ProvisionGet, Allowed, Labels, Exclusive
    <2>2. CASE job' = [job EXCEPT ![p].inst = row, ![p].pc = "volume"]
      BY <1>1, <1>0, <2>1, <2>2, TakesTyped, Zenon DEF ProvisionGet, Labels
    <2>3. CASE Goto(p, "fail")
      BY <1>1, <1>0, <2>1, <2>3, RowStepTyped, Zenon DEF ProvisionGet
    <2> QED BY <1>1, <2>2, <2>3, Zenon DEF ProvisionGet
  <1>2. CASE ProvisionVolume(p)
    <2>1. /\ Allowed(p, "create") /\ Allowed(p, "undo")
          /\ Allowed(p, "fail")
      BY <1>2 DEF ProvisionVolume, Allowed, Labels, Exclusive
    <2>2. /\ vol' \in [Volumes -> {"none", "blank", "data", "gone"}]
          /\ ctr' \in [Containers -> Servers]
      BY <1>2, <1>0, VolumeUpdates, Zenon DEF ProvisionVolume, Typed, Shape
    <2> QED BY <1>2, <2>1, <2>2, ServerStepTyped, Zenon DEF ProvisionVolume
  <1>3. CASE ProvisionCreate(p)
    <2>1. Allowed(p, "record") /\ Allowed(p, "undo")
      BY <1>3, Zenon DEF ProvisionCreate, Allowed, Labels, Exclusive
    <2> QED BY <1>3, <1>0, <2>1, CreatesTyped, ZenonT(40) DEF ProvisionCreate, Labels
  <1>4. CASE ProvisionRecord(p)
    <2>1. Allowed(p, "start")
      BY <1>4, Zenon DEF ProvisionRecord, Allowed, Labels, Exclusive
    <2> QED BY <1>4, <1>0, <2>1, RowTypes, WritesTyped, Zenon
            DEF ProvisionRecord, Statuses
  <1>5. CASE ProvisionStart(p)
    <2>1. Allowed(p, "port") /\ Allowed(p, "undo")
      BY <1>5, Zenon DEF ProvisionStart, Allowed, Labels, Exclusive
    <2> QED BY <1>5, <1>0, <2>1, StartsTyped, Zenon DEF ProvisionStart
  <1>6. CASE ProvisionInspect(p)
    <2>1. Allowed(p, "setPort") /\ Allowed(p, "undo")
      BY <1>6, Zenon DEF ProvisionInspect, Allowed, Labels, Exclusive
    <2> QED BY <1>6, <1>0, <2>1, ExecsTyped, Zenon DEF ProvisionInspect
  <1>7. CASE ProvisionPort(p)
    <2>1. Allowed(p, "ready") /\ Allowed(p, "undo")
      BY <1>7, Zenon DEF ProvisionPort, Allowed, Labels, Exclusive
    <2>2. row' \in Rows
      BY <1>7, <1>0, RowTypes, Zenon DEF ProvisionPort, Written
    <2> QED BY <1>7, <2>1, <2>2, RowStepTyped, Zenon DEF ProvisionPort
  <1>8. CASE ProvisionReady(p)
    <2>1. Allowed(p, "done") /\ Allowed(p, "undo")
      BY <1>8, Zenon DEF ProvisionReady, Allowed, Labels, Exclusive
    <2>2. /\ vol' \in [Volumes -> {"none", "blank", "data", "gone"}]
          /\ provisioned' \in BOOLEAN /\ mutex' = mutex
      BY <1>8, <1>0, Zenon DEF ProvisionReady, Typed, Shape
    <2>3. Shape'
      BY <1>8, <2>2, Zenon DEF ProvisionReady, Typed, Shape
    <2>4. Moved(p, "done") \/ Moved(p, "undo")
      BY <1>8, <2>1, GotoMoves, Zenon DEF ProvisionReady, Allowed, Typed
    <2> QED BY <2>1, <2>2, <2>3, <2>4, MovedLocks, Zenon DEF Typed
  <1>9. CASE ProvisionDone(p)
    <2>1. Allowed(p, "return")
      BY <1>9, Zenon DEF ProvisionDone, Allowed, Labels, Exclusive
    <2> QED BY <1>9, <1>0, <2>1, RowTypes, WritesTyped, Zenon
            DEF ProvisionDone, Statuses
  <1>10. CASE ProvisionUndo(p)
    <2>1. Allowed(p, "undoVolume")
      BY <1>10, Zenon DEF ProvisionUndo, Allowed, Labels, Exclusive
    <2> QED BY <1>10, <1>0, <2>1, RemovesTyped, Zenon DEF ProvisionUndo
  <1>11. CASE ProvisionUndoVolume(p)
    <2>1. Allowed(p, "fail")
      BY <1>11, Zenon DEF ProvisionUndoVolume, Allowed, Labels, Exclusive
    <2> QED BY <1>11, <1>0, <2>1, RemovesVolumeTyped, Zenon
            DEF ProvisionUndoVolume
  <1>12. CASE ProvisionFail(p)
    <2>1. Allowed(p, "return")
      BY <1>12, Zenon DEF ProvisionFail, Allowed, Labels, Exclusive
    <2> QED BY <1>12, <1>0, <2>1, RowTypes, WritesTyped, Zenon
            DEF ProvisionFail, Statuses
  <1> QED
      BY <1>1, <1>2, <1>3, <1>4, <1>5, <1>6, <1>7, <1>8, <1>9, <1>10,
         <1>11, <1>12, Zenon DEF Provision

LEMMA LifecycleTyped ==
    ASSUME Typed, NEW p \in Procs, Lifecycle(p)
    PROVE  Typed'
  <1> USE DEF At
  <1>0. /\ job[p] \in Jobs /\ row \in Rows /\ DefaultVolume \in Volumes
        /\ job[p].inst \in Rows /\ job[p].new \in Ids /\ job[p].vol \in Volumes
        /\ job[p].want \in BOOLEAN /\ job[p].inst.cid \in Ids
        /\ job[p].inst.vol \in Volumes /\ job[p].inst.public \in BOOLEAN
    BY Blank, Zenon DEF Typed, Shape, Jobs, Rows, Ids
  <1>1. CASE LifecycleGet(p)
    <2>1. Allowed(p, "call") /\ Allowed(p, "return")
      BY <1>1, Zenon DEF LifecycleGet, Allowed, Labels, Exclusive
    <2> QED BY <1>1, <2>1, GetsTyped, Zenon DEF LifecycleGet, Labels
  <1>2. CASE StartCall(p)
    <2>1. Allowed(p, "refresh") /\ Allowed(p, "return")
      BY <1>2, Zenon DEF StartCall, Allowed, Labels, Exclusive
    <2> QED BY <1>2, <1>0, <2>1, StartsTyped, Zenon DEF StartCall
  <1>3. CASE StartInspect(p)
    <2>1. Allowed(p, "port") /\ Allowed(p, "done")
      BY <1>3, Zenon DEF StartInspect, Allowed, Labels, Exclusive
    <2> QED BY <1>3, <1>0, <2>1, ExecsTyped, Zenon DEF StartInspect
  <1>4. CASE StartRefresh(p)
    <2>1. Allowed(p, "done")
      BY <1>4, Zenon DEF StartRefresh, Allowed, Labels, Exclusive
    <2> QED BY <1>4, <1>0, <2>1, RowTypes, WritesTyped, Zenon
            DEF StartRefresh, Statuses
  <1>5. CASE StartDone(p)
    <2>1. Allowed(p, "return")
      BY <1>5, Zenon DEF StartDone, Allowed, Labels, Exclusive
    <2> QED BY <1>5, <1>0, <2>1, RowTypes, WritesTyped, Zenon
            DEF StartDone, Statuses
  <1>6. CASE StopCall(p)
    <2>1. Allowed(p, "done") /\ Allowed(p, "return")
      BY <1>6, Zenon DEF StopCall, Allowed, Labels, Exclusive
    <2> QED BY <1>6, <1>0, <2>1, StopsTyped, Zenon DEF StopCall
  <1>7. CASE StopDone(p)
    <2>1. Allowed(p, "return") /\ Allowed(p, "get")
      BY <1>7, Zenon DEF StopDone, Allowed, Labels, Exclusive
    <2>2. row' \in Rows
      BY <1>7, <1>0, RowTypes, Zenon DEF StopDone, Written, Statuses
    <2>3. CASE Goto(p, "return")
      BY <1>7, <2>1, <2>2, <2>3, RowStepTyped, Zenon DEF StopDone
    <2>4. CASE job' = [job EXCEPT ![p].op = "start", ![p].pc = "get"]
      <3>1. job \in [Procs -> Jobs]
        BY Zenon DEF Typed
      <3>2. job'[p] = [[job[p] EXCEPT !.op = "start"] EXCEPT !.pc = "get"]
        BY <2>4, <3>1, Zenon
      <3>3. job'[p].pc = "get" /\ job'[p].op = "start"
        BY <1>0, <3>2, Zenon DEF Jobs
      <3>4. job' \in [Procs -> Jobs]
        <4>1. "start" \in Handlers /\ "get" \in Labels
          BY Zenon DEF Handlers, Labels
        <4> QED BY <2>4, <3>1, <4>1, ZenonT(40) DEF Jobs
      <3>5. Others(p)
        BY <2>4, <3>1, Zenon DEF Others
      <3>6. ~Holds(p)' /\ ~Holds(p)
        BY <1>7, <3>3, Zenon DEF Holds, StopDone, Exclusive
      <3>7. Shape' /\ mutex' = mutex
        BY <1>7, <2>2, Zenon DEF StopDone, Typed, Shape, rowFrame, dockerVars,
                            historyVars
      <3>8. Locks'
        BY <3>3, <3>5, <3>6, <3>7, Zenon DEF Typed, Locks, Holds, Others
      <3> QED BY <3>4, <3>7, <3>8, Zenon DEF Typed
    <2> QED BY <1>7, <2>3, <2>4, Zenon DEF StopDone
  <1> QED
      BY <1>1, <1>2, <1>3, <1>4, <1>5, <1>6, <1>7, Zenon DEF Lifecycle

LEMMA DestroyTyped ==
    ASSUME Typed, NEW p \in Procs, Destroy(p)
    PROVE  Typed'
  <1> USE DEF At
  <1>0. /\ job[p] \in Jobs /\ row \in Rows /\ DefaultVolume \in Volumes
        /\ job[p].inst \in Rows /\ job[p].new \in Ids /\ job[p].vol \in Volumes
        /\ job[p].want \in BOOLEAN /\ job[p].inst.cid \in Ids
        /\ job[p].inst.vol \in Volumes /\ job[p].inst.public \in BOOLEAN
    BY Blank, Zenon DEF Typed, Shape, Jobs, Rows, Ids
  <1>1. CASE DestroyGet(p)
    <2>1. Allowed(p, "mark") /\ Allowed(p, "return")
      BY <1>1, Zenon DEF DestroyGet, Allowed, Labels, Exclusive
    <2> QED BY <1>1, <2>1, GetsTyped, Zenon DEF DestroyGet, Labels
  <1>2. CASE DestroyMark(p)
    <2>1. Allowed(p, "container")
      BY <1>2, Zenon DEF DestroyMark, Allowed, Labels, Exclusive
    <2> QED BY <1>2, <1>0, <2>1, RowTypes, WritesTyped, Zenon
            DEF DestroyMark, Statuses
  <1>3. CASE DestroyContainer(p)
    <2>1. Allowed(p, "volume") /\ Allowed(p, "fail")
      BY <1>3, Zenon DEF DestroyContainer, Allowed, Labels, Exclusive
    <2>2. ctr' \in [Containers -> Servers]
      BY <1>3, <1>0, ContainerUpdates, Zenon
      DEF DestroyContainer, Typed, Shape, Restated, Exists, Ids
    <2>3. vol' \in [Volumes -> {"none", "blank", "data", "gone"}]
      BY <1>3, Zenon DEF DestroyContainer, Typed, Shape
    <2> QED BY <1>3, <2>1, <2>2, <2>3, ServerStepTyped, Zenon
            DEF DestroyContainer
  <1>4. CASE DestroyVolume(p)
    <2>1. Allowed(p, "repo") /\ Allowed(p, "fail")
      BY <1>4, Zenon DEF DestroyVolume, Allowed, Labels, Exclusive
    <2> QED BY <1>4, <1>0, <2>1, RemovesVolumeTyped, Zenon DEF DestroyVolume
  <1>5. CASE DestroyRepo(p)
    <2>1. Allowed(p, "row") /\ Allowed(p, "fail")
      BY <1>5, Zenon DEF DestroyRepo, Allowed, Labels, Exclusive
    <2>2. /\ vol' \in [Volumes -> {"none", "blank", "data", "gone"}]
          /\ ctr' \in [Containers -> Servers]
      BY <1>5, Zenon DEF DestroyRepo, Typed, Shape, dockerVars
    <2> QED BY <1>5, <2>1, <2>2, ServerStepTyped, Zenon DEF DestroyRepo
  <1>6. CASE DestroyRow(p)
    <2>1. Allowed(p, "return")
      BY <1>6, Zenon DEF DestroyRow, Allowed, Labels, Exclusive
    <2> QED BY <1>6, <2>1, Blank, WritesTyped, Zenon DEF DestroyRow
  <1>7. CASE DestroyFail(p)
    <2>1. Allowed(p, "return")
      BY <1>7, Zenon DEF DestroyFail, Allowed, Labels, Exclusive
    <2> QED BY <1>7, <1>0, <2>1, RowTypes, WritesTyped, Zenon
            DEF DestroyFail, Statuses
  <1> QED
      BY <1>1, <1>2, <1>3, <1>4, <1>5, <1>6, <1>7, Zenon DEF Destroy

LEMMA RestoreTyped ==
    ASSUME Typed, NEW p \in Procs, Restore(p)
    PROVE  Typed'
  <1> USE DEF At
  <1>0. /\ job[p] \in Jobs /\ row \in Rows /\ DefaultVolume \in Volumes
        /\ job[p].inst \in Rows /\ job[p].new \in Ids /\ job[p].vol \in Volumes
        /\ job[p].want \in BOOLEAN /\ job[p].inst.cid \in Ids
        /\ job[p].inst.vol \in Volumes /\ job[p].inst.public \in BOOLEAN
    BY Blank, Zenon DEF Typed, Shape, Jobs, Rows, Ids
  <1>1. CASE RestoreGet(p)
    <2>1. Allowed(p, "mark") /\ Allowed(p, "fail")
      BY <1>1, Zenon DEF RestoreGet, Allowed, Labels, Exclusive
    <2> QED BY <1>1, <2>1, GetsTyped, Zenon DEF RestoreGet, Labels
  <1>2. CASE RestoreMark(p)
    <2>1. Allowed(p, "volume")
      BY <1>2, Zenon DEF RestoreMark, Allowed, Labels, Exclusive
    <2> QED BY <1>2, <1>0, <2>1, RowTypes, WritesTyped, Zenon
            DEF RestoreMark, Statuses
  <1>3. CASE RestoreVolume(p)
    <2>1. Allowed(p, "stop") /\ Allowed(p, "fail")
      BY <1>3, Zenon DEF RestoreVolume, Allowed, Labels, Exclusive
    <2>2. CASE /\ UNCHANGED vol /\ Goto(p, "fail")
               /\ UNCHANGED <<ctr, dockerFrame>>
      <3>1. /\ vol' \in [Volumes -> {"none", "blank", "data", "gone"}]
            /\ ctr' \in [Containers -> Servers]
        BY <2>2, Zenon DEF Typed, Shape
      <3> QED BY <2>1, <2>2, <3>1, ServerStepTyped, Zenon
    <2>3. ASSUME NEW v \in Volumes, CreateVolume(v),
                 job' = [job EXCEPT ![p].vol = v, ![p].pc = "stop"],
                 UNCHANGED <<ctr, dockerFrame>>
          PROVE  Typed'
      <3>1. job \in [Procs -> Jobs]
        BY Zenon DEF Typed
      <3>2. job'[p] = [[job[p] EXCEPT !.vol = v] EXCEPT !.pc = "stop"]
        BY <2>3, <3>1, Zenon
      <3>3. job'[p].pc = "stop" /\ job'[p].op = job[p].op
        BY <1>0, <3>2, Zenon DEF Jobs
      <3>4. job' \in [Procs -> Jobs]
        <4>1. "stop" \in Labels
          BY Zenon DEF Labels
        <4> QED BY <2>3, <3>1, <4>1, ZenonT(40) DEF Jobs
      <3>5. Others(p)
        BY <2>3, <3>1, Zenon DEF Others
      <3>6. Holds(p)' <=> Holds(p)
        BY <1>3, <3>3, Zenon DEF Holds, RestoreVolume, Exclusive
      <3>7. vol' \in [Volumes -> {"none", "blank", "data", "gone"}]
        BY <2>3, VolumeUpdates, Zenon DEF Typed, Shape
      <3>8. Shape' /\ mutex' = mutex
        BY <2>3, <3>7, Zenon DEF Typed, Shape, dockerFrame, historyVars
      <3>9. Locks'
        BY <3>3, <3>5, <3>6, <3>8, Zenon DEF Typed, Locks, Holds, Others
      <3> QED BY <3>4, <3>8, <3>9, Zenon DEF Typed
    <2> QED BY <1>3, <2>2, <2>3, Zenon DEF RestoreVolume
  <1>4. CASE RestoreStop(p)
    <2>1. Allowed(p, "fill")
      BY <1>4, Zenon DEF RestoreStop, Allowed, Labels, Exclusive
    <2> QED BY <1>4, <1>0, <2>1, StopsTyped, Zenon DEF RestoreStop
  <1>5. CASE RestoreFill(p)
    <2>1. Allowed(p, "create") /\ Allowed(p, "undoVolume")
      BY <1>5, Zenon DEF RestoreFill, Allowed, Labels, Exclusive
    <2>2. /\ vol' \in [Volumes -> {"none", "blank", "data", "gone"}]
          /\ ctr' \in [Containers -> Servers]
      BY <1>5, <1>0, Zenon DEF RestoreFill, Typed, Shape
    <2> QED BY <1>5, <2>1, <2>2, ServerStepTyped, Zenon DEF RestoreFill
  <1>6. CASE RestoreCreate(p)
    <2>1. Allowed(p, "start") /\ Allowed(p, "undoVolume")
      BY <1>6, Zenon DEF RestoreCreate, Allowed, Labels, Exclusive
    <2>2. CASE Creates(p, job[p].vol, FALSE, job[p].inst.public, "start",
                       "undoVolume")
      BY <1>0, <2>1, <2>2, CreatesTyped, ZenonT(40) DEF Labels
    <2>3. CASE Goto(p, "undoVolume") /\ UNCHANGED <<row, rowFrame>>
      BY <1>0, <2>1, <2>3, RowStepTyped, Zenon
    <2> QED BY <1>6, <2>2, <2>3, Zenon DEF RestoreCreate
  <1>7. CASE RestoreStart(p)
    <2>1. Allowed(p, "ready") /\ Allowed(p, "undo")
      BY <1>7, Zenon DEF RestoreStart, Allowed, Labels, Exclusive
    <2> QED BY <1>7, <1>0, <2>1, StartsTyped, Zenon DEF RestoreStart
  <1>8. CASE RestoreReady(p)
    <2>1. Allowed(p, "commit") /\ Allowed(p, "undo")
      BY <1>8, Zenon DEF RestoreReady, Allowed, Labels, Exclusive
    <2> QED BY <1>8, <1>0, <2>1, ExecsTyped, Zenon DEF RestoreReady
  <1>9. CASE RestoreInspect(p)
    <2>1. Allowed(p, "setRuntime") /\ Allowed(p, "setVolume")
      BY <1>9, Zenon DEF RestoreInspect, Allowed, Labels, Exclusive
    <2>2. /\ vol' \in [Volumes -> {"none", "blank", "data", "gone"}]
          /\ ctr' \in [Containers -> Servers]
      BY <1>9, Zenon DEF RestoreInspect, Typed, Shape, dockerVars
    <2> QED BY <1>9, <2>1, <2>2, ServerStepTyped, Zenon DEF RestoreInspect
  <1>10. CASE RestoreSetRuntime(p)
    <2>1. Allowed(p, "setVolume")
      BY <1>10, Zenon DEF RestoreSetRuntime, Allowed, Labels, Exclusive
    <2> QED BY <1>10, <1>0, <2>1, RowTypes, WritesTyped, Zenon
            DEF RestoreSetRuntime, Statuses
  <1>11. CASE RestoreSetVolume(p)
    <2>1. Allowed(p, "dropOld")
      BY <1>11, Zenon DEF RestoreSetVolume, Allowed, Labels, Exclusive
    <2> QED BY <1>11, <1>0, <2>1, RowTypes, WritesTyped, Zenon
            DEF RestoreSetVolume, Statuses
  <1>12. CASE RestoreDropOld(p)
    <2>1. Allowed(p, "dropVolume")
      BY <1>12, Zenon DEF RestoreDropOld, Allowed, Labels, Exclusive
    <2> QED BY <1>12, <1>0, <2>1, RemovesTyped, Zenon DEF RestoreDropOld
  <1>13. CASE RestoreDropVolume(p)
    <2>1. Allowed(p, "done")
      BY <1>13, Zenon DEF RestoreDropVolume, Allowed, Labels, Exclusive
    <2> QED BY <1>13, <1>0, <2>1, RemovesVolumeTyped, Zenon
            DEF RestoreDropVolume
  <1>14. CASE RestoreDone(p)
    <2>1. Allowed(p, "unlock")
      BY <1>14, Zenon DEF RestoreDone, Allowed, Labels, Exclusive
    <2> QED BY <1>14, <1>0, <2>1, RowTypes, WritesTyped, Zenon
            DEF RestoreDone, Statuses
  <1>15. CASE RestoreUndo(p)
    <2>1. Allowed(p, "undoVolume")
      BY <1>15, Zenon DEF RestoreUndo, Allowed, Labels, Exclusive
    <2> QED BY <1>15, <1>0, <2>1, RemovesTyped, Zenon DEF RestoreUndo
  <1>16. CASE RestoreUndoVolume(p)
    <2>1. Allowed(p, "undoStop")
      BY <1>16, Zenon DEF RestoreUndoVolume, Allowed, Labels, Exclusive
    <2> QED BY <1>16, <1>0, <2>1, RemovesVolumeTyped, Zenon
            DEF RestoreUndoVolume
  <1>17. CASE RestoreUndoStop(p)
    <2>1. Allowed(p, "undoPort")
      BY <1>17, Zenon DEF RestoreUndoStop, Allowed, Labels, Exclusive
    <2> QED BY <1>17, <1>0, <2>1, StartsTyped, Zenon DEF RestoreUndoStop
  <1>18. CASE RestoreUndoInspect(p)
    <2>1. Allowed(p, "undoRow") /\ Allowed(p, "fail")
      BY <1>18, Zenon DEF RestoreUndoInspect, Allowed, Labels, Exclusive
    <2> QED BY <1>18, <1>0, <2>1, ExecsTyped, Zenon DEF RestoreUndoInspect
  <1>19. CASE RestoreUndoRow(p)
    <2>1. Allowed(p, "fail")
      BY <1>19, Zenon DEF RestoreUndoRow, Allowed, Labels, Exclusive
    <2> QED BY <1>19, <1>0, <2>1, RowTypes, WritesTyped, Zenon
            DEF RestoreUndoRow, Statuses
  <1>20. CASE RestoreFail(p)
    <2>1. Allowed(p, "unlock")
      BY <1>20, Zenon DEF RestoreFail, Allowed, Labels, Exclusive
    <2> QED BY <1>20, <1>0, <2>1, RowTypes, WritesTyped, Zenon
            DEF RestoreFail, Statuses
  <1> QED
      BY <1>1, <1>2, <1>3, <1>4, <1>5, <1>6, <1>7, <1>8, <1>9, <1>10,
         <1>11, <1>12, <1>13, <1>14, <1>15, <1>16, <1>17, <1>18, <1>19,
         <1>20, Zenon DEF Restore

LEMMA VisibilityTyped ==
    ASSUME Typed, NEW p \in Procs, Visibility(p)
    PROVE  Typed'
  <1> USE DEF At
  <1>0. /\ job[p] \in Jobs /\ row \in Rows /\ DefaultVolume \in Volumes
        /\ job[p].inst \in Rows /\ job[p].new \in Ids /\ job[p].vol \in Volumes
        /\ job[p].want \in BOOLEAN /\ job[p].inst.cid \in Ids
        /\ job[p].inst.vol \in Volumes /\ job[p].inst.public \in BOOLEAN
    BY Blank, Zenon DEF Typed, Shape, Jobs, Rows, Ids
  <1>1. CASE VisibilityGet(p)
    <2>1. Allowed(p, "setPublic") /\ Allowed(p, "unlock")
      BY <1>1, Zenon DEF VisibilityGet, Allowed, Labels, Exclusive
    <2>2. [row EXCEPT !.public = job[p].want] \in Rows
      BY <1>0, RowTypes, Zenon DEF SetPublic
    <2>3. CASE job' = [job EXCEPT
                           ![p].inst = [row EXCEPT !.public = job[p].want],
                           ![p].pc = "setPublic"]
      BY <1>1, <2>1, <2>2, <2>3, TakesTyped, Zenon DEF VisibilityGet, Labels
    <2>4. CASE Goto(p, "unlock")
      BY <1>1, <1>0, <2>1, <2>4, RowStepTyped, Zenon DEF VisibilityGet
    <2> QED BY <1>1, <2>3, <2>4, Zenon DEF VisibilityGet
  <1>2. CASE VisibilitySetPublic(p)
    <2>1. Allowed(p, "stop") /\ Allowed(p, "unlock")
      BY <1>2, Zenon DEF VisibilitySetPublic, Allowed, Labels, Exclusive
    <2>2. row' \in Rows
      BY <1>2, <1>0, RowTypes, Zenon DEF VisibilitySetPublic, Written
    <2>3. Goto(p, "stop") \/ Goto(p, "unlock")
      BY <1>2, Zenon DEF VisibilitySetPublic
    <2> QED BY <1>2, <2>1, <2>2, <2>3, RowStepTyped, Zenon
            DEF VisibilitySetPublic
  <1>3. CASE VisibilityStop(p)
    <2>1. Allowed(p, "dropOld") /\ Allowed(p, "unlock")
      BY <1>3, Zenon DEF VisibilityStop, Allowed, Labels, Exclusive
    <2>2. CASE Stops(p, job[p].inst.cid, "dropOld", "dropOld")
      BY <1>0, <2>1, <2>2, StopsTyped, Zenon
    <2>3. CASE Goto(p, "unlock") /\ UNCHANGED <<row, rowFrame>>
      BY <1>0, <2>1, <2>3, RowStepTyped, Zenon
    <2> QED BY <1>3, <2>2, <2>3, Zenon DEF VisibilityStop
  <1>4. CASE VisibilityDropOld(p)
    <2>1. Allowed(p, "create")
      BY <1>4, Zenon DEF VisibilityDropOld, Allowed, Labels, Exclusive
    <2> QED BY <1>4, <1>0, <2>1, RemovesTyped, Zenon DEF VisibilityDropOld
  <1>5. CASE VisibilityCreate(p)
    <2>1. Allowed(p, "record") /\ Allowed(p, "revert")
      BY <1>5, Zenon DEF VisibilityCreate, Allowed, Labels, Exclusive
    <2> QED BY <1>5, <1>0, <2>1, CreatesTyped, ZenonT(40) DEF VisibilityCreate, Labels
  <1>6. CASE VisibilityRecord(p)
    <2>1. Allowed(p, "start")
      BY <1>6, Zenon DEF VisibilityRecord, Allowed, Labels, Exclusive
    <2> QED BY <1>6, <1>0, <2>1, RowTypes, WritesTyped, Zenon
            DEF VisibilityRecord, Statuses
  <1>7. CASE VisibilityStart(p)
    <2>1. Allowed(p, "ready") /\ Allowed(p, "revert")
      BY <1>7, Zenon DEF VisibilityStart, Allowed, Labels, Exclusive
    <2> QED BY <1>7, <1>0, <2>1, StartsTyped, Zenon DEF VisibilityStart
  <1>8. CASE VisibilityReady(p)
    <2>1. Allowed(p, "port") /\ Allowed(p, "fail")
      BY <1>8, Zenon DEF VisibilityReady, Allowed, Labels, Exclusive
    <2> QED BY <1>8, <1>0, <2>1, ExecsTyped, Zenon DEF VisibilityReady
  <1>9. CASE VisibilityInspect(p)
    <2>1. Allowed(p, "setPort") /\ Allowed(p, "done")
      BY <1>9, Zenon DEF VisibilityInspect, Allowed, Labels, Exclusive
    <2> QED BY <1>9, <1>0, <2>1, ExecsTyped, Zenon DEF VisibilityInspect
  <1>10. CASE VisibilityPort(p)
    <2>1. Allowed(p, "done")
      BY <1>10, Zenon DEF VisibilityPort, Allowed, Labels, Exclusive
    <2> QED BY <1>10, <1>0, <2>1, RowTypes, WritesTyped, Zenon
            DEF VisibilityPort, Statuses
  <1>11. CASE VisibilityEnd(p)
    <2>1. Allowed(p, "unlock")
      BY <1>11, Zenon DEF VisibilityEnd, Allowed, Labels, Exclusive
    <2>2. PICK s \in Statuses : TryWrite(SetStatus(s))
      BY <1>11, Zenon DEF VisibilityEnd, Statuses
    <2>3. row' \in Rows
      BY <1>0, <2>2, RowTypes, Zenon DEF TryWrite, Written
    <2> QED BY <1>11, <2>1, <2>3, RowStepTyped, Zenon DEF VisibilityEnd
  <1>12. CASE RecoverSetPublic(p)
    <2>1. Allowed(p, "recreate")
      BY <1>12, Zenon DEF RecoverSetPublic, Allowed, Labels, Exclusive
    <2> QED BY <1>12, <1>0, <2>1, RowTypes, WritesTyped, Zenon
            DEF RecoverSetPublic, Statuses
  <1>13. CASE RecoverCreate(p)
    <2>1. Allowed(p, "rerecord") /\ Allowed(p, "giveUp")
      BY <1>13, Zenon DEF RecoverCreate, Allowed, Labels, Exclusive
    <2> QED BY <1>13, <1>0, <2>1, CreatesTyped, ZenonT(40) DEF RecoverCreate, Labels
  <1>14. CASE RecoverRecord(p)
    <2>1. Allowed(p, "restart")
      BY <1>14, Zenon DEF RecoverRecord, Allowed, Labels, Exclusive
    <2> QED BY <1>14, <1>0, <2>1, RowTypes, WritesTyped, Zenon
            DEF RecoverRecord, Statuses
  <1>15. CASE RecoverStart(p)
    <2>1. Allowed(p, "port") /\ Allowed(p, "giveUp")
      BY <1>15, Zenon DEF RecoverStart, Allowed, Labels, Exclusive
    <2> QED BY <1>15, <1>0, <2>1, StartsTyped, Zenon DEF RecoverStart
  <1> QED
      BY <1>1, <1>2, <1>3, <1>4, <1>5, <1>6, <1>7, <1>8, <1>9, <1>10,
         <1>11, <1>12, <1>13, <1>14, <1>15, Zenon DEF Visibility

\* Lock and Unlock hand the mutex over.
LEMMA LockTyped ==
    ASSUME Typed, NEW p \in Procs, Lock(p)
    PROVE  Typed'
  <1>1. Moved(p, "get") /\ mutex = 0 /\ mutex' = p /\ job[p].pc = "lock"
    BY GotoMoves, Zenon DEF Lock, Typed, Labels
  <1>2. Shape'
    BY <1>1, Zenon DEF Lock, Typed, Shape, dockerVars, historyVars
  <1>3. job[p].op \in Exclusive
    BY <1>1, Zenon DEF Typed, Locks
  <1>4. Holds(p)' /\ job'[p].pc = "get"
    BY <1>1, <1>3, Zenon DEF Moved, Went, Holds
  <1>5. \A q \in Procs \ {p} : ~Holds(q) /\ job'[q] = job[q]
    BY <1>1, InstanceOpsAssumption, Zenon DEF Typed, Locks, Moved, Went, Others
  <1>6. Locks'
    BY <1>1, <1>4, <1>5, Zenon DEF Typed, Locks, Holds
  <1> QED BY <1>1, <1>2, <1>6, Zenon DEF Typed, Moved

LEMMA UnlockTyped ==
    ASSUME Typed, NEW p \in Procs, Unlock(p)
    PROVE  Typed'
  <1>1. Moved(p, "return") /\ mutex' = 0 /\ job[p].pc = "unlock"
    BY GotoMoves, Zenon DEF Unlock, Typed, Labels
  <1>2. Shape'
    BY <1>1, Zenon DEF Unlock, Typed, Shape, dockerVars, historyVars
  <1>3. mutex = p
    BY <1>1, Zenon DEF Typed, Locks, Holds
  <1>4. job'[p] = NoJob
    BY <1>1, Zenon DEF Moved, Went
  <1>5. \A q \in Procs \ {p} : ~Holds(q) /\ job'[q] = job[q]
    BY <1>1, <1>3, Zenon DEF Typed, Locks, Moved, Went, Others
  <1>6. \A q \in Procs : ~Holds(q)'
    BY <1>4, <1>5 DEF Holds, NoJob, Exclusive
  <1>7. Locks'
    BY <1>1, <1>4, <1>5, <1>6, InstanceOpsAssumption DEF Typed, Locks, NoJob
  <1> QED BY <1>1, <1>2, <1>7, Zenon DEF Typed, Moved

\* A request starts a handler at its Lock or at its Get.
Began(p, op) ==
    /\ job' \in [Procs -> Jobs] /\ Others(p)
    /\ job'[p].op = op
    /\ job'[p].pc = IF op \in Exclusive THEN "lock" ELSE "get"

LEMMA RequestTyped ==
    ASSUME Typed, NEW p \in Procs, NEW op \in Ops, Request(p, op)
    PROVE  Typed' /\ job[p] = NoJob /\ Began(p, op)
  <1>1. PICK b \in BOOLEAN :
            job' = [job EXCEPT ![p].op = op, ![p].want = b,
                        ![p].pc = IF op \in {"restore", "visibility"}
                                  THEN "lock" ELSE "get"]
    BY Zenon DEF Request
  <1> DEFINE l == IF op \in {"restore", "visibility"} THEN "lock" ELSE "get"
  <1>2. op \in Handlers \ {"none"} /\ l \in Labels
    BY InstanceOpsAssumption, Zenon DEF Handlers, Labels
  <1>3. job \in [Procs -> Jobs] /\ job[p] \in Jobs /\ job[p] = NoJob
    BY Zenon DEF Typed, Request
  <1>4. job'[p] = [[[job[p] EXCEPT !.op = op] EXCEPT !.want = b]
                   EXCEPT !.pc = l]
    BY <1>1, <1>3, Zenon
  <1> HIDE DEF l
  <1>5. job'[p].op = op /\ job'[p].pc = l
    BY <1>3, <1>4, Zenon DEF Jobs
  <1>6. job' = [job EXCEPT ![p].op = op, ![p].want = b, ![p].pc = l]
    BY <1>1, Zenon DEF l
  <1>7. job' \in [Procs -> Jobs]
    BY <1>2, <1>3, <1>6, Zenon DEF Jobs
  <1>8. Others(p)
    BY <1>3, <1>6, Zenon DEF Others
  <1>9. ~Holds(p) /\ ~Holds(p)'
    BY <1>3, <1>5 DEF Holds, NoJob, Exclusive, l
  <1>10. job'[p].pc \in {"lock", "unlock"} => job'[p].op \in Exclusive
    BY <1>5, Zenon DEF Exclusive, l
  <1>11. Shape' /\ mutex' = mutex
    BY InstanceOpsAssumption
    DEF Request, Typed, Shape, dockerVars
  <1>12. Locks'
    BY <1>8, <1>9, <1>10, <1>11, Zenon DEF Typed, Locks, Holds, Others
  <1>13. Began(p, op)
    BY <1>5, <1>7, <1>8, Zenon DEF Began, Exclusive, l
  <1> QED BY <1>3, <1>7, <1>11, <1>12, <1>13, Zenon DEF Typed

\* The reconciler writes a status or a container id that it has listed.
LEMMA ReconcileTyped ==
    ASSUME Typed, Reconcile
    PROVE  /\ Typed' /\ UNCHANGED passFrame
           /\ \/ row' = row
              \/ row # NoRow /\ \E s \in Statuses : row' = SetStatus(s)
              \/ row # NoRow /\ row' = SetRuntime(rec.info)
  <1>1. UNCHANGED passFrame
    BY Zenon DEF Reconcile, ReconcileList, ReconcileScan, ReconcileMissing,
           ReconcileInspect, ReconcileAdopt, ReconcileStatus
  <1>2. /\ rec \in Passes /\ row \in Rows /\ rec.info \in Ids
        /\ NoPass \in Passes
    BY Blank, Zenon DEF Typed, Shape, Passes
  <1>3. {"scan", "one", "adopt", "status"} \subseteq Stages
    BY Zenon DEF Stages
  <1>4. rec' \in Passes
    <2>1. CASE ReconcileList
      BY <2>1, <1>2, <1>3, Zenon DEF ReconcileList, Passes
    <2>2. CASE ReconcileScan
      <3>1. \A c \in Existing : c \in Ids
        BY Zenon DEF Existing, Ids
      <3>2. \A c \in Existing : [rec EXCEPT !.pc = "one", !.info = c] \in Passes
        BY <1>2, <1>3, <3>1, Zenon DEF Passes
      <3>3. [rec EXCEPT !.pc = "one"] \in Passes
        BY <1>2, <1>3, Zenon DEF Passes
      <3> QED BY <2>2, <3>2, <3>3, <1>2, Zenon DEF ReconcileScan, EndPass
    <2>3. CASE ReconcileMissing \/ ReconcileStatus
      BY <2>3, <1>2, Zenon DEF ReconcileMissing, ReconcileStatus, EndPass
    <2>4. CASE ReconcileInspect
      <3>1. Running(rec.info) \in BOOLEAN
        BY Zenon DEF Running
      <3>2. [rec EXCEPT !.pc = "adopt", !.running = Running(rec.info)] \in Passes
        BY <1>2, <1>3, <3>1, Zenon DEF Passes
      <3> QED BY <2>4, <3>2, <1>2, Zenon DEF ReconcileInspect, EndPass
    <2>5. CASE ReconcileAdopt
      <3>1. [rec EXCEPT !.pc = "status"] \in Passes
        BY <1>2, <1>3, Zenon DEF Passes
      <3> QED BY <2>5, <3>1, Zenon DEF ReconcileAdopt
    <2> QED BY <2>1, <2>2, <2>3, <2>4, <2>5, Zenon DEF Reconcile
  <1>5. \/ row' = row
        \/ row # NoRow /\ \E s \in Statuses : row' = SetStatus(s)
        \/ row # NoRow /\ row' = SetRuntime(rec.info)
    <2>1. CASE ReconcileList \/ ReconcileScan \/ ReconcileInspect
      BY <2>1, Zenon DEF ReconcileList, ReconcileScan, ReconcileInspect
    <2>2. CASE ReconcileMissing
      BY <2>2, Zenon DEF ReconcileMissing, TryWrite, Written, Statuses
    <2>3. CASE ReconcileAdopt
      BY <2>3, Zenon DEF ReconcileAdopt, TryWrite, Written
    <2>4. CASE ReconcileStatus
      BY <2>4, Zenon DEF ReconcileStatus, TryWrite, Written, Statuses
    <2> QED BY <2>1, <2>2, <2>3, <2>4, Zenon DEF Reconcile
  <1>6. row' \in Rows
    BY <1>2, <1>5, RowTypes, Zenon
  <1>7. Shape' /\ job' = job /\ mutex' = mutex
    BY <1>1, <1>4, <1>6, Zenon
    DEF Typed, Shape, passFrame, dockerVars, historyVars
  <1>8. Typed'
    BY <1>7, Zenon DEF Typed, Locks, Holds
  <1> QED BY <1>1, <1>5, <1>8, Zenon

\* A crash of the control plane, a container that dies or comes back.
LEMMA CrashTyped ==
    ASSUME Typed, Crash
    PROVE  Typed'
  <1>1. job' = [p \in Procs |-> NoJob] /\ mutex' = 0 /\ rec' = NoPass
    BY Zenon DEF Crash, EndPass
  <1>2. job' \in [Procs -> Jobs] /\ \A p \in Procs : job'[p] = NoJob
    BY <1>1, Blank, Zenon
  <1>3. Locks'
    BY <1>1, <1>2, InstanceOpsAssumption, Zenon
    DEF Locks, Holds, NoJob, Exclusive
  <1>4. Shape'
    BY <1>1, Blank, Zenon DEF Crash, Typed, Shape, dockerVars, historyVars
  <1> QED BY <1>2, <1>3, <1>4, Zenon DEF Typed

LEMMA OutageTyped ==
    ASSUME Typed, NEW c \in Containers, ContainerExits(c) \/ DockerRestarts(c)
    PROVE  /\ Typed' /\ UNCHANGED <<row, vol, mutex, job, rec, calls, historyVars>>
           /\ \/ ctr[c].st = "running" /\ Restated(c, "exited")
              \/ ctr[c].st = "exited" /\ Restated(c, "running")
  <1>1. UNCHANGED <<row, vol, mutex, job, rec, calls, historyVars>>
    BY Zenon DEF ContainerExits, DockerRestarts
  <1>2. \/ ctr[c].st = "running" /\ Restated(c, "exited")
        \/ ctr[c].st = "exited" /\ Restated(c, "running")
    BY ContainerUpdates, Zenon
    DEF ContainerExits, DockerRestarts, Running, Typed, Shape
  <1>3. outages' \in 0..MaxOutages
    BY InstanceOpsAssumption DEF ContainerExits, DockerRestarts, Typed, Shape
  <1>4. Shape'
    BY <1>1, <1>2, <1>3, Zenon DEF Typed, Shape, Restated, historyVars
  <1>5. job' \in [Procs -> Jobs] /\ Locks'
    BY <1>1, Zenon DEF Typed, Locks, Holds
  <1> QED BY <1>1, <1>2, <1>4, <1>5, Zenon DEF Typed

\* The first state.
LEMMA InitTyped ==
    ASSUME Init
    PROVE  Typed
  <1>1. row \in Rows
    BY Blank, Zenon DEF Init, Rows, Statuses
  <1>2. ctr \in [Containers -> Servers]
    BY Blank, Zenon DEF Init, Servers, ContainerStates
  <1>3. Shape
    <2>1. vol \in [Volumes -> {"none", "blank", "data", "gone"}]
      BY Zenon DEF Init
    <2>2. mutex \in Procs \cup {0} /\ rec \in Passes
      BY Blank, Zenon DEF Init
    <2>3. calls \in 0..MaxCalls /\ outages \in 0..MaxOutages
      BY InstanceOpsAssumption DEF Init
    <2>4. provisioned \in BOOLEAN /\ doomed \in BOOLEAN
      BY Zenon DEF Init
    <2> QED BY <1>1, <1>2, <2>1, <2>2, <2>3, <2>4, Zenon DEF Shape
  <1>4. PICK p \in Procs :
            job = [q \in Procs |-> IF q = p
                                   THEN [NoJob EXCEPT !.op = "provision",
                                                      !.pc = "get"]
                                   ELSE NoJob]
    BY Zenon DEF Init
  <1> DEFINE j == [NoJob EXCEPT !.op = "provision", !.pc = "get"]
  <1>5. j \in Jobs
    <2>1. "provision" \in Handlers /\ "get" \in Labels
      BY Zenon DEF Handlers, Labels
    <2> QED BY <2>1, Blank, Zenon DEF Jobs
  <1>6. j.op = "provision" /\ j.pc = "get"
    BY Blank, Zenon DEF Jobs
  <1> HIDE DEF j
  <1>7. /\ job \in [Procs -> Jobs]
        /\ \A q \in Procs : /\ job[q].op \in {"none", "provision"}
                            /\ job[q].pc \in {"idle", "get"}
    <2>1. job = [q \in Procs |-> IF q = p THEN j ELSE NoJob]
      BY <1>4, Zenon DEF j
    <2>2. NoJob.op = "none" /\ NoJob.pc = "idle"
      BY Zenon DEF NoJob
    <2> QED BY <2>1, <2>2, <1>5, <1>6, Blank, Zenon
  <1>8. Locks
    BY <1>7, InstanceOpsAssumption, Zenon DEF Init, Locks, Holds, Exclusive
  <1> QED BY <1>3, <1>7, <1>8, Zenon DEF Typed

\* Types and mutex hold from step to step.
LEMMA NextTyped ==
    ASSUME Typed, [Next]_vars
    PROVE  Typed'
  <1>1. ASSUME NEW p \in Procs, Handler(p)
        PROVE  Typed'
    BY <1>1, LockTyped, UnlockTyped, ProvisionTyped, LifecycleTyped,
       DestroyTyped, RestoreTyped, VisibilityTyped, Zenon DEF Handler
  <1>2. CASE UNCHANGED vars
    BY <1>2, Zenon DEF vars, Typed, Shape, Locks, Holds, dockerVars, historyVars
  <1> QED BY <1>1, <1>2, RequestTyped, ReconcileTyped, CrashTyped, OutageTyped,
             Zenon
          DEF Next

\* The state keeps its shape, and a handler holds the mutex exactly when it is
\* a Restore or a SetVisibility past its Lock, for any number of handlers and
\* requests and whatever fails.
THEOREM TypeCorrect == Spec => []TypeOK
  <1>1. Typed => TypeOK
    BY Zenon
    DEF Typed, Shape, Locks, Holds, Exclusive, TypeOK, Servers, Jobs, Passes,
           Ids
  <1> QED BY <1>1, InitTyped, NextTyped, PTL DEF Spec

-------------------------------------------------------------------------------
(* What each kind of step does, field by field.                             *)

\* A handler that has taken down the row r.
Took(p, r, l) ==
    /\ Others(p)
    /\ job'[p].pc = l /\ job'[p].op = job[p].op
    /\ job'[p].inst = r /\ job'[p].new = job[p].new
    /\ job'[p].vol = job[p].vol /\ job'[p].want = job[p].want

\* A new container c, made by p on the volume v.
Made(p, c, v, fixed, l) ==
    /\ ctr[c].st = "none"
    /\ \A d \in Containers \ {c} : ctr'[d] = ctr[d]
    /\ ctr'[c].st = "created" /\ ctr'[c].vol = v /\ ctr'[c].fixed = fixed
    /\ Others(p)
    /\ job'[p].pc = l /\ job'[p].op = job[p].op
    /\ job'[p].inst = job[p].inst /\ job'[p].new = c
    /\ job'[p].vol = job[p].vol /\ job'[p].want = job[p].want

\* A volume that exists, and every other, is left as it is.
Mounted(v) ==
    /\ \A w \in Volumes \ {v} : vol'[w] = vol[w]
    /\ vol'[v] = IF vol[v] \in {"none", "gone"} THEN "blank" ELSE vol[v]
Dropped(v) ==
    vol'[v] = "gone" /\ \A w \in Volumes \ {v} : vol'[w] = vol[w]

\* Steps on the row, and steps in Docker.
OnRow == /\ ctr' = ctr /\ vol' = vol /\ rec' = rec
         /\ provisioned' = provisioned /\ doomed' = doomed
InDocker == /\ row' = row /\ rec' = rec
            /\ provisioned' = provisioned /\ doomed' = doomed

LEMMA Frames ==
    /\ UNCHANGED rowFrame => OnRow
    /\ UNCHANGED dockerFrame => InDocker
  BY Zenon DEF rowFrame, dockerFrame, dockerVars, historyVars, OnRow, InDocker

LEMMA WritesDoes ==
    ASSUME Typed, NEW p \in Procs, NEW l, NEW new, Writes(p, new, l)
    PROVE  /\ OnRow /\ Went(p, l)
           /\ (row # NoRow /\ row' = new) \/ (Missing /\ row' = row)
  BY GotoDoes, Frames, Zenon DEF Writes, TryWrite, Written, Typed

LEMMA TakesDoes ==
    ASSUME Typed, NEW p \in Procs, NEW l, NEW r,
           job' = [job EXCEPT ![p].inst = r, ![p].pc = l]
    PROVE  Took(p, r, l)
  <1>1. job \in [Procs -> Jobs] /\ job[p] \in Jobs
    BY Zenon DEF Typed
  <1>2. job'[p] = [[job[p] EXCEPT !.inst = r] EXCEPT !.pc = l]
    BY <1>1, Zenon
  <1>3. /\ job'[p].pc = l /\ job'[p].op = job[p].op
        /\ job'[p].inst = r /\ job'[p].new = job[p].new
        /\ job'[p].vol = job[p].vol /\ job'[p].want = job[p].want
    BY <1>1, <1>2, Zenon DEF Jobs
  <1>4. Others(p)
    BY <1>1, Zenon DEF Others
  <1> QED BY <1>3, <1>4, Zenon DEF Took

LEMMA GetsDoes ==
    ASSUME Typed, NEW p \in Procs, NEW ok, NEW bad, Gets(p, ok, bad)
    PROVE  /\ OnRow /\ row' = row
           /\ (row # NoRow /\ Took(p, row, ok)) \/ (Missing /\ Went(p, bad))
  <1>1. OnRow /\ row' = row
    BY Frames, Zenon DEF Gets
  <1>2. CASE row # NoRow /\ job' = [job EXCEPT ![p].inst = row, ![p].pc = ok]
    BY <1>1, <1>2, TakesDoes, Zenon
  <1>3. CASE Missing /\ Goto(p, bad)
    BY <1>1, <1>3, GotoDoes, Zenon DEF Typed
  <1> QED BY <1>2, <1>3, Zenon DEF Gets

LEMMA CreatesDoes ==
    ASSUME Typed, NEW p \in Procs, NEW v \in Volumes, NEW fixed, NEW public,
           NEW ok, NEW bad, Creates(p, v, fixed, public, ok, bad)
    PROVE  /\ InDocker
           /\ \/ /\ fixed => NameFree
                 /\ \E c \in Containers : Made(p, c, v, fixed, ok)
                 /\ Mounted(v)
              \/ /\ Refused(fixed => NameFree)
                 /\ ctr' = ctr /\ vol' = vol /\ Went(p, bad)
  <1>1. InDocker
    BY Frames, Zenon DEF Creates
  <1>2. CASE /\ fixed => NameFree
             /\ \E c \in Containers :
                   /\ CreateContainer(c, v, fixed, public)
                   /\ job' = [job EXCEPT ![p].new = c, ![p].pc = ok]
    <2>1. PICK c \in Containers :
              /\ CreateContainer(c, v, fixed, public)
              /\ job' = [job EXCEPT ![p].new = c, ![p].pc = ok]
      BY <1>2, Zenon
    <2>2. job \in [Procs -> Jobs] /\ job[p] \in Jobs
      BY Zenon DEF Typed
    <2>3. job'[p] = [[job[p] EXCEPT !.new = c] EXCEPT !.pc = ok]
      BY <2>1, <2>2, Zenon
    <2>4. /\ job'[p].pc = ok /\ job'[p].op = job[p].op
          /\ job'[p].inst = job[p].inst /\ job'[p].new = c
          /\ job'[p].vol = job[p].vol /\ job'[p].want = job[p].want
      BY <2>2, <2>3, Zenon DEF Jobs
    <2>5. Others(p)
      BY <2>1, <2>2, Zenon DEF Others
    <2>6. /\ ctr[c].st = "none" /\ CreateVolume(v)
          /\ \A d \in Containers \ {c} : ctr'[d] = ctr[d]
          /\ ctr'[c].st = "created" /\ ctr'[c].vol = v /\ ctr'[c].fixed = fixed
      BY <2>1, Zenon DEF CreateContainer, NextContainer, Typed, Shape
    <2>7. Mounted(v)
      BY <2>6, VolumeUpdates, Zenon DEF Mounted, Typed, Shape
    <2>8. Made(p, c, v, fixed, ok)
      BY <2>4, <2>5, <2>6, Zenon DEF Made
    <2> QED BY <1>1, <1>2, <2>7, <2>8, Zenon
  <1>3. CASE Refused(fixed => NameFree) /\ UNCHANGED dockerVars /\ Goto(p, bad)
    BY <1>1, <1>3, GotoDoes, Zenon DEF Typed, dockerVars
  <1> QED BY <1>2, <1>3, Zenon DEF Creates

LEMMA StartsDoes ==
    ASSUME Typed, NEW p \in Procs, NEW c \in Ids, NEW ok, NEW bad,
           Starts(p, c, ok, bad)
    PROVE  /\ InDocker /\ vol' = vol
           /\ \/ Exists(c) /\ Restated(c, "running") /\ Went(p, ok)
              \/ Refused(Exists(c)) /\ ctr' = ctr /\ Went(p, bad)
  <1>1. InDocker /\ vol' = vol
    BY Frames, Zenon DEF Starts
  <1>2. CASE Exists(c) /\ StartContainer(c) /\ Goto(p, ok)
    BY <1>1, <1>2, ContainerUpdates, GotoDoes, Zenon
    DEF Exists, Ids, Typed, Shape
  <1>3. CASE Refused(Exists(c)) /\ UNCHANGED ctr /\ Goto(p, bad)
    BY <1>1, <1>3, GotoDoes, Zenon DEF Typed
  <1> QED BY <1>2, <1>3, Zenon DEF Starts

LEMMA StopsDoes ==
    ASSUME Typed, NEW p \in Procs, NEW c \in Ids, NEW ok, NEW bad,
           Stops(p, c, ok, bad)
    PROVE  /\ InDocker /\ vol' = vol
           /\ \/ /\ Exists(c) /\ Went(p, ok)
                 /\ \E s \in {"created", "stopped"} : Restated(c, s)
              \/ Refused(Exists(c)) /\ ctr' = ctr /\ Went(p, bad)
  <1>1. InDocker /\ vol' = vol
    BY Frames, Zenon DEF Stops
  <1>2. CASE Exists(c) /\ StopContainer(c) /\ Goto(p, ok)
    <2>1. Restated(c, IF ctr[c].st = "created" THEN "created" ELSE "stopped")
      BY <1>2, ContainerUpdates, Zenon DEF Exists, Ids, Typed, Shape
    <2>2. \E s \in {"created", "stopped"} : Restated(c, s)
      BY <2>1, Zenon
    <2> QED BY <1>1, <1>2, <2>2, GotoDoes, Zenon DEF Typed
  <1>3. CASE Refused(Exists(c)) /\ UNCHANGED ctr /\ Goto(p, bad)
    BY <1>1, <1>3, GotoDoes, Zenon DEF Typed
  <1> QED BY <1>2, <1>3, Zenon DEF Stops

LEMMA RemovesDoes ==
    ASSUME Typed, NEW p \in Procs, NEW c \in Ids, NEW l, Removes(p, c, l)
    PROVE  /\ InDocker /\ vol' = vol /\ Went(p, l)
           /\ \/ Exists(c) /\ Restated(c, "gone")
              \/ Refused(Exists(c)) /\ ctr' = ctr
  <1>1. InDocker /\ vol' = vol /\ Went(p, l)
    BY Frames, GotoDoes, Zenon DEF Removes, Typed
  <1>2. CASE Exists(c) /\ RemoveContainer(c)
    BY <1>1, <1>2, ContainerUpdates, Zenon DEF Exists, Ids, Typed, Shape
  <1> QED BY <1>1, <1>2, Zenon DEF Removes

LEMMA RemovesVolumeDoes ==
    ASSUME Typed, NEW p \in Procs, NEW v \in Volumes, NEW ok, NEW bad,
           RemovesVolume(p, v, ok, bad)
    PROVE  /\ InDocker /\ ctr' = ctr
           /\ \/ ~InUse(v) /\ Dropped(v) /\ Went(p, ok)
              \/ Refused(~InUse(v)) /\ vol' = vol /\ Went(p, bad)
  <1>1. InDocker /\ ctr' = ctr
    BY Frames, Zenon DEF RemovesVolume
  <1>2. CASE ~InUse(v) /\ RemoveVolume(v) /\ Goto(p, ok)
    BY <1>1, <1>2, VolumeUpdates, GotoDoes, Zenon DEF Typed, Shape, Dropped
  <1>3. CASE Refused(~InUse(v)) /\ UNCHANGED vol /\ Goto(p, bad)
    BY <1>1, <1>3, GotoDoes, Zenon DEF Typed
  <1> QED BY <1>2, <1>3, Zenon DEF RemovesVolume

LEMMA ExecsDoes ==
    ASSUME Typed, NEW p \in Procs, NEW c, NEW ok, NEW bad,
           Execs(p, c, ok, bad)
    PROVE  /\ InDocker /\ ctr' = ctr /\ vol' = vol
           /\ (Running(c) /\ Went(p, ok)) \/ (Refused(Running(c)) /\ Went(p, bad))
  BY Frames, GotoDoes, Zenon DEF Execs, dockerVars, Typed

\* Restart goes on with Start.
LEMMA RestartDoes ==
    ASSUME Typed, NEW p \in Procs,
           job' = [job EXCEPT ![p].op = "start", ![p].pc = "get"]
    PROVE  Others(p) /\ job'[p].op = "start" /\ job'[p].pc = "get"
  <1>1. job \in [Procs -> Jobs] /\ job[p] \in Jobs
    BY Zenon DEF Typed
  <1>2. job'[p] = [[job[p] EXCEPT !.op = "start"] EXCEPT !.pc = "get"]
    BY <1>1, Zenon
  <1>3. job'[p].op = "start" /\ job'[p].pc = "get"
    BY <1>1, <1>2, Zenon DEF Jobs
  <1> QED BY <1>1, <1>3, Zenon DEF Others

\* Restore has made its staging volume v.
Staging(p, v) ==
    /\ Others(p)
    /\ job'[p].pc = "stop" /\ job'[p].op = job[p].op
    /\ job'[p].inst = job[p].inst /\ job'[p].vol = v

LEMMA StagesDoes ==
    ASSUME Typed, NEW p \in Procs, NEW v,
           job' = [job EXCEPT ![p].vol = v, ![p].pc = "stop"]
    PROVE  Staging(p, v)
  <1>1. job \in [Procs -> Jobs] /\ job[p] \in Jobs
    BY Zenon DEF Typed
  <1>2. job'[p] = [[job[p] EXCEPT !.vol = v] EXCEPT !.pc = "stop"]
    BY <1>1, Zenon
  <1>3. /\ job'[p].pc = "stop" /\ job'[p].op = job[p].op
        /\ job'[p].inst = job[p].inst /\ job'[p].vol = v
    BY <1>1, <1>2, Zenon DEF Jobs
  <1> QED BY <1>1, <1>3, Zenon DEF Others, Staging

\* The handler that starts: Provision, at its Get.
LEMMA InitJob ==
    ASSUME Init
    PROVE  \E p \in Procs : /\ job[p].op = "provision" /\ job[p].pc = "get"
                            /\ \A q \in Procs \ {p} : job[q].op = "none"
  <1>1. PICK p \in Procs :
            job = [q \in Procs |-> IF q = p
                                   THEN [NoJob EXCEPT !.op = "provision",
                                                      !.pc = "get"]
                                   ELSE NoJob]
    BY Zenon DEF Init
  <1> DEFINE j == [NoJob EXCEPT !.op = "provision", !.pc = "get"]
  <1>2. j = [[NoJob EXCEPT !.op = "provision"] EXCEPT !.pc = "get"]
    OBVIOUS
  <1>3. j.op = "provision" /\ j.pc = "get" /\ NoJob.op = "none"
    BY <1>2, Blank, Zenon DEF Jobs, NoJob
  <1> HIDE DEF j
  <1>4. job = [q \in Procs |-> IF q = p THEN j ELSE NoJob]
    BY <1>1, Zenon DEF j
  <1> QED BY <1>3, <1>4, Zenon

\* The labels of a restore: with the staging volume filled, with a staging
\* volume, and with the row as Get read it.
Filled == {"create", "start", "ready", "commit", "setRuntime", "setVolume"}
Staged == Filled \cup {"stop", "fill", "undo", "undoVolume"}
Untouched == Staged \cup {"mark", "volume"}

-------------------------------------------------------------------------------
(* The data.  A restore works on a volume of its own until it has filled it *)
(* and written it to the row, and only then removes the one it replaced.    *)

RestoreKeeps(p) ==
    job[p].op = "restore" =>
        /\ job[p].pc \in Untouched => job[p].inst.vol = row.vol
        /\ job[p].pc \in Staged => job[p].vol # row.vol
        /\ job[p].pc \in Filled => provisioned /\ vol[job[p].vol] = "data"
        /\ job[p].pc \in {"dropOld", "dropVolume"} =>
               job[p].inst.vol # row.vol

DataInv ==
    /\ \A p \in Procs : job[p].op = "destroy" => doomed
    /\ \A p, q \in Procs : job[p].op = "provision" /\ job[q].op = "provision"
                              => p = q
    /\ \A p \in Procs : job[p].op = "provision" /\ job[p].pc # "done"
                           => ~provisioned
    /\ ~doomed =>
          /\ row.status # "none"
          /\ provisioned => vol[row.vol] = "data"
          /\ ~provisioned => row.vol = DefaultVolume
          /\ \A p \in Procs : RestoreKeeps(p)

\* Steps that move no data: the row keeps its volume, the volumes their data.
Quietly ==
    /\ row'.vol = row.vol /\ (row.status # "none" => row'.status # "none")
    /\ \A v \in Volumes : vol[v] = "data" => vol'[v] = "data"
    /\ provisioned' = provisioned /\ doomed' = doomed

LEMMA QuietKinds ==
    ASSUME Typed
    PROVE  /\ OnRow /\ row' = row => Quietly
           /\ OnRow /\ (\E s \in Statuses : row' = SetStatus(s)) => Quietly
           /\ OnRow /\ (\E c \in Ids : row' = SetRuntime(c)) => Quietly
           /\ OnRow /\ (\E b \in BOOLEAN : row' = SetPublic(b)) => Quietly
           /\ InDocker /\ vol' = vol => Quietly
           /\ InDocker /\ (\E v \in Volumes : Mounted(v)) => Quietly
  <1>1. row \in Rows
    BY Zenon DEF Typed, Shape
  <1>2. OnRow /\ row' = row => Quietly
    BY Zenon DEF OnRow, Quietly
  <1>3. OnRow /\ (\E s \in Statuses : row' = SetStatus(s)) => Quietly
    BY <1>1, RowUpdates DEF OnRow, Quietly, Statuses
  <1>4. OnRow /\ (\E c \in Ids : row' = SetRuntime(c)) => Quietly
    BY <1>1, RowUpdates DEF OnRow, Quietly
  <1>5. OnRow /\ (\E b \in BOOLEAN : row' = SetPublic(b)) => Quietly
    BY <1>1, RowUpdates DEF OnRow, Quietly
  <1>6. InDocker /\ vol' = vol => Quietly
    BY Zenon DEF InDocker, Quietly
  <1>7. InDocker /\ (\E v \in Volumes : Mounted(v)) => Quietly
    BY Zenon DEF InDocker, Quietly, Mounted
  <1> QED BY <1>2, <1>3, <1>4, <1>5, <1>6, <1>7, Zenon

\* A quiet step keeps the invariant when it keeps what is said of its handler.
LEMMA QuietData ==
    ASSUME Typed, DataInv, NEW p \in Procs, Quietly, Others(p),
           job'[p].op = "destroy" => doomed,
           job'[p].op = "provision" =>
               /\ job[p].op = "provision"
               /\ job[p].pc = "done" => job'[p].pc = "done",
           ~doomed => RestoreKeeps(p)'
    PROVE  DataInv'
  <1>1. /\ \A q \in Procs : job'[q].op = "destroy" => doomed'
        /\ \A q, r \in Procs : job'[q].op = "provision"
                                /\ job'[r].op = "provision" => q = r
        /\ \A q \in Procs : job'[q].op = "provision" /\ job'[q].pc # "done"
                               => ~provisioned'
    BY DEF DataInv, Others, Quietly
  <1>2. ASSUME ~doomed'
        PROVE  /\ row'.status # "none"
               /\ provisioned' => vol'[row'.vol] = "data"
               /\ ~provisioned' => row'.vol = DefaultVolume
               /\ \A q \in Procs : RestoreKeeps(q)'
    <2>1. ~doomed /\ row.vol \in Volumes
      BY <1>2, Zenon DEF Quietly, Typed, Shape, Rows
    <2>2. /\ row'.status # "none"
          /\ provisioned' => vol'[row'.vol] = "data"
          /\ ~provisioned' => row'.vol = DefaultVolume
      BY <2>1, Zenon DEF Quietly, DataInv
    <2>3. ASSUME NEW q \in Procs \ {p}
          PROVE  RestoreKeeps(q)'
      <3>1. RestoreKeeps(q) /\ job'[q] = job[q] /\ job[q].vol \in Volumes
        BY <2>1, Zenon DEF DataInv, Others, Typed, Jobs
      <3> QED BY <3>1, Zenon DEF RestoreKeeps, Quietly
    <2> QED BY <2>1, <2>2, <2>3, Zenon
  <1> QED BY <1>1, <1>2, Zenon DEF DataInv

\* So does any step once the instance is being destroyed.
LEMMA DoomedData ==
    ASSUME DataInv, NEW p \in Procs, Others(p), doomed',
           provisioned' = provisioned,
           job'[p].op = "provision" =>
               /\ job[p].op = "provision"
               /\ job[p].pc = "done" => job'[p].pc = "done"
    PROVE  DataInv'
  BY DEF DataInv, Others

LEMMA ProvisionData ==
    ASSUME Typed, DataInv, NEW p \in Procs, Provision(p)
    PROVE  DataInv'
  <1>0. /\ job[p].op = "provision" /\ row \in Rows /\ job[p].new \in Ids
        /\ DefaultVolume \in Volumes
    BY Blank, Zenon
    DEF Provision, At, ProvisionGet, ProvisionVolume, ProvisionCreate,
           ProvisionRecord, ProvisionStart, ProvisionInspect, ProvisionPort,
           ProvisionReady, ProvisionDone, ProvisionUndo, ProvisionUndoVolume,
           ProvisionFail, Typed, Shape, Jobs
  <1>1. ASSUME Quietly, NEW l, Went(p, l), job[p].pc # "done" \/ l = "return"
        PROVE  DataInv'
    <2>1. job'[p] = NoJob \/ (job'[p].op = job[p].op /\ job[p].pc # "done")
      BY <1>1, Zenon DEF Went
    <2>2. RestoreKeeps(p)'
      BY <1>0, <2>1 DEF RestoreKeeps, NoJob
    <2> QED BY <1>0, <1>1, <2>1, <2>2, QuietData DEF Went, NoJob
  <1>2. CASE ProvisionGet(p)
    <2>1. OnRow /\ row' = row
      BY <1>2, Frames, Zenon DEF ProvisionGet
    <2>2. CASE Goto(p, "fail")
      BY <1>1, <1>2, <2>1, <2>2, QuietKinds, GotoDoes, Zenon
      DEF ProvisionGet, At, Typed
    <2>3. CASE job' = [job EXCEPT ![p].inst = row, ![p].pc = "volume"]
      <3>1. Took(p, row, "volume")
        BY <2>3, TakesDoes, Zenon
      <3>2. RestoreKeeps(p)'
        BY <1>0, <3>1, Zenon DEF RestoreKeeps, Took
      <3> QED BY <1>0, <1>2, <2>1, <3>1, <3>2, QuietKinds, QuietData, Zenon
              DEF Took, ProvisionGet, At
    <2> QED BY <1>2, <2>2, <2>3, Zenon DEF ProvisionGet
  <1>3. CASE ProvisionVolume(p)
    <2>1. InDocker /\ (vol' = vol \/ Mounted(DefaultVolume))
      BY <1>0, <1>3, Frames, VolumeUpdates, Zenon
      DEF ProvisionVolume, Mounted, Typed, Shape
    <2>2. Quietly
      BY <1>0, <2>1, QuietKinds, Zenon
    <2>3. job[p].pc # "done"
      BY <1>3, Zenon DEF ProvisionVolume, At
    <2>4. Went(p, "create") \/ Went(p, "undo") \/ Went(p, "fail")
      BY <1>3, GotoDoes, Zenon DEF ProvisionVolume, Typed
    <2> QED BY <1>1, <2>2, <2>3, <2>4, Zenon
  <1>4. CASE ProvisionCreate(p)
    <2>1. /\ InDocker /\ job[p].pc # "done"
          /\ \/ \E c \in Containers :
                   Made(p, c, DefaultVolume, TRUE, "record")
                /\ Mounted(DefaultVolume)
             \/ vol' = vol /\ Went(p, "undo")
      BY <1>0, <1>4, CreatesDoes, Zenon DEF ProvisionCreate, At
    <2>2. CASE vol' = vol /\ Went(p, "undo")
      BY <1>1, <2>1, <2>2, QuietKinds, Zenon
    <2>3. CASE \E c \in Containers : Made(p, c, DefaultVolume, TRUE, "record")
                                     /\ Mounted(DefaultVolume)
      <3>1. Quietly /\ Others(p) /\ job'[p].op = job[p].op
        BY <1>0, <2>1, <2>3, QuietKinds, Zenon DEF Made
      <3>2. RestoreKeeps(p)'
        BY <1>0, <3>1, Zenon DEF RestoreKeeps
      <3> QED BY <1>0, <2>1, <3>1, <3>2, QuietData, Zenon
    <2> QED BY <2>1, <2>2, <2>3, Zenon
  <1>5. CASE ProvisionRecord(p)
    <2>1. /\ OnRow /\ Went(p, "start") /\ job[p].pc # "done"
          /\ row' = SetRuntime(job[p].new) \/ row' = row
      BY <1>5, WritesDoes, Zenon DEF ProvisionRecord, At
    <2> QED BY <1>0, <1>1, <2>1, QuietKinds, Zenon
  <1>6. CASE ProvisionStart(p)
    <2>1. /\ InDocker /\ vol' = vol /\ job[p].pc # "done"
          /\ Went(p, "port") \/ Went(p, "undo")
      BY <1>0, <1>6, StartsDoes, Zenon DEF ProvisionStart, At
    <2> QED BY <1>1, <2>1, QuietKinds, Zenon
  <1>7. CASE ProvisionInspect(p)
    <2>1. /\ InDocker /\ vol' = vol /\ job[p].pc # "done"
          /\ Went(p, "setPort") \/ Went(p, "undo")
      BY <1>0, <1>7, ExecsDoes, Zenon DEF ProvisionInspect, At
    <2> QED BY <1>1, <2>1, QuietKinds, Zenon
  <1>8. CASE ProvisionPort(p)
    <2>1. /\ OnRow /\ job[p].pc # "done"
          /\ Went(p, "ready") \/ Went(p, "undo")
          /\ row' = SetRuntime(job[p].new) \/ row' = row
      BY <1>8, Frames, GotoDoes, Zenon DEF ProvisionPort, At, Written, Typed
    <2> QED BY <1>0, <1>1, <2>1, QuietKinds, Zenon
  <1>9. CASE ProvisionReady(p)
    <2>1. CASE UNCHANGED <<vol, provisioned>> /\ Goto(p, "undo")
      <3>1. InDocker /\ vol' = vol /\ job[p].pc # "done" /\ Went(p, "undo")
        BY <1>9, <2>1, GotoDoes, Zenon DEF ProvisionReady, InDocker, At, Typed
      <3> QED BY <1>1, <3>1, QuietKinds, Zenon
    <2>2. CASE /\ vol' = [vol EXCEPT ![DefaultVolume] = "data"]
               /\ provisioned' = TRUE /\ Goto(p, "done")
      <3>1. /\ ~provisioned /\ row' = row /\ doomed' = doomed
            /\ Went(p, "done")
        BY <1>9, <2>2, GotoDoes, Zenon DEF ProvisionReady, DataInv, At, Typed
      <3>2. \A v \in Volumes : vol[v] = "data" => vol'[v] = "data"
        BY <2>2, Zenon DEF Typed, Shape
      <3>3. vol'[DefaultVolume] = "data"
        BY <1>0, <2>2, Zenon DEF Typed, Shape
      <3>4. job'[p].op = "provision" /\ job'[p].pc = "done" /\ Others(p)
        BY <1>0, <3>1, Zenon DEF Went
      <3>5. \A q \in Procs \ {p} : job[q].op # "provision"
        BY <1>0, Zenon DEF DataInv
      <3>6. ASSUME ~doomed, NEW q \in Procs
            PROVE  RestoreKeeps(q)'
        <4>1. CASE q = p
          BY <3>4, <4>1, Zenon DEF RestoreKeeps
        <4>2. CASE q # p
          <5>1. RestoreKeeps(q) /\ job'[q] = job[q]
            BY <3>4, <3>6, <4>2, Zenon DEF DataInv, Others
          <5> QED BY <2>2, <3>1, <5>1, Zenon DEF RestoreKeeps
        <4> QED BY <4>1, <4>2, Zenon
      <3>7. ~doomed => row'.status # "none" /\ row'.vol = DefaultVolume
        BY <3>1, Zenon DEF DataInv
      <3> QED BY <2>2, <3>1, <3>3, <3>4, <3>5, <3>6, <3>7
              DEF DataInv, Others
    <2> QED BY <1>9, <2>1, <2>2, Zenon DEF ProvisionReady
  <1>10. CASE ProvisionDone(p)
    <2>1. /\ OnRow /\ Went(p, "return")
          /\ row' = SetStatus("running") \/ row' = row
      BY <1>10, WritesDoes, Zenon DEF ProvisionDone
    <2> QED BY <1>1, <2>1, QuietKinds, Zenon DEF Statuses
  <1>11. CASE ProvisionUndo(p)
    <2>1. InDocker /\ vol' = vol /\ job[p].pc # "done" /\ Went(p, "undoVolume")
      BY <1>0, <1>11, RemovesDoes, Zenon DEF ProvisionUndo, At
    <2> QED BY <1>1, <2>1, QuietKinds, Zenon
  <1>12. CASE ProvisionUndoVolume(p)
    <2>1. /\ InDocker /\ Went(p, "fail") /\ job[p].pc # "done"
          /\ vol' = vol \/ Dropped(DefaultVolume)
      BY <1>0, <1>12, RemovesVolumeDoes, Zenon DEF ProvisionUndoVolume, At
    <2>2. ~provisioned
      BY <1>0, <2>1, Zenon DEF DataInv
    <2>3. /\ job'[p].op = "provision" /\ job'[p].pc = "fail" /\ Others(p)
          /\ row' = row /\ ~provisioned' /\ doomed' = doomed
      BY <1>0, <2>1, <2>2, Zenon DEF Went, InDocker
    <2>4. ASSUME ~doomed, NEW q \in Procs
          PROVE  RestoreKeeps(q)'
      <3>1. CASE q = p
        BY <2>3, <3>1, Zenon DEF RestoreKeeps
      <3>2. CASE q # p
        <4>1. RestoreKeeps(q) /\ job'[q] = job[q]
          BY <2>3, <2>4, <3>2, Zenon DEF DataInv, Others
        <4> QED BY <2>2, <2>3, <4>1, Zenon DEF RestoreKeeps
      <3> QED BY <3>1, <3>2, Zenon
    <2> QED BY <1>0, <2>2, <2>3, <2>4, Zenon DEF DataInv, Others
  <1>13. CASE ProvisionFail(p)
    <2>1. /\ OnRow /\ Went(p, "return")
          /\ row' = SetStatus("error") \/ row' = row
      BY <1>13, WritesDoes, Zenon DEF ProvisionFail
    <2> QED BY <1>1, <2>1, QuietKinds, Zenon DEF Statuses
  <1> QED
      BY <1>2, <1>3, <1>4, <1>5, <1>6, <1>7, <1>8, <1>9, <1>10, <1>11,
         <1>12, <1>13, Zenon DEF Provision

LEMMA LifecycleData ==
    ASSUME Typed, DataInv, NEW p \in Procs, Lifecycle(p)
    PROVE  DataInv'
  <1>0. /\ job[p].op \in {"start", "stop", "restart"}
        /\ row \in Rows /\ job[p].inst.cid \in Ids
    BY Zenon
    DEF Lifecycle, At, LifecycleGet, StartCall, StartInspect, StartRefresh,
           StartDone, StopCall, StopDone, Typed, Shape, Jobs, Rows, Ids
  <1>1. ASSUME Quietly, Others(p), job'[p].op \in {"none", job[p].op, "start"}
        PROVE  DataInv'
    <2>1. RestoreKeeps(p)'
      BY <1>0, <1>1, Zenon DEF RestoreKeeps
    <2> QED BY <1>0, <1>1, <2>1, QuietData, Zenon
  <1>2. ASSUME Quietly, NEW l, Went(p, l)
        PROVE  DataInv'
    BY <1>1, <1>2 DEF Went, NoJob
  <1>3. CASE LifecycleGet(p)
    <2>1. /\ OnRow /\ row' = row
          /\ Took(p, row, "call") \/ Went(p, "return")
      BY <1>3, GetsDoes, Zenon DEF LifecycleGet
    <2> QED BY <1>1, <1>2, <2>1, QuietKinds, Zenon DEF Took
  <1>4. CASE StartCall(p)
    <2>1. InDocker /\ vol' = vol /\ (Went(p, "refresh") \/ Went(p, "return"))
      BY <1>0, <1>4, StartsDoes, Zenon DEF StartCall
    <2> QED BY <1>2, <2>1, QuietKinds, Zenon
  <1>5. CASE StartInspect(p)
    <2>1. InDocker /\ vol' = vol /\ (Went(p, "port") \/ Went(p, "done"))
      BY <1>5, ExecsDoes, Zenon DEF StartInspect
    <2> QED BY <1>2, <2>1, QuietKinds, Zenon
  <1>6. CASE StartRefresh(p)
    <2>1. /\ OnRow /\ Went(p, "done")
          /\ row' = SetRuntime(job[p].inst.cid) \/ row' = row
      BY <1>6, WritesDoes, Zenon DEF StartRefresh
    <2> QED BY <1>0, <1>2, <2>1, QuietKinds, Zenon
  <1>7. CASE StartDone(p)
    <2>1. /\ OnRow /\ Went(p, "return")
          /\ row' = SetStatus("running") \/ row' = row
      BY <1>7, WritesDoes, Zenon DEF StartDone
    <2> QED BY <1>2, <2>1, QuietKinds, Zenon DEF Statuses
  <1>8. CASE StopCall(p)
    <2>1. InDocker /\ vol' = vol /\ (Went(p, "done") \/ Went(p, "return"))
      BY <1>0, <1>8, StopsDoes, Zenon DEF StopCall
    <2> QED BY <1>2, <2>1, QuietKinds, Zenon
  <1>9. CASE StopDone(p)
    <2>1. OnRow /\ (row' = SetStatus("stopped") \/ row' = row)
      BY <1>9, Frames, Zenon DEF StopDone, Written
    <2>2. Quietly
      BY <2>1, QuietKinds, Zenon DEF Statuses
    <2>3. CASE Goto(p, "return")
      BY <1>2, <2>2, <2>3, GotoDoes, Zenon DEF Typed
    <2>4. CASE job' = [job EXCEPT ![p].op = "start", ![p].pc = "get"]
      <3>1. Others(p) /\ job'[p].op = "start"
        BY <2>4, RestartDoes, Zenon
      <3> QED BY <1>1, <2>2, <3>1, Zenon
    <2> QED BY <1>9, <2>3, <2>4, Zenon DEF StopDone
  <1> QED BY <1>3, <1>4, <1>5, <1>6, <1>7, <1>8, <1>9, Zenon DEF Lifecycle

LEMMA DestroyData ==
    ASSUME Typed, DataInv, NEW p \in Procs, Destroy(p)
    PROVE  DataInv'
  <1>1. /\ job[p].op = "destroy" /\ job[p].inst.cid \in Ids
        /\ job[p].inst.vol \in Volumes
    BY Zenon DEF Destroy, At, DestroyGet, DestroyMark, DestroyContainer,
           DestroyVolume, DestroyRepo, DestroyRow, DestroyFail, Typed, Jobs,
           Rows, Ids
  <1>2. doomed
    BY <1>1, Zenon DEF DataInv
  <1>3. provisioned' = provisioned /\ doomed' = doomed
    BY Frames, Zenon DEF Destroy, DestroyGet, DestroyMark, DestroyContainer,
           DestroyVolume, DestroyRepo, DestroyRow, DestroyFail, Gets, Writes,
           RemovesVolume, OnRow, InDocker
  <1>4. Took(p, row, "mark") \/ \E l : Went(p, l)
    <2>1. CASE DestroyGet(p)
      BY <2>1, GetsDoes, Zenon DEF DestroyGet
    <2>2. CASE DestroyMark(p) \/ DestroyRow(p) \/ DestroyFail(p)
      BY <2>2, GotoDoes, Zenon
      DEF DestroyMark, DestroyRow, DestroyFail, Writes, Typed
    <2>3. CASE DestroyContainer(p) \/ DestroyVolume(p) \/ DestroyRepo(p)
      BY <2>3, GotoDoes, Zenon
      DEF DestroyContainer, DestroyVolume, DestroyRepo, RemovesVolume, Typed
    <2> QED BY <2>1, <2>2, <2>3, Zenon DEF Destroy
  <1>5. Others(p) /\ job'[p].op # "provision"
    BY <1>1, <1>4 DEF Took, Went, NoJob
  <1> QED BY <1>2, <1>3, <1>5, DoomedData, Zenon

LEMMA VisibilityData ==
    ASSUME Typed, DataInv, NEW p \in Procs, Visibility(p)
    PROVE  DataInv'
  <1>0. /\ job[p].op = "visibility"
        /\ row \in Rows /\ job[p].inst.cid \in Ids /\ job[p].inst.vol \in Volumes
        /\ job[p].new \in Ids /\ job[p].want \in BOOLEAN
    BY Zenon
    DEF Visibility, At, VisibilityGet, VisibilitySetPublic, VisibilityStop,
           VisibilityDropOld, VisibilityCreate, VisibilityRecord,
           VisibilityStart, VisibilityReady, VisibilityInspect, VisibilityPort,
           VisibilityEnd, RecoverSetPublic, RecoverCreate, RecoverRecord,
           RecoverStart, Typed, Shape, Jobs, Rows, Ids
  <1>1. ASSUME Quietly, Others(p), job'[p].op \in {"none", job[p].op}
        PROVE  DataInv'
    <2>1. RestoreKeeps(p)'
      BY <1>0, <1>1, Zenon DEF RestoreKeeps
    <2> QED BY <1>0, <1>1, <2>1, QuietData, Zenon
  <1>2. ASSUME Quietly, NEW l, Went(p, l)
        PROVE  DataInv'
    BY <1>1, <1>2 DEF Went, NoJob
  <1>3. CASE VisibilityGet(p)
    <2>1. OnRow /\ row' = row
      BY <1>3, Frames, Zenon DEF VisibilityGet
    <2>2. CASE Goto(p, "unlock")
      BY <1>2, <2>1, <2>2, QuietKinds, GotoDoes, Zenon DEF Typed
    <2>3. CASE job' = [job EXCEPT
                           ![p].inst = [row EXCEPT !.public = job[p].want],
                           ![p].pc = "setPublic"]
      <3>1. Others(p) /\ job'[p].op = job[p].op
        BY <2>3, TakesDoes, Zenon DEF Took
      <3> QED BY <1>1, <2>1, <3>1, QuietKinds, Zenon
    <2> QED BY <1>3, <2>2, <2>3, Zenon DEF VisibilityGet
  <1>4. CASE VisibilitySetPublic(p)
    <2>1. /\ OnRow /\ (row' = SetPublic(job[p].want) \/ row' = row)
          /\ \E l : Goto(p, l)
      BY <1>4, Frames, Zenon DEF VisibilitySetPublic, Written
    <2>2. PICK l : Went(p, l)
      BY <2>1, GotoDoes, Zenon DEF Typed
    <2> QED BY <1>0, <1>2, <2>1, <2>2, QuietKinds, Zenon
  <1>5. CASE VisibilityStop(p)
    <2>1. CASE Stops(p, job[p].inst.cid, "dropOld", "dropOld")
      BY <1>0, <1>2, <2>1, StopsDoes, QuietKinds, Zenon
    <2>2. CASE Goto(p, "unlock") /\ UNCHANGED <<row, rowFrame>>
      BY <1>2, <2>2, GotoDoes, Frames, QuietKinds, Zenon DEF Typed
    <2> QED BY <1>5, <2>1, <2>2, Zenon DEF VisibilityStop
  <1>6. CASE VisibilityDropOld(p)
    BY <1>0, <1>2, <1>6, RemovesDoes, QuietKinds, Zenon DEF VisibilityDropOld
  <1>7. ASSUME NEW b, NEW ok, NEW bad,
               Creates(p, job[p].inst.vol, TRUE, b, ok, bad)
        PROVE  DataInv'
    <2>1. /\ InDocker
          /\ \/ /\ \E c \in Containers : Made(p, c, job[p].inst.vol, TRUE, ok)
                /\ Mounted(job[p].inst.vol)
             \/ vol' = vol /\ Went(p, bad)
      BY <1>0, <1>7, CreatesDoes, Zenon
    <2>2. CASE vol' = vol /\ Went(p, bad)
      BY <1>2, <2>1, <2>2, QuietKinds, Zenon
    <2>3. CASE /\ \E c \in Containers : Made(p, c, job[p].inst.vol, TRUE, ok)
               /\ Mounted(job[p].inst.vol)
      BY <1>0, <1>1, <2>1, <2>3, QuietKinds, Zenon DEF Made
    <2> QED BY <2>1, <2>2, <2>3, Zenon
  <1>8. CASE VisibilityCreate(p) \/ RecoverCreate(p)
    BY <1>7, <1>8, Zenon DEF VisibilityCreate, RecoverCreate
  <1>9. ASSUME NEW l, Writes(p, SetRuntime(job[p].new), l)
        PROVE  DataInv'
    BY <1>0, <1>2, <1>9, WritesDoes, QuietKinds, Zenon
  <1>10. CASE VisibilityRecord(p) \/ VisibilityPort(p) \/ RecoverRecord(p)
    BY <1>9, <1>10, Zenon DEF VisibilityRecord, VisibilityPort, RecoverRecord
  <1>11. CASE VisibilityStart(p) \/ RecoverStart(p)
    BY <1>0, <1>2, <1>11, StartsDoes, QuietKinds, Zenon
    DEF VisibilityStart, RecoverStart
  <1>12. CASE VisibilityReady(p) \/ VisibilityInspect(p)
    BY <1>2, <1>12, ExecsDoes, QuietKinds, Zenon
    DEF VisibilityReady, VisibilityInspect
  <1>13. CASE VisibilityEnd(p)
    <2>1. PICK s \in Statuses : TryWrite(SetStatus(s))
      BY <1>13, Zenon DEF VisibilityEnd, Statuses
    <2>2. OnRow /\ (row' = SetStatus(s) \/ row' = row) /\ Went(p, "unlock")
      BY <1>13, <2>1, Frames, GotoDoes, Zenon
      DEF VisibilityEnd, TryWrite, Written, Typed
    <2> QED BY <1>2, <2>2, QuietKinds, Zenon
  <1>14. CASE RecoverSetPublic(p)
    BY <1>0, <1>2, <1>14, WritesDoes, QuietKinds, Zenon DEF RecoverSetPublic
  <1> QED
      BY <1>3, <1>4, <1>5, <1>6, <1>8, <1>10, <1>11, <1>12, <1>13, <1>14, Zenon
      DEF Visibility

\* What the steps of a restore that are not quiet keep: no other restore is
\* past its Lock.
LEMMA RestoreAlone ==
    ASSUME Typed, NEW p \in Procs, job[p].op = "restore", job[p].pc # "lock",
           Others(p), NEW q \in Procs \ {p}
    PROVE  RestoreKeeps(q)'
  <1>1. mutex = p /\ job'[q] = job[q]
    BY Zenon DEF Typed, Locks, Holds, Exclusive, Others
  <1>2. ~Holds(q)
    BY <1>1, Zenon DEF Typed, Locks
  <1>3. job'[q].op = "restore" => job'[q].pc = "lock"
    BY <1>1, <1>2, Zenon DEF Holds, Exclusive
  <1> QED BY <1>3, Zenon DEF RestoreKeeps, Untouched, Staged, Filled

LEMMA RestoreData ==
    ASSUME ~DBFaults, Typed, DataInv, NEW p \in Procs, Restore(p)
    PROVE  DataInv'
  <1> USE DEF At
  <1>0. /\ job[p].op = "restore" /\ row \in Rows /\ row.vol \in Volumes
        /\ job[p].inst.cid \in Ids /\ job[p].inst.vol \in Volumes
        /\ job[p].new \in Ids /\ job[p].vol \in Volumes
    BY Zenon DEF Restore, RestoreGet, RestoreMark, RestoreVolume, RestoreStop,
           RestoreFill, RestoreCreate, RestoreStart, RestoreReady,
           RestoreInspect, RestoreSetRuntime, RestoreSetVolume, RestoreDropOld,
           RestoreDropVolume, RestoreDone, RestoreUndo, RestoreUndoVolume,
           RestoreUndoStop, RestoreUndoInspect, RestoreUndoRow, RestoreFail,
           Typed, Shape, Jobs, Rows, Ids
  <1>1. ~doomed => RestoreKeeps(p)
    BY Zenon DEF DataInv
  <1>2. ASSUME Quietly, Others(p), job'[p].op = job[p].op,
               ~doomed => RestoreKeeps(p)'
        PROVE  DataInv'
    BY <1>0, <1>2, QuietData, Zenon
  <1>3. ASSUME Quietly, NEW l, Went(p, l), l # "return", l \notin Untouched,
               l \notin {"dropOld", "dropVolume"}
        PROVE  DataInv'
    <2>1. job'[p].op = job[p].op /\ job'[p].pc = l /\ Others(p)
      BY <1>3, Zenon DEF Went
    <2>2. RestoreKeeps(p)'
      BY <1>3, <2>1, Zenon DEF RestoreKeeps, Untouched, Staged
    <2> QED BY <1>2, <1>3, <2>1, <2>2, Zenon
  \* A step from one label to another about which no more is said.
  <1>4. ASSUME Quietly, NEW l, Went(p, l), l # "return",
               l \in Untouched => job[p].pc \in Untouched,
               l \in Staged => job[p].pc \in Staged,
               l \in Filled => job[p].pc \in Filled,
               l \in {"dropOld", "dropVolume"} =>
                   job[p].pc \in {"dropOld", "dropVolume"}
        PROVE  DataInv'
    <2>1. /\ job'[p].op = job[p].op /\ job'[p].pc = l /\ Others(p)
          /\ job'[p].inst = job[p].inst /\ job'[p].vol = job[p].vol
      BY <1>4, Zenon DEF Went
    <2>2. ~doomed => RestoreKeeps(p)'
      BY <1>0, <1>1, <1>4, <2>1, Zenon DEF RestoreKeeps, Quietly
    <2> QED BY <1>2, <1>4, <2>1, <2>2, Zenon
  <1>5. CASE RestoreGet(p)
    <2>1. OnRow /\ row' = row /\ (Took(p, row, "mark") \/ Went(p, "fail"))
      BY <1>5, GetsDoes, Zenon DEF RestoreGet
    <2>2. CASE Went(p, "fail")
      BY <1>3, <2>1, <2>2, QuietKinds, Zenon DEF Untouched, Staged, Filled
    <2>3. CASE Took(p, row, "mark")
      <3>1. RestoreKeeps(p)'
        BY <2>1, <2>3, Zenon DEF RestoreKeeps, Took, Untouched, Staged, Filled
      <3> QED BY <1>2, <2>1, <2>3, <3>1, QuietKinds, Zenon DEF Took
    <2> QED BY <2>1, <2>2, <2>3, Zenon
  <1>6. CASE RestoreMark(p)
    <2>1. /\ OnRow /\ Went(p, "volume") /\ job[p].pc = "mark"
          /\ row' = SetStatus("restoring") \/ row' = row
      BY <1>6, WritesDoes, Zenon DEF RestoreMark
    <2>2. Quietly
      BY <2>1, QuietKinds, Zenon DEF Statuses
    <2> QED BY <1>4, <2>1, <2>2, Zenon DEF Untouched, Staged, Filled
  <1>7. CASE RestoreVolume(p)
    <2>1. InDocker
      BY <1>7, Frames, Zenon DEF RestoreVolume
    <2>2. CASE UNCHANGED vol /\ Goto(p, "fail")
      BY <1>3, <2>1, <2>2, QuietKinds, GotoDoes, Zenon
      DEF Untouched, Staged, Filled, Typed
    <2>3. ASSUME NEW v \in Volumes \ {DefaultVolume}, vol[v] = "none",
                 CreateVolume(v),
                 job' = [job EXCEPT ![p].vol = v, ![p].pc = "stop"]
          PROVE  DataInv'
      <3>1. Mounted(v)
        BY <2>3, VolumeUpdates, Zenon DEF Mounted, Typed, Shape
      <3>2. Staging(p, v)
        BY <2>3, StagesDoes, Zenon
      <3>3. ~doomed => row.vol # v /\ job[p].inst.vol = row.vol
        BY <1>1, <1>7, <2>3, Zenon
        DEF DataInv, RestoreKeeps, RestoreVolume, Untouched
      <3>4. ~doomed => RestoreKeeps(p)'
        BY <2>1, <3>2, <3>3, Zenon
        DEF RestoreKeeps, Staging, InDocker, Untouched, Staged, Filled
      <3> QED BY <1>2, <2>1, <3>1, <3>2, <3>4, QuietKinds, Zenon DEF Staging
    <2> QED BY <1>7, <2>2, <2>3, Zenon DEF RestoreVolume
  <1>8. CASE RestoreStop(p)
    <2>1. InDocker /\ vol' = vol /\ Went(p, "fill") /\ job[p].pc = "stop"
      BY <1>0, <1>8, StopsDoes, Zenon DEF RestoreStop
    <2> QED BY <1>4, <2>1, QuietKinds, Zenon DEF Untouched, Staged, Filled
  <1>9. CASE RestoreFill(p)
    <2>1. InDocker /\ job[p].pc = "fill"
      BY <1>9, Frames, Zenon DEF RestoreFill
    <2>2. CASE UNCHANGED vol /\ Goto(p, "undoVolume")
      <3>1. Went(p, "undoVolume") /\ Quietly
        BY <2>1, <2>2, QuietKinds, GotoDoes, Zenon DEF Typed
      <3> QED BY <1>4, <2>1, <3>1, Zenon DEF Untouched, Staged, Filled
    <2>3. CASE /\ provisioned /\ vol' = [vol EXCEPT ![job[p].vol] = "data"]
               /\ Goto(p, "create")
      <3>1. Went(p, "create")
        BY <2>3, GotoDoes, Zenon DEF Typed
      <3>2. Quietly /\ vol'[job[p].vol] = "data"
        BY <1>0, <2>1, <2>3, Zenon DEF Quietly, InDocker, Typed, Shape
      <3>3. /\ job'[p].op = job[p].op /\ job'[p].pc = "create" /\ Others(p)
            /\ job'[p].inst = job[p].inst /\ job'[p].vol = job[p].vol
        BY <3>1, Zenon DEF Went
      <3>4. ~doomed => RestoreKeeps(p)'
        BY <1>1, <2>1, <2>3, <3>2, <3>3, Zenon
        DEF RestoreKeeps, InDocker, Untouched, Staged, Filled
      <3> QED BY <1>2, <3>2, <3>3, <3>4, Zenon
    <2> QED BY <1>9, <2>2, <2>3, Zenon DEF RestoreFill
  <1>10. CASE RestoreCreate(p)
    <2>1. job[p].pc = "create"
      BY <1>10, Zenon DEF RestoreCreate
    <2>2. ASSUME Quietly, Went(p, "undoVolume")
          PROVE  DataInv'
      BY <1>4, <2>1, <2>2, Zenon DEF Untouched, Staged, Filled
    <2>3. CASE Missing /\ Goto(p, "undoVolume") /\ UNCHANGED <<row, rowFrame>>
      BY <2>2, <2>3, QuietKinds, Frames, GotoDoes, Zenon DEF Typed
    <2>4. CASE Creates(p, job[p].vol, FALSE, job[p].inst.public, "start",
                       "undoVolume")
      <3>1. /\ InDocker
            /\ \/ /\ \E c \in Containers : Made(p, c, job[p].vol, FALSE, "start")
                  /\ Mounted(job[p].vol)
               \/ vol' = vol /\ Went(p, "undoVolume")
        BY <1>0, <2>4, CreatesDoes, Zenon
      <3>2. CASE vol' = vol /\ Went(p, "undoVolume")
        BY <2>2, <3>1, <3>2, QuietKinds, Zenon
      <3>3. CASE /\ \E c \in Containers : Made(p, c, job[p].vol, FALSE, "start")
                 /\ Mounted(job[p].vol)
        <4>1. Quietly
          BY <1>0, <3>1, <3>3, QuietKinds, Zenon
        <4>2. /\ job'[p].op = job[p].op /\ job'[p].pc = "start" /\ Others(p)
              /\ job'[p].inst = job[p].inst /\ job'[p].vol = job[p].vol
          BY <3>3, Zenon DEF Made
        <4>3. ~doomed => RestoreKeeps(p)'
          BY <1>0, <1>1, <2>1, <4>1, <4>2, Zenon
          DEF RestoreKeeps, Quietly, Untouched, Staged, Filled
        <4> QED BY <1>2, <4>1, <4>2, <4>3, Zenon
      <3> QED BY <3>1, <3>2, <3>3, Zenon
    <2> QED BY <1>10, <2>3, <2>4, Zenon DEF RestoreCreate
  <1>11. CASE RestoreStart(p)
    <2>1. /\ InDocker /\ vol' = vol /\ job[p].pc = "start"
          /\ Went(p, "ready") \/ Went(p, "undo")
      BY <1>0, <1>11, StartsDoes, Zenon DEF RestoreStart
    <2>2. Quietly
      BY <2>1, QuietKinds, Zenon
    <2> QED BY <1>4, <2>1, <2>2, Zenon DEF Untouched, Staged, Filled
  <1>12. CASE RestoreReady(p)
    <2>1. /\ InDocker /\ vol' = vol /\ job[p].pc = "ready"
          /\ Went(p, "commit") \/ Went(p, "undo")
      BY <1>12, ExecsDoes, Zenon DEF RestoreReady
    <2>2. Quietly
      BY <2>1, QuietKinds, Zenon
    <2> QED BY <1>4, <2>1, <2>2, Zenon DEF Untouched, Staged, Filled
  <1>13. CASE RestoreInspect(p)
    <2>1. /\ InDocker /\ vol' = vol /\ job[p].pc = "commit"
          /\ Went(p, "setRuntime") \/ Went(p, "setVolume")
      BY <1>13, Frames, GotoDoes, Zenon DEF RestoreInspect, dockerVars, Typed
    <2>2. Quietly
      BY <2>1, QuietKinds, Zenon
    <2> QED BY <1>4, <2>1, <2>2, Zenon DEF Untouched, Staged, Filled
  <1>14. CASE RestoreSetRuntime(p)
    <2>1. /\ OnRow /\ Went(p, "setVolume") /\ job[p].pc = "setRuntime"
          /\ row' = SetRuntime(job[p].new) \/ row' = row
      BY <1>14, WritesDoes, Zenon DEF RestoreSetRuntime
    <2>2. Quietly
      BY <1>0, <2>1, QuietKinds, Zenon
    <2> QED BY <1>4, <2>1, <2>2, Zenon DEF Untouched, Staged, Filled
  <1>15. CASE RestoreSetVolume(p)
    <2>1. /\ OnRow /\ Went(p, "dropOld") /\ job[p].pc = "setVolume"
          /\ row' = SetDataVolume(job[p].vol) \/ row = NoRow
      BY <1>15, WritesDoes, Zenon DEF RestoreSetVolume, Missing
    <2>2. /\ job'[p].op = "restore" /\ job'[p].pc = "dropOld" /\ Others(p)
          /\ job'[p].inst = job[p].inst
      BY <1>0, <2>1, Zenon DEF Went
    <2>3. CASE doomed
      BY <2>1, <2>2, <2>3, DoomedData, Zenon DEF OnRow
    <2>4. CASE ~doomed
      <3>1. /\ row.status # "none" /\ provisioned
            /\ vol[job[p].vol] = "data" /\ job[p].vol # job[p].inst.vol
        BY <1>0, <1>1, <2>1, <2>4, Zenon
        DEF DataInv, RestoreKeeps, Untouched, Staged, Filled
      <3>2. row'.vol = job[p].vol /\ row'.status = row.status
        <4>1. row' = SetDataVolume(job[p].vol)
          <5>1. NoRow.status = "none"
            BY Zenon DEF NoRow
          <5> QED BY <2>1, <3>1, <5>1, Zenon
        <4>2. row' = [status |-> row.status, cid |-> row.cid,
                      vol |-> job[p].vol, public |-> row.public]
          BY <1>0, <4>1, RowUpdates, Zenon
        <4> QED BY <4>2, Zenon
      <3>3. RestoreKeeps(p)'
        BY <2>2, <3>1, <3>2, Zenon DEF RestoreKeeps, Untouched, Staged, Filled
      <3>4. \A q \in Procs \ {p} : RestoreKeeps(q)'
        BY <1>0, <2>1, <2>2, RestoreAlone, Zenon
      <3> QED BY <2>1, <2>2, <3>1, <3>2, <3>3, <3>4 DEF DataInv, OnRow, Others
    <2> QED BY <2>3, <2>4, Zenon
  <1>16. CASE RestoreDropOld(p)
    <2>1. InDocker /\ vol' = vol /\ job[p].pc = "dropOld" /\ Went(p, "dropVolume")
      BY <1>0, <1>16, RemovesDoes, Zenon DEF RestoreDropOld
    <2>2. Quietly
      BY <2>1, QuietKinds, Zenon
    <2> QED BY <1>4, <2>1, <2>2, Zenon DEF Untouched, Staged, Filled
  \* Removing a volume that is not the row's.
  <1>17. ASSUME NEW v \in Volumes, NEW l, InDocker, Dropped(v) \/ vol' = vol,
                Went(p, l), ~doomed => v # row.vol, job[p].pc # "lock",
                l \in {"done", "undoStop"}
         PROVE  DataInv'
    <2>1. /\ job'[p].op = "restore" /\ job'[p].pc = l /\ Others(p)
      BY <1>0, <1>17, Zenon DEF Went
    <2>2. CASE doomed
      BY <1>17, <2>1, <2>2, DoomedData, Zenon DEF InDocker
    <2>3. CASE ~doomed
      <3>1. vol'[row.vol] = vol[row.vol] /\ row' = row
        BY <1>0, <1>17, <2>3, Zenon DEF Dropped, InDocker
      <3>2. RestoreKeeps(p)'
        BY <1>17, <2>1, Zenon DEF RestoreKeeps, Untouched, Staged, Filled
      <3>3. \A q \in Procs \ {p} : RestoreKeeps(q)'
        BY <1>0, <1>17, <2>1, RestoreAlone, Zenon
      <3> QED BY <1>17, <2>1, <3>1, <3>2, <3>3 DEF DataInv, InDocker, Others
    <2> QED BY <2>2, <2>3, Zenon
  <1>18. CASE RestoreDropVolume(p)
    <2>1. /\ InDocker /\ Went(p, "done") /\ job[p].pc = "dropVolume"
          /\ Dropped(job[p].inst.vol) \/ vol' = vol
      BY <1>0, <1>18, RemovesVolumeDoes, Zenon DEF RestoreDropVolume
    <2>2. ~doomed => job[p].inst.vol # row.vol
      BY <1>0, <1>1, <2>1, Zenon DEF RestoreKeeps
    <2> QED BY <1>0, <1>17, <2>1, <2>2, Zenon
  <1>19. CASE RestoreUndoVolume(p)
    <2>1. /\ InDocker /\ Went(p, "undoStop") /\ job[p].pc = "undoVolume"
          /\ Dropped(job[p].vol) \/ vol' = vol
      BY <1>0, <1>19, RemovesVolumeDoes, Zenon DEF RestoreUndoVolume
    <2>2. ~doomed => job[p].vol # row.vol
      BY <1>0, <1>1, <2>1, Zenon DEF RestoreKeeps, Staged
    <2> QED BY <1>0, <1>17, <2>1, <2>2, Zenon
  <1>20. CASE RestoreUndo(p)
    <2>1. InDocker /\ vol' = vol /\ job[p].pc = "undo" /\ Went(p, "undoVolume")
      BY <1>0, <1>20, RemovesDoes, Zenon DEF RestoreUndo
    <2>2. Quietly
      BY <2>1, QuietKinds, Zenon
    <2> QED BY <1>4, <2>1, <2>2, Zenon DEF Untouched, Staged, Filled
  <1>21. CASE RestoreUndoStop(p)
    <2>1. InDocker /\ vol' = vol /\ Went(p, "undoPort")
      BY <1>0, <1>21, StartsDoes, Zenon DEF RestoreUndoStop
    <2> QED BY <1>3, <2>1, QuietKinds, Zenon DEF Untouched, Staged, Filled
  <1>22. CASE RestoreUndoInspect(p)
    <2>1. /\ InDocker /\ vol' = vol
          /\ Went(p, "undoRow") \/ Went(p, "fail")
      BY <1>22, ExecsDoes, Zenon DEF RestoreUndoInspect
    <2> QED BY <1>3, <2>1, QuietKinds, Zenon DEF Untouched, Staged, Filled
  <1>23. CASE RestoreUndoRow(p)
    <2>1. /\ OnRow /\ Went(p, "fail")
          /\ row' = SetRuntime(job[p].inst.cid) \/ row' = row
      BY <1>23, WritesDoes, Zenon DEF RestoreUndoRow
    <2>2. Quietly
      BY <1>0, <2>1, QuietKinds, Zenon
    <2> QED BY <1>3, <2>1, <2>2, Zenon DEF Untouched, Staged, Filled
  <1>24. CASE RestoreFail(p) \/ RestoreDone(p)
    <2>1. /\ OnRow /\ Went(p, "unlock")
          /\ \/ row' = SetStatus("error") \/ row' = SetStatus("running")
             \/ row' = row
      BY <1>24, WritesDoes, Zenon DEF RestoreFail, RestoreDone
    <2>2. Quietly
      BY <2>1, QuietKinds, Zenon DEF Statuses
    <2> QED BY <1>3, <2>1, <2>2, Zenon DEF Untouched, Staged, Filled
  <1> QED
      BY <1>5, <1>6, <1>7, <1>8, <1>9, <1>10, <1>11, <1>12, <1>13, <1>14,
         <1>15, <1>16, <1>18, <1>19, <1>20, <1>21, <1>22, <1>23, <1>24, Zenon
      DEF Restore

\* The steps outside the handlers move no data.
LEMMA NextData ==
    ASSUME ~DBFaults, Typed, Typed', DataInv, [Next]_vars
    PROVE  DataInv'
  <1>1. ASSUME NEW p \in Procs, Lock(p) \/ Unlock(p)
        PROVE  DataInv'
    <2>1. /\ row' = row /\ vol' = vol /\ provisioned' = provisioned
          /\ doomed' = doomed
      BY <1>1, Zenon DEF Lock, Unlock, dockerVars, historyVars
    <2>2. Quietly
      BY <2>1, Zenon DEF Quietly
    <2>3. Went(p, "get") \/ Went(p, "return")
      BY <1>1, GotoDoes, Zenon DEF Lock, Unlock, Typed
    <2>4. job[p].op \in Exclusive /\ job[p].pc \in {"lock", "unlock"}
      BY <1>1, Zenon DEF Lock, Unlock, Typed, Locks
    <2>5. /\ Others(p) /\ (job'[p].op = job[p].op \/ job'[p].op = "none")
          /\ job'[p].op = "none" \/ job'[p].pc = "get"
      BY <2>3 DEF Went, NoJob
    <2>6. RestoreKeeps(p)'
      BY <2>5, Zenon DEF RestoreKeeps, Untouched, Staged, Filled
    <2> QED BY <2>2, <2>4, <2>5, <2>6, QuietData, Zenon DEF Exclusive
  <1>2. ASSUME NEW p \in Procs, Handler(p)
        PROVE  DataInv'
    BY <1>1, <1>2, ProvisionData, LifecycleData, DestroyData, RestoreData,
       VisibilityData, Zenon DEF Handler
  <1>3. ASSUME NEW p \in Procs, NEW op \in Ops, Request(p, op)
        PROVE  DataInv'
    <2>1. Began(p, op) /\ op # "provision"
      BY <1>3, RequestTyped, InstanceOpsAssumption, Zenon
    <2>2. /\ row' = row /\ vol' = vol /\ provisioned' = provisioned
          /\ doomed' = (doomed \/ op = "destroy")
      BY <1>3, Zenon DEF Request, dockerVars
    <2>3. CASE op = "destroy"
      BY <2>1, <2>2, <2>3, DoomedData, Zenon DEF Began
    <2>4. CASE op # "destroy"
      <3>1. Quietly
        BY <2>2, <2>4, Zenon DEF Quietly, Typed, Shape
      <3>2. RestoreKeeps(p)'
        BY <2>1, Zenon
        DEF Began, RestoreKeeps, Untouched, Staged, Filled, Exclusive
      <3> QED BY <2>1, <2>4, <3>1, <3>2, QuietData, Zenon DEF Began
    <2> QED BY <2>3, <2>4, Zenon
  \* Nobody's job changes.
  <1>4. ASSUME Quietly, job' = job
        PROVE  DataInv'
    <2>1. PICK p \in Procs : TRUE
      BY InstanceOpsAssumption, Zenon
    <2>2. ~doomed => RestoreKeeps(p)'
      <3>1. job[p].vol \in Volumes
        BY Zenon DEF Typed, Jobs
      <3> QED BY <1>4, <3>1, Zenon DEF DataInv, RestoreKeeps, Quietly
    <2>3. Others(p) /\ (job'[p].op = "destroy" => doomed)
      BY <1>4, Zenon DEF Others, DataInv
    <2> QED BY <1>4, <2>2, <2>3, QuietData, Zenon
  <1>5. CASE Reconcile
    <2>1. /\ vol' = vol /\ provisioned' = provisioned /\ doomed' = doomed
          /\ job' = job
      BY <1>5, ReconcileTyped, Zenon DEF passFrame, dockerVars, historyVars
    <2>2. \/ row' = row
          \/ \E s \in Statuses : row' = SetStatus(s)
          \/ row' = SetRuntime(rec.info)
      BY <1>5, ReconcileTyped, Zenon
    <2>3. row'.vol = row.vol /\ (row.status # "none" => row'.status # "none")
      BY <2>2, RowUpdates DEF Typed, Shape, Statuses
    <2> QED BY <1>4, <2>1, <2>3, Zenon DEF Quietly
  <1>6. CASE Crash
    <2>1. /\ row' = row /\ vol' = vol /\ provisioned' = provisioned
          /\ doomed' = doomed /\ job' = [p \in Procs |-> NoJob]
      BY <1>6, Zenon DEF Crash, dockerVars, historyVars
    <2>2. \A p \in Procs : job'[p].op = "none"
      BY <2>1, Zenon DEF NoJob
    <2>3. \A p \in Procs : RestoreKeeps(p)'
      BY <2>2, Zenon DEF RestoreKeeps
    <2> QED BY <2>1, <2>2, <2>3, Zenon DEF DataInv
  <1>7. ASSUME NEW c \in Containers, ContainerExits(c) \/ DockerRestarts(c)
        PROVE  DataInv'
    BY <1>4, <1>7, Zenon
    DEF ContainerExits, DockerRestarts, Quietly, historyVars
  <1>8. CASE UNCHANGED vars
    BY <1>4, <1>8, Zenon DEF vars, dockerVars, historyVars, Quietly
  <1> QED BY <1>2, <1>3, <1>5, <1>6, <1>7, <1>8, Zenon DEF Next

LEMMA InitData ==
    ASSUME Init
    PROVE  DataInv
  <1>1. PICK p \in Procs :
            /\ job[p].op = "provision"
            /\ \A q \in Procs \ {p} : job[q].op = "none"
    BY InitJob, Zenon
  <1>2. \A q \in Procs : RestoreKeeps(q)
    BY <1>1, Zenon DEF RestoreKeeps
  <1>3. row.status = "provisioning" /\ row.vol = DefaultVolume
    BY Blank, Zenon DEF Init, NoRow, Rows
  <1>4. ~provisioned
    BY Zenon DEF Init
  <1> QED BY <1>1, <1>2, <1>3, <1>4, Zenon DEF DataInv

\* As long as the meta database takes its writes, the instance's row names a
\* volume with its data from the first verified start until somebody destroys
\* it: whatever restores, flips, starts and stops do at the same time, whatever
\* Docker refuses, and wherever the control plane dies.
THEOREM DataSafe ==
    ASSUME ~DBFaults
    PROVE  Spec => []DataKept
  <1>1. DataInv => DataKept
    BY Zenon DEF DataInv, DataKept
  <1>2. Init => Typed /\ DataInv
    BY InitTyped, InitData, Zenon
  <1>3. Typed /\ DataInv /\ [Next]_vars => (Typed /\ DataInv)'
    BY NextTyped, NextData, Zenon
  <1> QED BY <1>1, <1>2, <1>3, PTL DEF Spec

-------------------------------------------------------------------------------
(* One server.  Without a restore every container has the fixed name, and   *)
(* only one container at a time can.                                        *)

AloneInv ==
    /\ \A p \in Procs : job[p].op # "restore"
    /\ \A c \in Containers : Exists(c) =>
           ctr[c].fixed /\ \A d \in Containers : Exists(d) => d = c

\* What the steps do to the containers.
ServersKept ==
    \/ ctr' = ctr
    \/ \E c \in Containers, s \in ContainerStates : Exists(c) /\ Restated(c, s)
    \/ /\ NameFree
       /\ \E c \in Containers : /\ ctr'[c].fixed
                                /\ \A d \in Containers \ {c} : ctr'[d] = ctr[d]

LEMMA KeptAlone ==
    ASSUME AloneInv, ServersKept, \A p \in Procs : job'[p].op # "restore"
    PROVE  AloneInv'
  <1>1. CASE ctr' = ctr
    BY <1>1, Zenon DEF AloneInv, Exists
  <1>2. ASSUME NEW c \in Containers, NEW s, Exists(c), Restated(c, s)
        PROVE  AloneInv'
    BY <1>2, Zenon DEF AloneInv, Exists, Restated
  <1>3. ASSUME NameFree, NEW c \in Containers, ctr'[c].fixed,
               \A d \in Containers \ {c} : ctr'[d] = ctr[d]
        PROVE  AloneInv'
    <2>1. \A d \in Containers : ~Exists(d)
      BY <1>3, Zenon DEF AloneInv, NameFree, Existing
    <2>2. \A d \in Containers \ {c} : ~Exists(d)'
      BY <1>3, <2>1, Zenon DEF Exists
    <2> QED BY <1>3, <2>2, Zenon DEF AloneInv
  <1> QED BY <1>1, <1>2, <1>3, Zenon DEF ServersKept

\* The kinds of step.
LEMMA KeptKinds ==
    ASSUME Typed, NEW p \in Procs, NEW c \in Ids, NEW v \in Volumes, NEW b,
           NEW ok, NEW bad
    PROVE  /\ UNCHANGED rowFrame => ServersKept
           /\ Starts(p, c, ok, bad) => ServersKept
           /\ Stops(p, c, ok, bad) => ServersKept
           /\ Removes(p, c, ok) => ServersKept
           /\ Creates(p, v, TRUE, b, ok, bad) => ServersKept
  <1>1. UNCHANGED rowFrame => ServersKept
    BY Zenon DEF rowFrame, dockerVars, ServersKept
  <1>2. {"running", "created", "stopped", "gone"} \subseteq ContainerStates
    BY Zenon DEF ContainerStates
  <1>3. Exists(c) => c \in Containers
    BY Zenon DEF Exists, Ids
  <1>4. Starts(p, c, ok, bad) => ServersKept
    BY <1>2, <1>3, StartsDoes, Zenon DEF ServersKept
  <1>5. Stops(p, c, ok, bad) => ServersKept
    BY <1>2, <1>3, StopsDoes, Zenon DEF ServersKept
  <1>6. Removes(p, c, ok) => ServersKept
    BY <1>2, <1>3, RemovesDoes, Zenon DEF ServersKept
  <1>7. Creates(p, v, TRUE, b, ok, bad) => ServersKept
    <2>1. SUFFICES ASSUME Creates(p, v, TRUE, b, ok, bad)
                   PROVE  ServersKept
      OBVIOUS
    <2>2. CASE ctr' = ctr
      BY <2>2, Zenon DEF ServersKept
    <2>3. ASSUME NameFree, NEW d \in Containers, Made(p, d, v, TRUE, ok)
          PROVE  ServersKept
      BY <2>3, Zenon DEF ServersKept, Made
    <2>4. \/ ctr' = ctr
          \/ NameFree /\ \E d \in Containers : Made(p, d, v, TRUE, ok)
      BY <2>1, CreatesDoes, Zenon
    <2> QED BY <2>2, <2>3, <2>4, Zenon
  <1> QED BY <1>1, <1>4, <1>5, <1>6, <1>7, Zenon

LEMMA HandlersKeep ==
    ASSUME Typed, NEW p \in Procs, Handler(p), job[p].op # "restore"
    PROVE  ServersKept
  <1>0. /\ job[p].inst.cid \in Ids /\ job[p].inst.vol \in Volumes
        /\ job[p].new \in Ids /\ DefaultVolume \in Volumes
    BY Blank, Zenon DEF Typed, Jobs, Rows, Ids
  <1>1. CASE Lock(p) \/ Unlock(p)
    BY <1>1, Zenon DEF Lock, Unlock, dockerVars, ServersKept
  <1>2. CASE Provision(p)
    <2>1. CASE ProvisionGet(p) \/ ProvisionRecord(p) \/ ProvisionPort(p)
               \/ ProvisionDone(p) \/ ProvisionFail(p)
      <3>1. UNCHANGED rowFrame
        BY <2>1, Zenon DEF ProvisionGet, ProvisionRecord, ProvisionPort,
                    ProvisionDone, ProvisionFail, Writes
      <3> QED BY <1>0, <3>1, KeptKinds, Zenon
    <2>2. CASE ProvisionVolume(p) \/ ProvisionInspect(p) \/ ProvisionReady(p)
               \/ ProvisionUndoVolume(p)
      BY <2>2, Zenon DEF ProvisionVolume, ProvisionInspect, ProvisionReady,
                  ProvisionUndoVolume, Execs, RemovesVolume, dockerVars,
                  ServersKept
    <2>3. CASE ProvisionCreate(p) \/ ProvisionStart(p) \/ ProvisionUndo(p)
      BY <1>0, <2>3, KeptKinds, Zenon
      DEF ProvisionCreate, ProvisionStart, ProvisionUndo
    <2> QED BY <1>2, <2>1, <2>2, <2>3, Zenon DEF Provision
  <1>3. CASE Lifecycle(p)
    <2>1. CASE LifecycleGet(p) \/ StartRefresh(p) \/ StartDone(p) \/ StopDone(p)
      <3>1. UNCHANGED rowFrame
        BY <2>1, Zenon
        DEF LifecycleGet, StartRefresh, StartDone, StopDone, Writes,
                    Gets
      <3> QED BY <1>0, <3>1, KeptKinds, Zenon
    <2>2. CASE StartInspect(p)
      BY <2>2, Zenon DEF StartInspect, Execs, dockerVars, ServersKept
    <2>3. CASE StartCall(p) \/ StopCall(p)
      BY <1>0, <2>3, KeptKinds, Zenon DEF StartCall, StopCall
    <2> QED BY <1>3, <2>1, <2>2, <2>3, Zenon DEF Lifecycle
  <1>4. CASE Destroy(p)
    <2>1. CASE DestroyGet(p) \/ DestroyMark(p) \/ DestroyRow(p) \/ DestroyFail(p)
      <3>1. UNCHANGED rowFrame
        BY <2>1, Zenon
        DEF DestroyGet, DestroyMark, DestroyRow, DestroyFail, Writes,
                    Gets
      <3> QED BY <1>0, <3>1, KeptKinds, Zenon
    <2>2. CASE DestroyVolume(p) \/ DestroyRepo(p)
      BY <2>2, Zenon DEF DestroyVolume, DestroyRepo, RemovesVolume, dockerVars,
                  ServersKept
    <2>3. CASE DestroyContainer(p)
      <3>1. CASE UNCHANGED ctr
        BY <3>1, Zenon DEF ServersKept
      <3>2. CASE Exists(job[p].inst.cid) /\ RemoveContainer(job[p].inst.cid)
        <4>1. job[p].inst.cid \in Containers
          BY <1>0, <3>2, Zenon DEF Exists, Ids
        <4>2. Restated(job[p].inst.cid, "gone")
          BY <3>2, <4>1, ContainerUpdates, Zenon DEF Typed, Shape
        <4> QED BY <3>2, <4>1, <4>2, Zenon DEF ServersKept, ContainerStates
      <3> QED BY <2>3, <3>1, <3>2, Zenon DEF DestroyContainer
    <2> QED BY <1>4, <2>1, <2>2, <2>3, Zenon DEF Destroy
  <1>5. CASE Visibility(p)
    <2>1. CASE VisibilityGet(p) \/ VisibilitySetPublic(p) \/ VisibilityRecord(p)
               \/ VisibilityPort(p) \/ VisibilityEnd(p) \/ RecoverSetPublic(p)
               \/ RecoverRecord(p)
      <3>1. UNCHANGED rowFrame
        BY <2>1, Zenon DEF VisibilityGet, VisibilitySetPublic, VisibilityRecord,
                    VisibilityPort, VisibilityEnd, RecoverSetPublic,
                    RecoverRecord, Writes
      <3> QED BY <1>0, <3>1, KeptKinds, Zenon
    <2>2. CASE VisibilityReady(p) \/ VisibilityInspect(p)
      BY <2>2, Zenon DEF VisibilityReady, VisibilityInspect, Execs, dockerVars,
                  ServersKept
    <2>3. CASE VisibilityStop(p)
      <3>1. CASE UNCHANGED <<row, rowFrame>>
        BY <1>0, <3>1, KeptKinds, Zenon
      <3>2. CASE Stops(p, job[p].inst.cid, "dropOld", "dropOld")
        BY <1>0, <3>2, KeptKinds, Zenon
      <3> QED BY <2>3, <3>1, <3>2, Zenon DEF VisibilityStop
    <2>4. CASE VisibilityDropOld(p) \/ VisibilityStart(p) \/ RecoverStart(p)
      BY <1>0, <2>4, KeptKinds, Zenon
      DEF VisibilityDropOld, VisibilityStart, RecoverStart
    <2>5. CASE VisibilityCreate(p) \/ RecoverCreate(p)
      BY <1>0, <2>5, KeptKinds, Zenon DEF VisibilityCreate, RecoverCreate
    <2> QED BY <1>5, <2>1, <2>2, <2>3, <2>4, <2>5, Zenon DEF Visibility
  <1>6. CASE Restore(p)
    BY <1>6, Zenon
    DEF Restore, At, RestoreGet, RestoreMark, RestoreVolume, RestoreStop,
           RestoreFill, RestoreCreate, RestoreStart, RestoreReady,
           RestoreInspect, RestoreSetRuntime, RestoreSetVolume, RestoreDropOld,
           RestoreDropVolume, RestoreDone, RestoreUndo, RestoreUndoVolume,
           RestoreUndoStop, RestoreUndoInspect, RestoreUndoRow, RestoreFail
  <1> QED BY <1>1, <1>2, <1>3, <1>4, <1>5, <1>6, Zenon DEF Handler

\* A handler goes on, ends, or (Restart) turns into a Start.
Turns(p) == Others(p) /\ job'[p].op \in {job[p].op, "none", "start"}

LEMMA HandlersTurn ==
    ASSUME Typed, NEW p \in Procs, Handler(p), job[p].op # "restore"
    PROVE  Turns(p)
  <1>0. job[p].inst.vol \in Volumes /\ DefaultVolume \in Volumes
    BY Blank, Zenon DEF Typed, Jobs, Rows
  <1>1. ASSUME NEW l, Goto(p, l)
        PROVE  Turns(p)
    BY <1>1, GotoDoes DEF Went, NoJob, Typed, Turns
  <1>2. ASSUME NEW l, NEW r, job' = [job EXCEPT ![p].inst = r, ![p].pc = l]
        PROVE  Turns(p)
    BY <1>2, TakesDoes, Zenon DEF Took, Turns
  <1>3. ASSUME NEW v \in Volumes, NEW fixed, NEW b, NEW ok, NEW bad,
               Creates(p, v, fixed, b, ok, bad)
        PROVE  Turns(p)
    <2>1. Went(p, bad) \/ \E c \in Containers : Made(p, c, v, fixed, ok)
      BY <1>3, CreatesDoes, Zenon
    <2> QED BY <2>1 DEF Went, Made, NoJob, Turns
  <1>4. CASE Lock(p) \/ Unlock(p)
    BY <1>1, <1>4, Zenon DEF Lock, Unlock
  <1>5. CASE Provision(p)
    <2>1. CASE ProvisionCreate(p)
      BY <1>0, <1>3, <2>1, Zenon DEF ProvisionCreate
    <2>2. CASE ProvisionGet(p)
      BY <1>1, <1>2, <2>2, Zenon DEF ProvisionGet
    <2> QED
      BY <1>1, <1>5, <2>1, <2>2, Zenon
      DEF Provision, ProvisionVolume, ProvisionRecord, ProvisionStart,
          ProvisionInspect, ProvisionPort, ProvisionReady, ProvisionDone,
          ProvisionUndo, ProvisionUndoVolume, ProvisionFail, Writes, Starts,
          Execs, Removes, RemovesVolume
  <1>6. CASE Lifecycle(p)
    <2>1. CASE LifecycleGet(p)
      BY <1>1, <1>2, <2>1, Zenon DEF LifecycleGet, Gets
    <2>2. CASE StopDone(p)
      <3>1. CASE job' = [job EXCEPT ![p].op = "start", ![p].pc = "get"]
        BY <3>1, RestartDoes, Zenon DEF Turns
      <3> QED BY <1>1, <2>2, <3>1, Zenon DEF StopDone
    <2> QED
      BY <1>1, <1>6, <2>1, <2>2, Zenon
      DEF Lifecycle, StartCall, StartInspect, StartRefresh, StartDone,
          StopCall, Writes, Starts, Stops, Execs
  <1>7. CASE Destroy(p)
    <2>1. CASE DestroyGet(p)
      BY <1>1, <1>2, <2>1, Zenon DEF DestroyGet, Gets
    <2> QED
      BY <1>1, <1>7, <2>1, Zenon
      DEF Destroy, DestroyMark, DestroyContainer, DestroyVolume, DestroyRepo,
          DestroyRow, DestroyFail, Writes, RemovesVolume
  <1>8. CASE Visibility(p)
    <2>1. CASE VisibilityGet(p)
      BY <1>1, <1>2, <2>1, Zenon DEF VisibilityGet
    <2>2. CASE VisibilityCreate(p) \/ RecoverCreate(p)
      BY <1>0, <1>3, <2>2, Zenon DEF VisibilityCreate, RecoverCreate
    <2> QED
      BY <1>1, <1>8, <2>1, <2>2, Zenon
      DEF Visibility, VisibilitySetPublic, VisibilityStop, VisibilityDropOld,
          VisibilityRecord, VisibilityStart, VisibilityReady,
          VisibilityInspect, VisibilityPort, VisibilityEnd, RecoverSetPublic,
          RecoverRecord, RecoverStart, Writes, Starts, Stops, Execs, Removes
  <1>9. ~Restore(p)
    BY Zenon
    DEF Restore, At, RestoreGet, RestoreMark, RestoreVolume, RestoreStop,
           RestoreFill, RestoreCreate, RestoreStart, RestoreReady,
           RestoreInspect, RestoreSetRuntime, RestoreSetVolume, RestoreDropOld,
           RestoreDropVolume, RestoreDone, RestoreUndo, RestoreUndoVolume,
           RestoreUndoStop, RestoreUndoInspect, RestoreUndoRow, RestoreFail
  <1> QED BY <1>4, <1>5, <1>6, <1>7, <1>8, <1>9, Zenon DEF Handler

LEMMA NextAlone ==
    ASSUME "restore" \notin Ops, Typed, AloneInv, [Next]_vars
    PROVE  AloneInv'
  <1>1. ASSUME NEW p \in Procs, Handler(p)
        PROVE  AloneInv'
    <2>1. job[p].op # "restore"
      BY Zenon DEF AloneInv
    <2>2. Turns(p) /\ ServersKept
      BY <1>1, <2>1, HandlersTurn, HandlersKeep, Zenon
    <2>3. \A q \in Procs : job'[q].op # "restore"
      BY <2>1, <2>2, Zenon DEF Turns, Others, AloneInv
    <2> QED BY <2>2, <2>3, KeptAlone, Zenon
  <1>2. ASSUME NEW p \in Procs, NEW op \in Ops, Request(p, op)
        PROVE  AloneInv'
    <2>1. Began(p, op) /\ ctr' = ctr /\ op # "restore"
      BY <1>2, RequestTyped, Zenon DEF Request, dockerVars
    <2>2. \A q \in Procs : job'[q].op # "restore"
      BY <2>1, Zenon DEF Began, Others, AloneInv
    <2> QED BY <2>1, <2>2, KeptAlone, Zenon DEF ServersKept
  <1>3. ASSUME job' = job, ServersKept
        PROVE  AloneInv'
    BY <1>3, KeptAlone, Zenon DEF AloneInv
  <1>4. CASE Reconcile
    BY <1>3, <1>4, ReconcileTyped, Zenon DEF passFrame, dockerVars, ServersKept
  <1>5. CASE Crash
    <2>1. ctr' = ctr /\ job' = [p \in Procs |-> NoJob]
      BY <1>5, Zenon DEF Crash, dockerVars
    <2>2. \A q \in Procs : job'[q].op # "restore"
      BY <2>1, Zenon DEF NoJob
    <2> QED BY <2>1, <2>2, KeptAlone, Zenon DEF ServersKept
  <1>6. ASSUME NEW c \in Containers, ContainerExits(c) \/ DockerRestarts(c)
        PROVE  AloneInv'
    <2>1. /\ job' = job /\ c # NoContainer /\ Exists(c)
          /\ Restated(c, "exited") \/ Restated(c, "running")
      BY <1>6, OutageTyped DEF Exists, Containers, NoContainer
    <2> QED BY <1>3, <2>1, Zenon DEF ServersKept, ContainerStates
  <1>7. CASE UNCHANGED vars
    BY <1>3, <1>7, Zenon DEF vars, dockerVars, ServersKept
  <1> QED BY <1>1, <1>2, <1>4, <1>5, <1>6, <1>7, Zenon DEF Next

LEMMA InitAlone ==
    ASSUME Init
    PROVE  AloneInv
  <1>1. \A c \in Containers : ~Exists(c)
    BY Zenon DEF Init, Exists
  <1>2. \A q \in Procs : job[q].op # "restore"
    BY InitJob, Zenon
  <1> QED BY <1>1, <1>2, Zenon DEF AloneInv

\* Without restores two servers never run on one data directory, whatever fails
\* and however many handlers run at the same time: the fixed name lets only one
\* container exist.
THEOREM OneServerByName ==
    ASSUME "restore" \notin Ops
    PROVE  Spec => []OneServerPerVolume
  <1>1. AloneInv => OneServerPerVolume
    BY Zenon DEF AloneInv, OneServerPerVolume, Running, Exists
  <1>2. Init => Typed /\ AloneInv
    BY InitTyped, InitAlone, Zenon
  <1>3. Typed /\ AloneInv /\ [Next]_vars => (Typed /\ AloneInv)'
    BY NextTyped, NextAlone, Zenon
  <1> QED BY <1>1, <1>2, <1>3, PTL DEF Spec

===============================================================================
