------------------------- MODULE InstanceSerialProofs -------------------------
(***************************************************************************)
(* A proof outline of InstanceOps for one handler at a time: what exists in *)
(* Docker at every label, and the three promises that follow from it.       *)
(***************************************************************************)
EXTENDS InstanceProofs

-------------------------------------------------------------------------------
(* One handler at a time, and nothing but outages going wrong: what is in   *)
(* Docker at every label of every handler.                                  *)

\* All that exists in Docker: at most the containers c and d, on the volumes v
\* and w, and these volumes.
Only(c, v, d, w) ==
    /\ \A e \in Containers : Exists(e) =>
           (e = c /\ ctr[e].vol = v) \/ (e = d /\ ctr[e].vol = w)
    /\ \A u \in Volumes : vol[u] \in {"blank", "data"} => u = v \/ u = w
Just(c, v) == Only(c, v, c, v)
Nothing ==
    /\ \A e \in Containers : ~Exists(e)
    /\ \A u \in Volumes : vol[u] \in {"none", "gone"}

Present == row.status # "none"
Settled == IF Present THEN Just(row.cid, row.vol) ELSE Nothing

\* The row still names the container and volume that the handler's Get read.
Same(p) == /\ Present
           /\ job[p].inst.cid = row.cid /\ job[p].inst.vol = row.vol

\* A staging volume of the restore of p.
Apart(p) == job[p].vol # job[p].inst.vol /\ vol[job[p].vol] # "none"

\* The original server of a restore that gave up is back.
Revived(p) ==
    Exists(job[p].inst.cid) =>
        /\ ctr[job[p].inst.cid].st \in {"running", "exited"}
        /\ Same(p) /\ vol[job[p].vol] = "gone"

Provisioning(p) ==
    LET l == job[p].pc
        c == job[p].new
    IN  /\ l \in {"get", "volume", "create", "record", "start", "port",
                  "setPort", "ready", "done", "undo", "undoVolume", "fail"}
        /\ Present /\ row.vol = DefaultVolume
        /\ l \in {"get", "volume", "fail"} => Nothing
        /\ l \in {"create", "undoVolume"} => Just(NoContainer, DefaultVolume)
        /\ l \in {"record", "start", "port", "setPort", "ready", "done", "undo"}
              => Just(c, DefaultVolume)
        /\ l \in {"record", "start", "port", "setPort", "ready", "done"}
              => Exists(c)
        /\ l \in {"start", "port", "setPort", "ready", "done"} => row.cid = c

Cycling(p) == Settled /\ (job[p].pc # "get" => Same(p))

Destroying(p) ==
    LET l == job[p].pc
    IN  /\ l \in {"get", "mark", "container", "volume", "repo", "row"}
        /\ l \in {"get", "mark", "container"} => Settled
        /\ l = "volume" => Just(NoContainer, row.vol)
        /\ l \in {"repo", "row"} => Nothing
        /\ l # "get" => Same(p)

Restoring(p) ==
    LET l == job[p].pc
        j == job[p]
    IN  /\ l \in Untouched \cup
                   {"lock", "get", "dropOld", "dropVolume", "undoStop",
                    "undoPort", "undoRow", "fail", "done", "unlock"}
        /\ l \in {"lock", "get", "mark", "volume", "undoStop", "undoPort",
                  "undoRow", "fail", "done", "unlock"} => Settled
        /\ l \in (Untouched \ {"setVolume"}) \cup {"undoStop", "undoPort", "undoRow"}
              => Same(p)
        /\ l \in Staged \cup {"dropOld", "dropVolume"} => Apart(p)
        /\ l \in {"stop", "fill", "create", "undoVolume"} =>
              Only(j.inst.cid, j.inst.vol, NoContainer, j.vol)
        /\ l \in {"start", "ready", "commit", "setRuntime", "setVolume",
                  "dropOld", "undo"} =>
              /\ Only(j.inst.cid, j.inst.vol, j.new, j.vol)
              /\ j.new # j.inst.cid
        /\ l \in {"start", "ready", "commit", "setRuntime"} => Exists(j.new)
        /\ l = "dropVolume" => Only(NoContainer, j.inst.vol, j.new, j.vol)
        /\ l \in {"setVolume", "dropOld", "dropVolume"} =>
              Present /\ row.cid = j.new
        /\ l = "setVolume" => row.vol = j.inst.vol
        /\ l \in {"dropOld", "dropVolume"} => row.vol = j.vol
        /\ l = "undoStop" => vol[j.vol] = "gone"
        /\ l \in {"undoPort", "undoRow", "fail"} => Revived(p)
        /\ l \in {"undoPort", "undoRow"} => vol[j.vol] = "gone"

Flipping(p) ==
    LET l == job[p].pc
        j == job[p]
    IN  /\ l \in {"lock", "get", "setPublic", "stop", "dropOld", "create",
                  "record", "start", "ready", "port", "setPort", "done", "fail",
                  "unlock"}
        /\ l \notin {"create", "record"} => Settled
        /\ l \in {"setPublic", "stop", "dropOld", "create"} => Same(p)
        /\ l = "create" => Just(NoContainer, row.vol)
        /\ l = "record" => Just(j.new, row.vol) /\ Present
        /\ l \in {"record", "start"} => Exists(j.new)
        /\ l \in {"start", "ready", "port", "setPort"} =>
              Present /\ row.cid = j.new

Outline(p) ==
    /\ job[p].op = "none" => Settled
    /\ job[p].op = "provision" => Provisioning(p)
    /\ job[p].op \in {"start", "stop", "restart"} => Cycling(p)
    /\ job[p].op = "destroy" => Destroying(p)
    /\ job[p].op = "restore" => Restoring(p)
    /\ job[p].op = "visibility" => Flipping(p)

\* The row names what has existed, and is empty once deleted; a pass looks at
\* the row's own container.
Known ==
    /\ row.status = "none" => row = NoRow
    /\ row.cid # NoContainer => ctr[row.cid].st # "none"
    /\ row.vol # DefaultVolume => vol[row.vol] # "none"
PassInv ==
    /\ rec.pc \in {"one", "adopt", "status"} =>
           rec.info \in {NoContainer, row.cid}
    /\ rec.pc = "adopt" => rec.info # NoContainer
    /\ rec.pc \in {"idle", "scan"} => rec.info = NoContainer

SerialInv == Known /\ PassInv /\ \A p \in Procs : Outline(p)

\* One handler at a time, and no failures but those of Postgres.
Serial ==
    /\ \A p, q \in Procs : p = q
    /\ ~DBFaults /\ ~DockerFaults /\ ~Crashes

\* Docker holds what it held; the row names what it named.
DockerKept ==
    /\ \A e \in Containers : /\ Exists(e)' <=> Exists(e)
                             /\ ctr'[e].vol = ctr[e].vol
                             /\ ctr[e].st # "none" => ctr'[e].st # "none"
    /\ vol' = vol
RowKept ==
    /\ Present' <=> Present
    /\ row'.cid = row.cid /\ row'.vol = row.vol
    /\ ~Present' => row' = NoRow

LEMMA DockerKinds ==
    /\ ctr' = ctr /\ vol' = vol => DockerKept
    /\ \A c \in Containers : \A s \in ContainerStates \ {"none", "gone"} :
           Exists(c) /\ Restated(c, s) /\ vol' = vol => DockerKept
  <1>1. ctr' = ctr /\ vol' = vol => DockerKept
    BY Zenon DEF DockerKept, Exists
  <1>2. ASSUME NEW c \in Containers,
               NEW s \in ContainerStates \ {"none", "gone"},
               Exists(c), Restated(c, s), vol' = vol
        PROVE  DockerKept
    <2>1. ASSUME NEW e \in Containers
          PROVE  /\ Exists(e)' <=> Exists(e)
                 /\ ctr'[e].vol = ctr[e].vol
                 /\ ctr[e].st # "none" => ctr'[e].st # "none"
      BY <1>2, Zenon DEF Restated, Exists
    <2> QED BY <1>2, <2>1, Zenon DEF DockerKept
  <1> QED BY <1>1, <1>2, Zenon

\* In a serial run every call that can succeed does.
LEMMA SerialCalls ==
    ASSUME Serial, Known
    PROVE  /\ Missing <=> ~Present
           /\ row = NoRow <=> ~Present
           /\ \A b \in BOOLEAN : Refused(b) <=> ~b
  BY DEF Serial, Known, Missing, Present, Refused, NoRow

\* A status, and a container id, written to the row.
LEMMA SerialStatus ==
    ASSUME Serial, Known, Typed, NEW p \in Procs, NEW s \in Statuses, NEW l,
           Writes(p, SetStatus(s), l)
    PROVE  /\ RowKept /\ DockerKept /\ Known' /\ Went(p, l)
           /\ rec' = rec /\ ctr' = ctr
  <1>1. /\ OnRow /\ Went(p, l)
        /\ (row # NoRow /\ row' = SetStatus(s)) \/ (row = NoRow /\ row' = row)
    BY WritesDoes, SerialCalls, Zenon
  <1>2. RowKept
    <2>1. CASE row # NoRow /\ row' = SetStatus(s)
      BY <2>1, RowUpdates, SerialCalls DEF RowKept, Present, Typed, Shape, Statuses
    <2>2. CASE row = NoRow /\ row' = row
      BY <2>2, Zenon DEF RowKept, Present
    <2> QED BY <1>1, <2>1, <2>2, Zenon
  <1>3. Known'
    BY <1>1, <1>2, Zenon DEF Known, RowKept, Present, OnRow
  <1>4. DockerKept
    BY <1>1, DockerKinds, Zenon DEF OnRow
  <1> QED BY <1>1, <1>2, <1>3, <1>4, Zenon DEF OnRow

LEMMA SerialRuntime ==
    ASSUME Serial, Known, Typed, Present, NEW p \in Procs, NEW c \in Ids, NEW l,
           Writes(p, SetRuntime(c), l),
           c # NoContainer => ctr[c].st # "none"
    PROVE  /\ Present' /\ row'.cid = c /\ row'.vol = row.vol
           /\ DockerKept /\ Known' /\ Went(p, l) /\ rec' = rec /\ ctr' = ctr
  <1>1. OnRow /\ Went(p, l) /\ row' = SetRuntime(c)
    BY WritesDoes, SerialCalls, Zenon
  <1>2. Present' /\ row'.cid = c /\ row'.vol = row.vol
    BY <1>1, RowUpdates DEF Present, Typed, Shape
  <1>3. Known'
    BY <1>1, <1>2, Zenon DEF Known, Present, OnRow
  <1>4. DockerKept
    BY <1>1, DockerKinds, Zenon DEF OnRow
  <1> QED BY <1>1, <1>2, <1>3, <1>4, Zenon DEF OnRow

\* What is settled stays settled.
LEMMA KeptSettled ==
    ASSUME DockerKept, RowKept
    PROVE  /\ Nothing => Nothing'
           /\ Settled => Settled'
  BY Zenon DEF DockerKept, RowKept, Nothing, Settled, Just, Only

LEMMA KeptKnown ==
    ASSUME Typed, Known, DockerKept, row' = row
    PROVE  Known' /\ RowKept
  BY Zenon DEF Known, RowKept, DockerKept, Present, Typed, Shape, Rows

\* Docker never forgets that a container or a volume has existed.
Remembers ==
    /\ \A e \in Containers : ctr[e].st # "none" => ctr'[e].st # "none"
    /\ \A v \in Volumes : vol[v] # "none" => vol'[v] # "none"

LEMMA RemembersKnown ==
    ASSUME Typed, Known, row' = row, Remembers
    PROVE  Known'
  <1>1. row.cid \in Containers \cup {NoContainer} /\ row.vol \in Volumes
    BY Zenon DEF Typed, Shape, Rows
  <1> QED BY <1>1, Zenon DEF Known, Remembers

\* Once one of the two containers is removed the other is left.
LEMMA OneLess ==
    ASSUME NEW c \in Ids, NEW v, NEW d \in Ids, NEW w, NEW g, Only(c, v, d, w),
           vol' = vol,
           (Exists(g) /\ Restated(g, "gone")) \/ (~Exists(g) /\ ctr' = ctr)
    PROVE  /\ g = c => Only(NoContainer, v, d, w)'
           /\ g = d => Only(c, v, NoContainer, w)'
  <1>1. ASSUME NEW e \in Containers, Exists(e)'
        PROVE  /\ e # g
               /\ (e = c /\ ctr'[e].vol = v) \/ (e = d /\ ctr'[e].vol = w)
    <2>1. e # g /\ ctr'[e] = ctr[e]
      BY <1>1, Zenon DEF Exists, Restated
    <2> QED BY <1>1, <2>1, Zenon DEF Only, Exists
  <1>2. \A u \in Volumes : vol'[u] \in {"blank", "data"} => u = v \/ u = w
    BY Zenon DEF Only
  <1> QED BY <1>1, <1>2, Zenon DEF Only

\* Provision.
LEMMA SerialProvision ==
    ASSUME Serial, Typed, Known, NEW p \in Procs, job[p].op = "provision",
           Provisioning(p), Provision(p)
    PROVE  Known' /\ Outline(p)'
  <1> USE DEF At
  <1>0. /\ row \in Rows /\ job[p].new \in Ids /\ DefaultVolume \in Volumes
        /\ Present /\ row.vol = DefaultVolume
    BY Blank, Zenon DEF Typed, Shape, Jobs, Provisioning
  <1>1. ASSUME Known', Provisioning(p)', NEW l, Went(p, l), l # "return"
        PROVE  Known' /\ Outline(p)'
    BY <1>1, Zenon DEF Went, Outline
  <1>2. ASSUME Known', Settled', Went(p, "return")
        PROVE  Known' /\ Outline(p)'
    BY <1>2 DEF Went, Outline, NoJob
  <1>3. CASE ProvisionGet(p)
    <2>1. ctr' = ctr /\ vol' = vol /\ row' = row
      BY <1>3, Frames, Zenon DEF ProvisionGet, OnRow
    <2>2. Took(p, row, "volume") /\ job[p].pc = "get"
      BY <1>0, <1>3, TakesDoes, SerialCalls, Zenon DEF ProvisionGet, Serial
    <2>3. Known' /\ RowKept /\ DockerKept
      BY <2>1, KeptKnown, DockerKinds, Zenon
    <2>4. Nothing'
      BY <2>2, <2>3, KeptSettled, Zenon DEF Provisioning
    <2>5. Provisioning(p)'
      BY <1>0, <2>2, <2>3, <2>4, Zenon DEF Provisioning, Took, RowKept
    <2> QED BY <2>2, <2>3, <2>5, Zenon DEF Outline, Took
  <1>4. CASE ProvisionVolume(p)
    <2>1. /\ InDocker /\ ctr' = ctr /\ Mounted(DefaultVolume)
          /\ Went(p, "create") /\ job[p].pc = "volume"
      BY <1>0, <1>4, Frames, VolumeUpdates, GotoDoes, Zenon
      DEF ProvisionVolume, Mounted, Typed, Shape, Serial
    <2>2. Known'
      BY <2>1, RemembersKnown, Zenon DEF InDocker, Mounted, Remembers
    <2>3. Just(NoContainer, DefaultVolume)'
      BY <1>0, <2>1, Zenon
      DEF Provisioning, Nothing, Just, Only, Exists, Mounted
    <2>4. Provisioning(p)'
      BY <1>0, <2>1, <2>3, Zenon DEF Provisioning, Went, InDocker, Present
    <2> QED BY <1>1, <2>1, <2>2, <2>4, Zenon
  <1>5. CASE ProvisionCreate(p)
    <2>1. /\ InDocker /\ Mounted(DefaultVolume) /\ job[p].pc = "create"
          /\ \E c \in Containers : Made(p, c, DefaultVolume, TRUE, "record")
      <3>1. \A c \in Containers : ~Exists(c)
        BY <1>5, Zenon
        DEF ProvisionCreate, Provisioning, Just, Only, NoContainer, Exists
      <3>2. NameFree
        BY <3>1, Zenon DEF NameFree, Existing
      <3> QED
          BY <1>0, <1>5, <3>2, CreatesDoes, Zenon
          DEF ProvisionCreate, Serial, Refused
    <2>2. PICK c \in Containers : Made(p, c, DefaultVolume, TRUE, "record")
      BY <2>1, Zenon
    <2>3. Known'
      BY <2>1, <2>2, RemembersKnown DEF InDocker, Made, Mounted, Remembers
    <2>4. Exists(c)' /\ Just(c, DefaultVolume)'
      BY <1>0, <2>1, <2>2
      DEF Provisioning, Just, Only, Exists, Mounted, Made, Containers, NoContainer
    <2>5. Provisioning(p)'
      BY <1>0, <2>1, <2>2, <2>4, Zenon DEF Provisioning, Made, InDocker, Present
    <2> QED BY <2>2, <2>3, <2>5, Zenon DEF Outline, Made
  \* What holds while the new container is there.
  <1>6. ASSUME DockerKept, Present', row'.vol = row.vol, row'.cid = job[p].new,
               job[p].pc \in {"record", "start", "port", "setPort", "ready"},
               NEW l \in {"start", "port", "setPort", "ready", "done", "undo"},
               Went(p, l)
        PROVE  Provisioning(p)'
    <2>1. /\ Just(job[p].new, DefaultVolume) /\ Exists(job[p].new)
          /\ job[p].new \in Containers /\ job'[p].new = job[p].new
          /\ job'[p].pc = l
      BY <1>0, <1>6, Zenon DEF Provisioning, Exists, Ids, Went
    <2>2. Just(job[p].new, DefaultVolume)' /\ Exists(job[p].new)'
      BY <1>6, <2>1, Zenon DEF Just, Only, DockerKept
    <2> QED BY <1>0, <1>6, <2>1, <2>2, Zenon DEF Provisioning
  <1>7. CASE ProvisionRecord(p)
    <2>1. /\ Writes(p, SetRuntime(job[p].new), "start") /\ job[p].pc = "record"
          /\ ctr[job[p].new].st # "none"
      BY <1>7, Zenon DEF ProvisionRecord, Provisioning, Exists
    <2>2. /\ Present' /\ row'.cid = job[p].new /\ row'.vol = row.vol
          /\ DockerKept /\ Known' /\ Went(p, "start")
      BY <1>0, <2>1, SerialRuntime, Zenon
    <2> QED BY <1>1, <1>6, <2>1, <2>2, Zenon
  <1>8. CASE ProvisionStart(p)
    <2>1. /\ Starts(p, job[p].new, "port", "undo") /\ job[p].pc = "start"
          /\ Exists(job[p].new) /\ job[p].new \in Containers
          /\ row.cid = job[p].new
      BY <1>0, <1>8, Zenon DEF ProvisionStart, Provisioning, Exists, Ids
    <2>2. /\ InDocker /\ vol' = vol /\ Restated(job[p].new, "running")
          /\ Went(p, "port")
      BY <1>0, <2>1, StartsDoes, Zenon DEF Serial, Refused
    <2>3. DockerKept /\ row' = row
      BY <2>1, <2>2, DockerKinds, Zenon DEF InDocker, ContainerStates
    <2>4. Known' /\ RowKept
      BY <2>3, KeptKnown, Zenon
    <2> QED BY <1>0, <1>1, <1>6, <2>1, <2>2, <2>3, <2>4, Zenon DEF RowKept
  <1>9. CASE ProvisionInspect(p)
    <2>1. /\ Execs(p, job[p].new, "setPort", "undo") /\ job[p].pc = "port"
          /\ row.cid = job[p].new
      BY <1>9, Zenon DEF ProvisionInspect, Provisioning
    <2>2. /\ row' = row /\ vol' = vol /\ ctr' = ctr
          /\ Went(p, "setPort") \/ Went(p, "undo")
      BY <2>1, ExecsDoes, Zenon DEF InDocker
    <2>3. DockerKept /\ Known' /\ RowKept
      BY <2>2, DockerKinds, KeptKnown, Zenon
    <2> QED BY <1>0, <1>1, <1>6, <2>1, <2>2, <2>3, Zenon DEF RowKept
  <1>10. CASE ProvisionPort(p)
    <2>1. /\ job[p].pc = "setPort" /\ Goto(p, "ready")
          /\ row' = SetRuntime(job[p].new) /\ OnRow
          /\ row.cid = job[p].new
      BY <1>0, <1>10, SerialCalls, Frames, Zenon
      DEF ProvisionPort, Provisioning, Written
    <2>2. Present' /\ row'.cid = job[p].new /\ row'.vol = row.vol
      BY <1>0, <2>1, RowUpdates DEF Present
    <2>3. DockerKept /\ Went(p, "ready")
      BY <2>1, DockerKinds, GotoDoes, Zenon DEF OnRow, Typed
    <2>4. Known'
      BY <2>1, <2>2, Zenon DEF Known, OnRow, Present
    <2> QED BY <1>1, <1>6, <2>1, <2>2, <2>3, <2>4, Zenon
  <1>11. CASE ProvisionReady(p)
    <2>1. /\ job[p].pc = "ready" /\ row' = row /\ ctr' = ctr
          /\ row.cid = job[p].new
      BY <1>11, Zenon DEF ProvisionReady, Provisioning
    <2>2. CASE UNCHANGED vol /\ Goto(p, "undo")
      <3>1. DockerKept /\ Known' /\ RowKept /\ Went(p, "undo")
        BY <2>1, <2>2, DockerKinds, KeptKnown, GotoDoes, Zenon DEF Typed
      <3> QED BY <1>0, <1>1, <1>6, <2>1, <3>1, Zenon DEF RowKept
    <2>3. CASE /\ vol' = [vol EXCEPT ![DefaultVolume] = "data"]
               /\ Goto(p, "done")
      <3>1. Went(p, "done")
        BY <2>3, GotoDoes, Zenon DEF Typed
      <3>2. \A v \in Volumes \ {DefaultVolume} : vol'[v] = vol[v]
        BY <2>3, Zenon DEF Typed, Shape
      <3>3. Known'
        BY <1>0, <2>1, Zenon DEF Known
      <3>4. Just(job[p].new, DefaultVolume)' /\ Exists(job[p].new)'
        <4>1. Just(job[p].new, DefaultVolume) /\ Exists(job[p].new)
          BY <2>1, Zenon DEF Provisioning
        <4>2. job'[p].new = job[p].new
          BY <3>1, Zenon DEF Went
        <4> QED BY <2>1, <3>2, <4>1, <4>2, Zenon DEF Just, Only, Exists
      <3>5. Provisioning(p)'
        BY <1>0, <2>1, <3>1, <3>4, Zenon DEF Provisioning, Went, Present
      <3> QED BY <1>1, <3>1, <3>3, <3>5, Zenon
    <2> QED BY <1>11, <2>2, <2>3, Zenon DEF ProvisionReady
  <1>12. CASE ProvisionDone(p)
    <2>1. Writes(p, SetStatus("running"), "return") /\ job[p].pc = "done"
      BY <1>12, Zenon DEF ProvisionDone
    <2>2. RowKept /\ DockerKept /\ Known' /\ Went(p, "return")
      BY <2>1, SerialStatus, Zenon DEF Statuses
    <2>3. Settled
      BY <1>0, <2>1, Zenon DEF Provisioning, Settled
    <2> QED BY <1>2, <2>2, <2>3, KeptSettled, Zenon
  <1>13. CASE ProvisionUndo(p)
    <2>1. Removes(p, job[p].new, "undoVolume") /\ job[p].pc = "undo"
      BY <1>13, Zenon DEF ProvisionUndo
    <2>2. /\ InDocker /\ vol' = vol /\ Went(p, "undoVolume")
          /\ \/ Exists(job[p].new) /\ Restated(job[p].new, "gone")
             \/ ~Exists(job[p].new) /\ ctr' = ctr
      BY <1>0, <2>1, RemovesDoes, Zenon DEF Serial, Refused
    <2>3. Known'
      BY <2>2, RemembersKnown, Zenon DEF InDocker, Restated, Remembers
    <2>4. Just(job[p].new, DefaultVolume)
      BY <2>1, Zenon DEF Provisioning
    <2>5. Just(NoContainer, DefaultVolume)'
      BY <2>2, <2>4, Zenon DEF Just, Only, Exists, Restated
    <2>6. Provisioning(p)'
      BY <1>0, <2>2, <2>5, Zenon DEF Provisioning, Went, InDocker, Present
    <2> QED BY <1>1, <2>2, <2>3, <2>6, Zenon
  <1>14. CASE ProvisionUndoVolume(p)
    <2>1. /\ RemovesVolume(p, DefaultVolume, "fail", "fail")
          /\ Just(NoContainer, DefaultVolume)
      BY <1>14, Zenon DEF ProvisionUndoVolume, Provisioning
    <2>2. \A e \in Containers : ~Exists(e)
      BY <2>1, Zenon DEF Just, Only, Exists
    <2>3. ~InUse(DefaultVolume)
      BY <2>2, Zenon DEF InUse, Existing
    <2>4. InDocker /\ ctr' = ctr /\ Dropped(DefaultVolume) /\ Went(p, "fail")
      BY <1>0, <2>1, <2>3, RemovesVolumeDoes, Zenon DEF Serial, Refused
    <2>5. Known'
      BY <2>4, RemembersKnown, Zenon DEF InDocker, Dropped, Remembers
    <2>6. Nothing'
      BY <2>1, <2>2, <2>4, Zenon
      DEF Just, Only, Nothing, Dropped, Exists, Typed, Shape
    <2>7. Provisioning(p)'
      BY <1>0, <2>4, <2>6, Zenon DEF Provisioning, Went, InDocker, Present
    <2> QED BY <1>1, <2>4, <2>5, <2>7, Zenon
  <1>15. CASE ProvisionFail(p)
    <2>1. Writes(p, SetStatus("error"), "return") /\ job[p].pc = "fail"
      BY <1>15, Zenon DEF ProvisionFail
    <2>2. RowKept /\ DockerKept /\ Known' /\ Went(p, "return")
      BY <2>1, SerialStatus, Zenon DEF Statuses
    <2>3. Settled
      BY <2>1, Zenon DEF Provisioning, Settled, Nothing, Just, Only
    <2> QED BY <1>2, <2>2, <2>3, KeptSettled, Zenon
  <1> QED
      BY <1>3, <1>4, <1>5, <1>7, <1>8, <1>9, <1>10, <1>11, <1>12, <1>13,
         <1>14, <1>15, Zenon DEF Provision

\* Start, Stop and Restart.
LEMMA SerialLifecycle ==
    ASSUME Serial, Typed, Known, NEW p \in Procs,
           job[p].op \in {"start", "stop", "restart"}, Cycling(p), Lifecycle(p)
    PROVE  Known' /\ Outline(p)'
  <1> USE DEF At
  <1>0. row \in Rows /\ job[p].inst.cid \in Ids /\ Settled
    BY Zenon DEF Typed, Shape, Jobs, Rows, Ids, Cycling
  \* All but Get leave the row and Docker as they are.
  <1>1. ASSUME DockerKept, RowKept, Known', job[p].pc # "get",
               NEW l, Went(p, l)
        PROVE  Known' /\ Outline(p)'
    <2>1. Settled' /\ Same(p)
      BY <1>0, <1>1, KeptSettled, Zenon DEF Cycling
    <2>2. CASE l = "return"
      BY <1>1, <2>1, <2>2 DEF Went, NoJob, Outline
    <2>3. CASE l # "return"
      <3>1. /\ job'[p].op \in {"start", "stop", "restart"}
            /\ job'[p].inst = job[p].inst
        BY <1>1, <2>3, Zenon DEF Went
      <3>2. Same(p)'
        BY <1>1, <2>1, <3>1, Zenon DEF Same, RowKept
      <3> QED BY <1>1, <2>1, <3>1, <3>2, Zenon DEF Outline, Cycling
    <2> QED BY <2>2, <2>3, Zenon
  <1>2. ASSUME ctr' = ctr, vol' = vol, row' = row
        PROVE  DockerKept /\ RowKept /\ Known'
    BY <1>2, DockerKinds, KeptKnown, Zenon
  <1>3. CASE LifecycleGet(p)
    <2>1. /\ OnRow /\ row' = row
          /\ (row # NoRow /\ Took(p, row, "call")) \/ Went(p, "return")
      BY <1>3, GetsDoes, Zenon DEF LifecycleGet
    <2>2. DockerKept /\ RowKept /\ Known' /\ Settled'
      BY <1>0, <1>2, <2>1, KeptSettled, Zenon DEF OnRow
    <2>3. CASE Went(p, "return")
      BY <2>2, <2>3 DEF Went, NoJob, Outline
    <2>4. CASE row # NoRow /\ Took(p, row, "call")
      <3>1. Present
        BY <2>4, SerialCalls, Zenon
      <3>2. /\ job'[p].op \in {"start", "stop", "restart"}
            /\ job'[p].inst = row
        BY <2>4, Zenon DEF Took
      <3>3. Same(p)'
        BY <2>1, <3>1, <3>2, Zenon DEF Same, Present
      <3> QED BY <2>2, <3>2, <3>3, Zenon DEF Outline, Cycling
    <2> QED BY <2>1, <2>3, <2>4, Zenon
  <1>4. CASE StartCall(p)
    <2>1. /\ InDocker /\ vol' = vol /\ job[p].pc = "call"
          /\ \/ /\ Exists(job[p].inst.cid) /\ Went(p, "refresh")
                /\ Restated(job[p].inst.cid, "running")
             \/ ctr' = ctr /\ Went(p, "return")
      BY <1>0, <1>4, StartsDoes, Zenon DEF StartCall
    <2>2. DockerKept /\ row' = row
      BY <1>0, <2>1, DockerKinds, Zenon
      DEF InDocker, ContainerStates, Exists, Ids
    <2> QED BY <1>1, <2>1, <2>2, KeptKnown, Zenon
  <1>5. CASE StartInspect(p)
    <2>1. /\ InDocker /\ ctr' = ctr /\ vol' = vol /\ job[p].pc = "refresh"
          /\ Went(p, "port") \/ Went(p, "done")
      BY <1>5, ExecsDoes, Zenon DEF StartInspect
    <2> QED BY <1>1, <1>2, <2>1, Zenon DEF InDocker
  <1>6. CASE StartRefresh(p)
    <2>1. /\ Writes(p, SetRuntime(job[p].inst.cid), "done")
          /\ job[p].pc = "port" /\ Same(p)
      BY <1>6, Zenon DEF StartRefresh, Cycling
    <2>2. /\ Present' /\ row'.cid = row.cid /\ row'.vol = row.vol
          /\ DockerKept /\ Known' /\ Went(p, "done")
      BY <1>0, <2>1, SerialRuntime, Zenon DEF Same, Known
    <2> QED BY <1>1, <2>1, <2>2, Zenon DEF RowKept, Same
  <1>7. CASE StartDone(p)
    <2>1. Writes(p, SetStatus("running"), "return") /\ job[p].pc = "done"
      BY <1>7, Zenon DEF StartDone
    <2> QED BY <1>1, <2>1, SerialStatus, Zenon DEF Statuses
  <1>8. CASE StopCall(p)
    <2>1. /\ InDocker /\ vol' = vol /\ job[p].pc = "call"
          /\ \/ /\ Exists(job[p].inst.cid) /\ Went(p, "done")
                /\ \E s \in {"created", "stopped"} :
                       Restated(job[p].inst.cid, s)
             \/ ctr' = ctr /\ Went(p, "return")
      BY <1>0, <1>8, StopsDoes, Zenon DEF StopCall
    <2>2. DockerKept /\ row' = row
      BY <1>0, <2>1, DockerKinds, Zenon
      DEF InDocker, ContainerStates, Exists, Ids
    <2> QED BY <1>1, <2>1, <2>2, KeptKnown, Zenon
  <1>9. CASE StopDone(p)
    <2>1. /\ OnRow /\ row' = SetStatus("stopped") /\ job[p].pc = "done"
          /\ \/ Goto(p, "return")
             \/ job' = [job EXCEPT ![p].op = "start", ![p].pc = "get"]
      <3>1. Present /\ job[p].pc = "done"
        BY <1>9, Zenon DEF StopDone, Cycling, Same
      <3> QED BY <1>9, <3>1, SerialCalls, Frames, Zenon DEF StopDone, Written
    <2>2. Present /\ row'.cid = row.cid /\ row'.vol = row.vol /\ Present'
      BY <1>0, <2>1, RowUpdates DEF Present, Cycling, Same
    <2>3. DockerKept /\ RowKept /\ Known'
      BY <2>1, <2>2, DockerKinds, Zenon DEF RowKept, OnRow, Known, Present
    <2>4. CASE Goto(p, "return")
      BY <1>1, <2>1, <2>3, <2>4, GotoDoes, Zenon DEF Typed
    <2>5. CASE job' = [job EXCEPT ![p].op = "start", ![p].pc = "get"]
      <3>1. job'[p].op = "start" /\ job'[p].pc = "get"
        BY <2>5, RestartDoes, Zenon
      <3>2. Settled'
        BY <1>0, <2>3, KeptSettled, Zenon
      <3> QED BY <2>3, <3>1, <3>2, Zenon DEF Outline, Cycling
    <2> QED BY <2>1, <2>4, <2>5, Zenon
  <1> QED BY <1>3, <1>4, <1>5, <1>6, <1>7, <1>8, <1>9, Zenon DEF Lifecycle

\* Destroy.
LEMMA SerialDestroy ==
    ASSUME Serial, Typed, Known, NEW p \in Procs, job[p].op = "destroy",
           Destroying(p), Destroy(p)
    PROVE  Known' /\ Outline(p)'
  <1> USE DEF At
  <1>0. /\ row \in Rows /\ job[p].inst.cid \in Ids
        /\ job[p].inst.vol \in Volumes
    BY Zenon DEF Typed, Shape, Jobs, Rows, Ids
  <1>1. ASSUME Known', Destroying(p)', job'[p].op = "destroy"
        PROVE  Known' /\ Outline(p)'
    BY <1>1, Zenon DEF Outline
  <1>2. ASSUME Known', Settled', Went(p, "return")
        PROVE  Known' /\ Outline(p)'
    BY <1>2 DEF Went, Outline, NoJob
  <1>3. ASSUME RowKept, Same(p), NEW l, l # "return", Went(p, l)
        PROVE  Same(p)' /\ job'[p].op = "destroy" /\ job'[p].pc = l
    BY <1>3, Zenon DEF Same, RowKept, Went
  <1>4. CASE DestroyGet(p)
    <2>1. /\ OnRow /\ row' = row /\ Settled
          /\ (row # NoRow /\ Took(p, row, "mark")) \/ Went(p, "return")
      BY <1>4, GetsDoes, Zenon DEF DestroyGet, Destroying
    <2>2. DockerKept /\ RowKept /\ Known' /\ Settled'
      BY <2>1, DockerKinds, KeptKnown, KeptSettled, Zenon DEF OnRow
    <2>3. CASE Went(p, "return")
      BY <1>2, <2>2, <2>3, Zenon
    <2>4. CASE row # NoRow /\ Took(p, row, "mark")
      <3>1. /\ job'[p].op = "destroy" /\ job'[p].inst = row
            /\ job'[p].pc = "mark"
        BY <2>4, Zenon DEF Took
      <3>2. Same(p)'
        BY <2>1, <2>4, <3>1, SerialCalls, Zenon DEF Same, Present
      <3>3. Destroying(p)'
        BY <2>2, <3>1, <3>2, Zenon DEF Destroying
      <3> QED BY <1>1, <2>2, <3>1, <3>3, Zenon
    <2> QED BY <2>1, <2>3, <2>4, Zenon
  <1>5. CASE DestroyMark(p)
    <2>1. /\ Writes(p, SetStatus("destroying"), "container")
          /\ Settled /\ Same(p)
      BY <1>5, Zenon DEF DestroyMark, Destroying
    <2>2. RowKept /\ DockerKept /\ Known' /\ Went(p, "container")
      BY <2>1, SerialStatus, Zenon DEF Statuses
    <2>3. Settled'
      BY <2>1, <2>2, KeptSettled, Zenon
    <2>4. Same(p)' /\ job'[p].op = "destroy" /\ job'[p].pc = "container"
      BY <1>3, <2>1, <2>2, Zenon
    <2>5. Destroying(p)'
      BY <2>3, <2>4, Zenon DEF Destroying
    <2> QED BY <1>1, <2>2, <2>4, <2>5, Zenon
  <1>6. CASE DestroyContainer(p)
    <2>1. Settled /\ Same(p) /\ row' = row /\ vol' = vol
      BY <1>6, Frames, Zenon DEF DestroyContainer, Destroying, InDocker
    <2>2. Went(p, "volume")
      BY <1>6, GotoDoes, Zenon DEF DestroyContainer, Serial, Typed
    <2>3. \/ Exists(row.cid) /\ Restated(row.cid, "gone")
          \/ ~Exists(row.cid) /\ ctr' = ctr
      BY <1>0, <1>6, <2>1, ContainerUpdates, Zenon
      DEF DestroyContainer, Serial, Same, Exists, Ids, Typed, Shape
    <2>4. Just(row.cid, row.vol)
      BY <2>1, Zenon DEF Settled, Same
    <2>5. Just(NoContainer, row.vol)'
      BY <2>1, <2>3, <2>4, Zenon DEF Just, Only, Exists, Restated
    <2>6. Known'
      BY <2>1, <2>3, RemembersKnown, Zenon DEF Remembers, Restated
    <2>7. RowKept
      BY <2>1, <2>6, Zenon DEF RowKept, Present, Known
    <2>8. Same(p)' /\ job'[p].op = "destroy" /\ job'[p].pc = "volume"
      BY <1>3, <2>1, <2>2, <2>7, Zenon
    <2>9. Destroying(p)'
      BY <2>5, <2>8, Zenon DEF Destroying
    <2> QED BY <1>1, <2>6, <2>8, <2>9, Zenon
  <1>7. CASE DestroyVolume(p)
    <2>1. /\ RemovesVolume(p, job[p].inst.vol, "repo", "fail")
          /\ Same(p) /\ Just(NoContainer, row.vol)
      BY <1>7, Zenon DEF DestroyVolume, Destroying
    <2>2. \A e \in Containers : ~Exists(e)
      BY <2>1, Zenon DEF Just, Only, Exists
    <2>3. ~InUse(job[p].inst.vol)
      BY <2>2, Zenon DEF InUse, Existing
    <2>4. InDocker /\ ctr' = ctr /\ Dropped(row.vol) /\ Went(p, "repo")
      BY <1>0, <2>1, <2>3, RemovesVolumeDoes, Zenon DEF Serial, Refused, Same
    <2>5. Known'
      BY <2>4, RemembersKnown, Zenon DEF InDocker, Dropped, Remembers
    <2>6. Nothing'
      BY <2>1, <2>2, <2>4, Zenon
      DEF Just, Only, Nothing, Dropped, Exists, Typed, Shape
    <2>7. RowKept
      BY <2>4, <2>5, Zenon DEF RowKept, Present, Known, InDocker
    <2>8. Same(p)' /\ job'[p].op = "destroy" /\ job'[p].pc = "repo"
      BY <1>3, <2>1, <2>4, <2>7, Zenon
    <2>9. Destroying(p)'
      BY <2>6, <2>8, Zenon DEF Destroying
    <2> QED BY <1>1, <2>5, <2>8, <2>9, Zenon
  <1>8. CASE DestroyRepo(p)
    <2>1. Same(p) /\ Nothing /\ ctr' = ctr /\ vol' = vol /\ row' = row
      BY <1>8, Frames, Zenon DEF DestroyRepo, Destroying, InDocker, dockerVars
    <2>2. Existing = {}
      BY <2>1, Zenon DEF Nothing, Existing
    <2>3. Went(p, "row")
      BY <1>8, <2>2, GotoDoes, Zenon DEF DestroyRepo, Serial, Refused, Typed
    <2>4. DockerKept /\ RowKept /\ Known' /\ Nothing'
      BY <2>1, DockerKinds, KeptKnown, KeptSettled, Zenon
    <2>5. Same(p)' /\ job'[p].op = "destroy" /\ job'[p].pc = "row"
      BY <1>3, <2>1, <2>3, <2>4, Zenon
    <2>6. Destroying(p)'
      BY <2>4, <2>5, Zenon DEF Destroying
    <2> QED BY <1>1, <2>4, <2>5, <2>6, Zenon
  <1>9. CASE DestroyRow(p)
    <2>1. Writes(p, NoRow, "return") /\ Same(p) /\ Nothing
      BY <1>9, Zenon DEF DestroyRow, Destroying
    <2>2. OnRow /\ Went(p, "return") /\ row' = NoRow
      BY <2>1, WritesDoes, SerialCalls, Zenon DEF Same
    <2>3. Known'
      BY <2>2, Zenon DEF Known, NoRow
    <2>4. Settled'
      BY <2>1, <2>2, Zenon DEF Settled, Present, NoRow, Nothing, OnRow, Exists
    <2> QED BY <1>2, <2>2, <2>3, <2>4, Zenon
  <1>10. ~DestroyFail(p)
    BY Zenon DEF DestroyFail, Destroying
  <1> QED BY <1>4, <1>5, <1>6, <1>7, <1>8, <1>9, <1>10, Zenon DEF Destroy

\* SetVisibility.
LEMMA SerialVisibility ==
    ASSUME Serial, Typed, Known, NEW p \in Procs, job[p].op = "visibility",
           Flipping(p), Visibility(p)
    PROVE  Known' /\ Outline(p)'
  <1> USE DEF At
  <1>0. /\ row \in Rows /\ job[p].inst.cid \in Ids /\ job[p].new \in Ids
        /\ job[p].inst.vol \in Volumes /\ job[p].want \in BOOLEAN
    BY Zenon DEF Typed, Shape, Jobs, Rows, Ids
  <1>1. ASSUME Known', Flipping(p)', job'[p].op = "visibility"
        PROVE  Known' /\ Outline(p)'
    BY <1>1, Zenon DEF Outline
  <1>2. ASSUME Known', Settled', NEW l \in {"done", "fail", "unlock"},
               Went(p, l)
        PROVE  Known' /\ Outline(p)'
    <2>1. job'[p].op = "visibility" /\ job'[p].pc = l
      BY <1>2, Zenon DEF Went
    <2>2. Flipping(p)'
      BY <1>2, <2>1, Zenon DEF Flipping
    <2> QED BY <1>1, <1>2, <2>1, <2>2, Zenon
  <1>3. ASSUME Known', RowKept, Settled', Same(p), Went(p, "stop") \/ Went(p, "dropOld")
        PROVE  Known' /\ Outline(p)'
    <2>1. /\ job'[p].op = "visibility" /\ job'[p].pc \in {"stop", "dropOld"}
          /\ job'[p].inst = job[p].inst
      BY <1>3, Zenon DEF Went
    <2>2. Same(p)'
      BY <1>3, <2>1, Zenon DEF Same, RowKept
    <2>3. Flipping(p)'
      BY <1>3, <2>1, <2>2, Zenon DEF Flipping
    <2> QED BY <1>1, <1>3, <2>1, <2>3, Zenon
  <1>4. CASE VisibilityGet(p)
    <2>1. ctr' = ctr /\ vol' = vol /\ row' = row /\ Settled
      BY <1>4, Frames, Zenon DEF VisibilityGet, OnRow, Flipping
    <2>2. DockerKept /\ RowKept /\ Known' /\ Settled'
      BY <2>1, DockerKinds, KeptKnown, KeptSettled, Zenon
    <2>3. CASE Goto(p, "unlock")
      BY <1>2, <2>2, <2>3, GotoDoes, Zenon DEF Typed
    <2>4. CASE /\ row.status \in {"running", "stopped"}
               /\ job' = [job EXCEPT
                              ![p].inst = [row EXCEPT !.public = job[p].want],
                              ![p].pc = "setPublic"]
      <3>1. Took(p, SetPublic(job[p].want), "setPublic")
        BY <2>4, TakesDoes, Zenon DEF SetPublic
      <3>2. /\ job'[p].op = "visibility" /\ job'[p].pc = "setPublic"
            /\ job'[p].inst.cid = row.cid /\ job'[p].inst.vol = row.vol
        BY <1>0, <3>1, RowUpdates DEF Took
      <3>3. Same(p)'
        BY <2>1, <2>4, <3>2, Zenon DEF Same, Present
      <3>4. Flipping(p)'
        BY <2>2, <3>2, <3>3, Zenon DEF Flipping
      <3> QED BY <1>1, <2>2, <3>2, <3>4, Zenon
    <2> QED BY <1>4, <2>3, <2>4, Zenon DEF VisibilityGet
  <1>5. CASE VisibilitySetPublic(p)
    <2>1. Settled /\ Same(p) /\ Present /\ OnRow
      BY <1>5, Frames, Zenon DEF VisibilitySetPublic, Flipping, Same
    <2>2. /\ row' = SetPublic(job[p].want)
          /\ Went(p, "stop") \/ Went(p, "unlock")
      BY <1>5, <2>1, SerialCalls, GotoDoes, Zenon
      DEF VisibilitySetPublic, Written, Typed
    <2>3. row'.status = row.status /\ row'.cid = row.cid /\ row'.vol = row.vol
      BY <1>0, <2>2, RowUpdates
    <2>4. RowKept /\ DockerKept /\ Known'
      BY <2>1, <2>3, DockerKinds, Zenon DEF RowKept, Present, OnRow, Known
    <2>5. Settled'
      BY <2>1, <2>4, KeptSettled, Zenon
    <2> QED BY <1>2, <1>3, <2>1, <2>2, <2>4, <2>5, Zenon
  <1>6. CASE VisibilityStop(p)
    <2>1. Settled /\ Same(p) /\ Present
      BY <1>6, Zenon DEF VisibilityStop, Flipping, Same
    <2>2. Stops(p, job[p].inst.cid, "dropOld", "dropOld")
      BY <1>6, <2>1, SerialCalls, Zenon DEF VisibilityStop
    <2>3. /\ InDocker /\ vol' = vol /\ Went(p, "dropOld")
          /\ \/ /\ Exists(job[p].inst.cid)
                /\ \E s \in {"created", "stopped"} :
                       Restated(job[p].inst.cid, s)
             \/ ctr' = ctr
      BY <1>0, <2>2, StopsDoes, Zenon
    <2>4. DockerKept /\ row' = row
      BY <1>0, <2>3, DockerKinds, Zenon
      DEF InDocker, ContainerStates, Exists, Ids
    <2>5. Known' /\ RowKept /\ Settled'
      BY <2>1, <2>4, KeptKnown, KeptSettled, Zenon
    <2> QED BY <1>3, <2>1, <2>3, <2>5, Zenon
  <1>7. CASE VisibilityDropOld(p)
    <2>1. Settled /\ Same(p) /\ Removes(p, row.cid, "create")
      BY <1>7, Zenon DEF VisibilityDropOld, Flipping, Same
    <2>2. /\ row' = row /\ vol' = vol /\ Went(p, "create")
          /\ \/ Exists(row.cid) /\ Restated(row.cid, "gone")
             \/ ~Exists(row.cid) /\ ctr' = ctr
      BY <1>0, <2>1, RemovesDoes, Zenon DEF Serial, Refused, InDocker, Same
    <2>3. Just(row.cid, row.vol)
      BY <2>1, Zenon DEF Settled, Same
    <2>4. Just(NoContainer, row.vol)'
      BY <2>2, <2>3, Zenon DEF Just, Only, Exists, Restated
    <2>5. Known'
      BY <2>2, RemembersKnown, Zenon DEF Remembers, Restated
    <2>6. /\ job'[p].op = "visibility" /\ job'[p].pc = "create"
          /\ job'[p].inst = job[p].inst
      BY <2>2, Zenon DEF Went
    <2>7. Same(p)'
      BY <2>1, <2>2, <2>6, Zenon DEF Same, Present
    <2>8. Flipping(p)'
      BY <2>4, <2>6, <2>7, Zenon DEF Flipping
    <2> QED BY <1>1, <2>5, <2>6, <2>8, Zenon
  <1>8. CASE VisibilityCreate(p)
    <2>1. Same(p) /\ Just(NoContainer, row.vol)
      BY <1>8, Zenon DEF VisibilityCreate, Flipping
    <2>2. \A e \in Containers : ~Exists(e)
      BY <2>1, Zenon DEF Just, Only, Exists
    <2>3. NameFree
      BY <2>2, Zenon DEF NameFree, Existing
    <2>4. /\ InDocker /\ Mounted(row.vol)
          /\ \E c \in Containers : Made(p, c, row.vol, TRUE, "record")
      BY <1>0, <1>8, <2>1, <2>3, CreatesDoes, Zenon
      DEF VisibilityCreate, Serial, Refused, Same
    <2>5. PICK c \in Containers : Made(p, c, row.vol, TRUE, "record")
      BY <2>4, Zenon
    <2>6. Known'
      BY <2>4, <2>5, RemembersKnown DEF InDocker, Made, Mounted, Remembers
    <2>7. Exists(c)' /\ Just(c, row.vol)'
      BY <2>1, <2>2, <2>4, <2>5
      DEF Just, Only, Exists, Mounted, Made, Containers, NoContainer, InDocker
    <2>8. /\ job'[p].op = "visibility" /\ job'[p].pc = "record"
          /\ job'[p].new = c /\ Present'
      BY <2>1, <2>4, <2>5, Zenon DEF Made, Same, Present, InDocker
    <2>9. Flipping(p)'
      BY <2>4, <2>7, <2>8, Zenon DEF Flipping
    <2> QED BY <1>1, <2>6, <2>8, <2>9, Zenon
  \* The replacement is recorded.
  <1>9. ASSUME Known', Settled', Present', row'.cid = job[p].new,
               Exists(job[p].new)',
               NEW l \in {"start", "ready", "port", "setPort"}, Went(p, l)
        PROVE  Known' /\ Outline(p)'
    <2>1. /\ job'[p].op = "visibility" /\ job'[p].pc = l
          /\ job'[p].new = job[p].new
      BY <1>9, Zenon DEF Went
    <2>2. Flipping(p)'
      BY <1>9, <2>1, Zenon DEF Flipping
    <2> QED BY <1>1, <1>9, <2>1, <2>2, Zenon
  <1>10. ASSUME Known', Settled', Present', row'.cid = job[p].new,
                NEW l \in {"ready", "port", "setPort"}, Went(p, l)
        PROVE  Known' /\ Outline(p)'
    <2>1. /\ job'[p].op = "visibility" /\ job'[p].pc = l
          /\ job'[p].new = job[p].new
      BY <1>10, Zenon DEF Went
    <2>2. Flipping(p)'
      BY <1>10, <2>1, Zenon DEF Flipping
    <2> QED BY <1>1, <1>10, <2>1, <2>2, Zenon
  <1>11. CASE VisibilityRecord(p)
    <2>1. /\ Writes(p, SetRuntime(job[p].new), "start")
          /\ Present /\ Just(job[p].new, row.vol) /\ Exists(job[p].new)
          /\ job[p].new \in Containers
      BY <1>0, <1>11, Zenon DEF VisibilityRecord, Flipping, Exists, Ids
    <2>2. /\ Present' /\ row'.cid = job[p].new /\ row'.vol = row.vol
          /\ DockerKept /\ Known' /\ Went(p, "start")
      BY <1>0, <2>1, SerialRuntime, Zenon DEF Exists
    <2>3. Exists(job[p].new)'
      BY <2>1, <2>2, Zenon DEF DockerKept, Went
    <2>4. Settled'
      BY <2>1, <2>2, Zenon DEF Settled, Just, Only, DockerKept
    <2> QED BY <1>9, <2>2, <2>3, <2>4, Zenon
  <1>12. CASE VisibilityStart(p)
    <2>1. /\ Starts(p, job[p].new, "ready", "revert") /\ Settled /\ Present
          /\ row.cid = job[p].new /\ Exists(job[p].new)
      BY <1>12, Zenon DEF VisibilityStart, Flipping
    <2>2. /\ InDocker /\ vol' = vol /\ Restated(job[p].new, "running")
          /\ Went(p, "ready")
      BY <1>0, <2>1, StartsDoes, Zenon DEF Serial, Refused
    <2>3. DockerKept /\ row' = row
      BY <1>0, <2>1, <2>2, DockerKinds, Zenon
      DEF InDocker, ContainerStates, Exists, Ids
    <2>4. Known' /\ RowKept /\ Settled'
      BY <2>1, <2>3, KeptKnown, KeptSettled, Zenon
    <2> QED BY <1>10, <2>1, <2>2, <2>3, <2>4, Zenon DEF RowKept
  <1>13. CASE VisibilityReady(p) \/ VisibilityInspect(p)
    <2>1. Settled /\ Present /\ row.cid = job[p].new
      BY <1>13, Zenon DEF VisibilityReady, VisibilityInspect, Flipping
    <2>2. /\ InDocker /\ vol' = vol /\ ctr' = ctr
          /\ \/ Went(p, "port") \/ Went(p, "setPort")
             \/ Went(p, "fail") \/ Went(p, "done")
      BY <1>13, ExecsDoes, Zenon DEF VisibilityReady, VisibilityInspect
    <2>3. Known' /\ RowKept /\ Settled' /\ row' = row
      BY <2>1, <2>2, DockerKinds, KeptKnown, KeptSettled, Zenon DEF InDocker
    <2> QED BY <1>2, <1>10, <2>1, <2>2, <2>3, Zenon DEF RowKept
  <1>14. CASE VisibilityPort(p)
    <2>1. /\ Writes(p, SetRuntime(job[p].new), "done") /\ Settled /\ Present
          /\ row.cid = job[p].new
      BY <1>14, Zenon DEF VisibilityPort, Flipping
    <2>2. /\ Present' /\ row'.cid = job[p].new /\ row'.vol = row.vol
          /\ DockerKept /\ Known' /\ Went(p, "done")
      BY <1>0, <2>1, SerialRuntime, Zenon DEF Known
    <2>3. Settled'
      BY <2>1, <2>2, KeptSettled, Zenon DEF RowKept
    <2> QED BY <1>2, <2>2, <2>3, Zenon
  <1>15. CASE VisibilityEnd(p)
    <2>1. PICK s \in Statuses : Writes(p, SetStatus(s), "unlock")
      BY <1>15, Zenon DEF VisibilityEnd, Statuses, Writes
    <2>2. Settled
      BY <1>15, Zenon DEF VisibilityEnd, Flipping
    <2>3. RowKept /\ DockerKept /\ Known' /\ Went(p, "unlock")
      BY <2>1, SerialStatus, Zenon
    <2>4. Settled'
      BY <2>2, <2>3, KeptSettled, Zenon
    <2> QED BY <1>2, <2>3, <2>4, Zenon
  <1>16. ~(\/ RecoverSetPublic(p) \/ RecoverCreate(p) \/ RecoverRecord(p)
           \/ RecoverStart(p))
    BY Zenon
    DEF RecoverSetPublic, RecoverCreate, RecoverRecord, RecoverStart, Flipping
  <1> QED
      BY <1>4, <1>5, <1>6, <1>7, <1>8, <1>11, <1>12, <1>13, <1>14, <1>15,
         <1>16, Zenon
      DEF Visibility

\* Restore, up to the swap: the original server and its volume stay, and what
\* is new is on the staging volume.
LEMMA SerialRestore ==
    ASSUME Serial, Typed, Known, NEW p \in Procs, job[p].op = "restore",
           Restoring(p), Restore(p)
    PROVE  Known' /\ Outline(p)'
  <1> USE DEF At
  <1>0. /\ row \in Rows /\ job[p].inst.cid \in Ids /\ job[p].new \in Ids
        /\ job[p].inst.vol \in Volumes /\ job[p].vol \in Volumes
        /\ row.cid \in Ids /\ row.vol \in Volumes
    BY Zenon DEF Typed, Shape, Jobs, Rows, Ids
  \* The container and the volume that Get read, the replacement and its volume.
  <1>p. PICK oc \in Ids, ov \in Volumes, nc \in Ids, nv \in Volumes :
            /\ oc = job[p].inst.cid /\ ov = job[p].inst.vol
            /\ nc = job[p].new /\ nv = job[p].vol
    BY <1>0, Zenon
  <1> USE <1>p
  <1>1. ASSUME Known', Restoring(p)', job'[p].op = "restore"
        PROVE  Known' /\ Outline(p)'
    BY <1>1, Zenon DEF Outline
  \* Settled, with nothing else to show.
  <1>2. ASSUME Known', Settled', NEW l \in {"done", "unlock"}, Went(p, l)
        PROVE  Known' /\ Outline(p)'
    <2>1. job'[p].op = "restore" /\ job'[p].pc = l
      BY <1>2, Zenon DEF Went
    <2>2. Restoring(p)'
      BY <1>2, <2>1, Zenon DEF Restoring, Untouched, Staged, Filled
    <2> QED BY <1>1, <1>2, <2>1, <2>2, Zenon
  \* The handler gave up, and the original server is back.
  <1>3. ASSUME Known', Settled', Went(p, "fail"), Exists(oc)' =>
                   /\ ctr'[oc].st \in {"running", "exited"}
                   /\ Present' /\ oc = row'.cid /\ ov = row'.vol
                   /\ vol'[job[p].vol] = "gone"
        PROVE  Known' /\ Outline(p)'
    <2>1. /\ job'[p].op = "restore" /\ job'[p].pc = "fail"
          /\ job'[p].inst = job[p].inst /\ job'[p].vol = job[p].vol
      BY <1>3, Zenon DEF Went
    <2>2. Revived(p)'
      BY <1>3, <2>1, Zenon DEF Revived, Same, Exists
    <2>3. Restoring(p)'
      BY <1>3, <2>1, <2>2, Zenon DEF Restoring, Untouched, Staged, Filled
    <2> QED BY <1>1, <1>3, <2>1, <2>3, Zenon
  \* The row is as it was read, and the staging volume is apart.
  <1>4. ASSUME Known', RowKept, Same(p), Apart(p), vol'[job[p].vol] # "none",
               Only(oc, ov, NoContainer, nv)',
               NEW l \in {"fill", "create", "undoVolume"}, Went(p, l)
        PROVE  Known' /\ Outline(p)'
    <2>1. /\ job'[p].op = "restore" /\ job'[p].pc = l
          /\ job'[p].inst = job[p].inst /\ job'[p].vol = job[p].vol
      BY <1>4, Zenon DEF Went
    <2>2. Same(p)' /\ Apart(p)'
      BY <1>4, <2>1, Zenon DEF Same, Apart, RowKept
    <2>3. Only(job[p].inst.cid, job[p].inst.vol, NoContainer, job[p].vol)'
      BY <1>4, <2>1, Zenon DEF Only, Exists
    <2>4. Restoring(p)'
      BY <2>1, <2>2, <2>3, Zenon DEF Restoring, Untouched, Staged, Filled
    <2> QED BY <1>1, <1>4, <2>1, <2>4, Zenon
  \* The same, with the replacement made.
  <1>5. ASSUME Known', RowKept, DockerKept, Same(p), Apart(p),
               Only(oc, ov, nc, nv), job[p].new # oc,
               NEW l \in {"ready", "commit", "setRuntime", "undo"}, Went(p, l),
               l # "undo" => Exists(job[p].new)
        PROVE  Known' /\ Outline(p)'
    <2>1. /\ job'[p].op = "restore" /\ job'[p].pc = l /\ job'[p].inst = job[p].inst
          /\ job'[p].vol = job[p].vol /\ job'[p].new = job[p].new
      BY <1>5, Zenon DEF Went
    <2>2. Same(p)' /\ Apart(p)'
      BY <1>5, <2>1, Zenon DEF Same, Apart, RowKept, DockerKept
    <2>3. Only(job[p].inst.cid, job[p].inst.vol, job[p].new, job[p].vol)'
      BY <1>5, <2>1, Zenon DEF Only, DockerKept
    <2>4. l # "undo" => Exists(job[p].new)'
      <3>1. ASSUME l # "undo"
            PROVE  Exists(nc)'
        BY <1>5, <3>1, Zenon DEF DockerKept, Exists, Ids
      <3> QED BY <2>1, <3>1, Zenon DEF Exists
    <2>5. Restoring(p)'
      BY <1>5, <2>1, <2>2, <2>3, <2>4, Zenon
      DEF Restoring, Untouched, Staged, Filled
    <2> QED BY <1>1, <1>5, <2>1, <2>5, Zenon
  <1>6. CASE RestoreGet(p)
    <2>1. /\ OnRow /\ row' = row /\ Settled
          /\ (Present /\ Took(p, row, "mark")) \/ (~Present /\ Went(p, "fail"))
      BY <1>6, GetsDoes, SerialCalls, Zenon DEF RestoreGet, Restoring
    <2>2. DockerKept /\ RowKept /\ Known' /\ Settled'
      BY <2>1, DockerKinds, KeptKnown, KeptSettled, Zenon DEF OnRow
    <2>3. CASE ~Present /\ Went(p, "fail")
      <3>1. ~Exists(oc)'
        BY <1>0, <2>1, <2>3, Zenon DEF Settled, Nothing, Exists, OnRow, Ids
      <3> QED BY <1>3, <2>2, <2>3, <3>1, Zenon
    <2>4. CASE Present /\ Took(p, row, "mark")
      <3>1. /\ job'[p].op = "restore" /\ job'[p].pc = "mark"
            /\ job'[p].inst = row
        BY <2>4, Zenon DEF Took
      <3>2. Same(p)'
        BY <2>1, <2>4, <3>1, Zenon DEF Same, Present
      <3>3. Restoring(p)'
        BY <2>2, <3>1, <3>2, Zenon DEF Restoring, Untouched, Staged, Filled
      <3> QED BY <1>1, <2>2, <3>1, <3>3, Zenon
    <2> QED BY <2>1, <2>3, <2>4, Zenon
  <1>7. CASE RestoreMark(p)
    <2>1. "restoring" \in Statuses
      BY Zenon DEF Statuses
    <2>2. Writes(p, SetStatus("restoring"), "volume") /\ Settled /\ Same(p)
      BY <1>7, Zenon DEF RestoreMark, Restoring, Untouched
    <2>3. RowKept /\ DockerKept /\ Known' /\ Went(p, "volume")
      BY <2>1, <2>2, SerialStatus, Zenon
    <2>4. Settled'
      BY <2>2, <2>3, KeptSettled, Zenon
    <2>5. job'[p].op = "restore" /\ job'[p].pc = "volume" /\ job'[p].inst = job[p].inst
      BY <2>3, Zenon DEF Went
    <2>6. Same(p)'
      BY <2>2, <2>3, <2>5, Zenon DEF Same, RowKept
    <2>7. Restoring(p)'
      BY <2>4, <2>5, <2>6, Zenon DEF Restoring, Untouched, Staged, Filled
    <2> QED BY <1>1, <2>3, <2>5, <2>7, Zenon
  <1>8. CASE RestoreVolume(p)
    <2>1. InDocker /\ ctr' = ctr /\ Settled /\ Same(p)
      BY <1>8, Frames, Zenon DEF RestoreVolume, Restoring, Untouched
    <2>2. PICK v \in Volumes \ {DefaultVolume} :
              /\ vol[v] = "none" /\ CreateVolume(v)
              /\ job' = [job EXCEPT ![p].vol = v, ![p].pc = "stop"]
      BY <1>8, Zenon DEF RestoreVolume, Serial
    <2>3. Mounted(v) /\ Staging(p, v)
      BY <2>2, VolumeUpdates, StagesDoes, Zenon DEF Mounted, Typed, Shape
    <2>4. v # row.vol
      BY <2>2, Zenon DEF Known
    <2>5. Known'
      BY <2>1, <2>3, RemembersKnown, Zenon DEF InDocker, Mounted, Remembers
    <2>6. /\ job'[p].op = "restore" /\ job'[p].pc = "stop"
          /\ job'[p].inst = job[p].inst /\ job'[p].vol = v
      BY <2>3, Zenon DEF Staging
    <2>7. Same(p)' /\ Apart(p)'
      BY <2>1, <2>2, <2>3, <2>4, <2>6, Zenon
      DEF Same, Apart, Present, InDocker, Mounted
    <2>8. Only(oc, ov, NoContainer, v)'
      BY <2>1, <2>2, <2>3, Zenon DEF Settled, Same, Just, Only, Mounted, Exists
    <2>9. Only(job[p].inst.cid, job[p].inst.vol, NoContainer, job[p].vol)'
      BY <2>6, <2>8, Zenon DEF Only, Exists
    <2>10. Restoring(p)'
      BY <2>6, <2>7, <2>9, Zenon DEF Restoring, Untouched, Staged, Filled
    <2> QED BY <1>1, <2>5, <2>6, <2>10, Zenon
  <1>9. CASE RestoreStop(p)
    <2>1. Same(p) /\ Apart(p) /\ Only(oc, ov, NoContainer, nv)
      BY <1>9, Zenon DEF RestoreStop, Restoring, Untouched, Staged
    <2>2. /\ InDocker /\ vol' = vol /\ Went(p, "fill")
          /\ \/ /\ Exists(oc)
                /\ \E s \in {"created", "stopped"} : Restated(oc, s)
             \/ ctr' = ctr
      BY <1>0, <1>9, StopsDoes, Zenon DEF RestoreStop
    <2>3. DockerKept /\ row' = row
      BY <1>0, <2>2, DockerKinds, Zenon
      DEF InDocker, ContainerStates, Exists, Ids
    <2>4. Known' /\ RowKept
      BY <2>3, KeptKnown, Zenon
    <2>5. Only(oc, ov, NoContainer, nv)' /\ vol'[job[p].vol] # "none"
      BY <2>1, <2>3, Zenon DEF Only, DockerKept, Apart
    <2> QED BY <1>4, <2>1, <2>2, <2>4, <2>5, Zenon
  <1>10. CASE RestoreFill(p)
    <2>1. Same(p) /\ Apart(p) /\ Only(oc, ov, NoContainer, nv) /\ InDocker /\ ctr' = ctr
      BY <1>10, Frames, Zenon DEF RestoreFill, Restoring, Untouched, Staged
    <2>2. /\ Went(p, "create") \/ Went(p, "undoVolume")
          /\ vol' = vol \/ vol' = [vol EXCEPT ![job[p].vol] = "data"]
      BY <1>10, GotoDoes, Zenon DEF RestoreFill, Typed
    <2>3. \A u \in Volumes : u # job[p].vol => vol'[u] = vol[u]
      BY <1>0, <2>2, Zenon DEF Typed, Shape
    <2>4. vol'[job[p].vol] # "none"
      BY <1>0, <2>1, <2>2, Zenon DEF Typed, Shape, Apart
    <2>5. Known'
      BY <2>1, <2>3, <2>4, RemembersKnown, Zenon DEF Remembers, InDocker
    <2>6. RowKept
      BY <2>1, Zenon DEF RowKept, Present, InDocker, Known
    <2>7. Only(oc, ov, NoContainer, nv)'
      BY <2>1, <2>3, Zenon DEF Only, Exists
    <2> QED BY <1>4, <2>1, <2>2, <2>4, <2>5, <2>6, <2>7, Zenon
  <1>11. CASE RestoreCreate(p)
    <2>1. Same(p) /\ Apart(p) /\ Only(oc, ov, NoContainer, nv)
      BY <1>11, Zenon DEF RestoreCreate, Restoring, Untouched, Staged, Filled
    <2>2. Creates(p, job[p].vol, FALSE, job[p].inst.public, "start", "undoVolume")
      BY <1>11, <2>1, SerialCalls, Zenon DEF RestoreCreate, Same
    <2>3. /\ InDocker /\ Mounted(job[p].vol)
          /\ \E c \in Containers : Made(p, c, job[p].vol, FALSE, "start")
      BY <1>0, <2>2, CreatesDoes, Zenon DEF Serial, Refused
    <2>4. PICK c \in Containers : Made(p, c, job[p].vol, FALSE, "start")
      BY <2>3, Zenon
    <2>5. Known'
      BY <2>3, <2>4, RemembersKnown DEF InDocker, Made, Mounted, Remembers
    <2>6. c # oc /\ ~Exists(c)
      BY <2>1, <2>4 DEF Made, Same, Known, Exists, Containers, NoContainer
    <2>7. Exists(c)' /\ Only(oc, ov, c, nv)'
      <3>1. Exists(c)' /\ ctr'[c].vol = nv
        <4>1. c # NoContainer
          BY DEF Containers, NoContainer
        <4> QED BY <2>4, <4>1, Zenon DEF Made, Exists
      <3>2. ASSUME NEW e \in Containers, Exists(e)'
            PROVE  (e = oc /\ ctr'[e].vol = ov) \/ (e = c /\ ctr'[e].vol = nv)
        <4>1. e # c => Exists(e) /\ ctr'[e].vol = ctr[e].vol
          BY <2>4, <3>2, Zenon DEF Exists, Made
        <4>2. ~(e = NoContainer /\ Exists(e))
          BY Zenon DEF Exists
        <4> QED BY <2>1, <3>1, <4>1, <4>2, Zenon DEF Only
      <3>3. ASSUME NEW u \in Volumes, vol'[u] \in {"blank", "data"}
            PROVE  u = ov \/ u = nv
        <4>1. u # nv => vol'[u] = vol[u]
          BY <2>3, Zenon DEF Mounted
        <4> QED BY <2>1, <3>3, <4>1, Zenon DEF Only
      <3> QED BY <3>1, <3>2, <3>3, Zenon DEF Only
    <2>8. /\ job'[p].op = "restore" /\ job'[p].pc = "start"
          /\ job'[p].inst = job[p].inst /\ job'[p].vol = job[p].vol
          /\ job'[p].new = c
      BY <2>4, Zenon DEF Made
    <2>9. Same(p)' /\ Apart(p)'
      <3>1. Same(p)'
        BY <2>1, <2>3, <2>8, Zenon DEF Same, Present, InDocker
      <3>2. vol'[job[p].vol] # "none"
        BY <1>0, <2>1, <2>3, Zenon DEF Apart, Mounted
      <3> QED BY <2>1, <2>8, <3>1, <3>2, Zenon DEF Apart
    <2>10. /\ Only(job[p].inst.cid, job[p].inst.vol, job[p].new, job[p].vol)'
           /\ Exists(job[p].new)' /\ job'[p].new # job'[p].inst.cid
      BY <2>6, <2>7, <2>8, Zenon DEF Only, Exists
    <2>11. Restoring(p)'
      BY <2>8, <2>9, <2>10, Zenon DEF Restoring, Untouched, Staged, Filled
    <2> QED BY <1>1, <2>5, <2>8, <2>11, Zenon
  <1>12. CASE \/ RestoreStart(p) \/ RestoreReady(p) \/ RestoreInspect(p)
    <2>1. /\ Same(p) /\ Apart(p) /\ Only(oc, ov, nc, nv)
          /\ job[p].new # oc /\ Exists(job[p].new)
      BY <1>12, Zenon DEF RestoreStart, RestoreReady, RestoreInspect, Restoring,
                   Untouched, Staged, Filled
    <2>2. /\ InDocker /\ vol' = vol
          /\ ctr' = ctr \/ Restated(job[p].new, "running")
          /\ \/ Went(p, "ready") \/ Went(p, "commit") \/ Went(p, "setRuntime")
             \/ Went(p, "undo")
      <3>1. CASE RestoreStart(p)
        BY <1>0, <3>1, StartsDoes, Zenon DEF RestoreStart
      <3>2. CASE RestoreReady(p)
        BY <3>2, ExecsDoes, Zenon DEF RestoreReady
      <3>3. CASE RestoreInspect(p)
        BY <2>1, <3>3, GotoDoes, Frames, Zenon
        DEF RestoreInspect, Serial, Refused, Typed, dockerVars
      <3> QED BY <1>12, <3>1, <3>2, <3>3, Zenon
    <2>3. DockerKept /\ row' = row
      BY <1>0, <2>1, <2>2, DockerKinds, Zenon
      DEF InDocker, ContainerStates, Exists, Ids
    <2>4. Known' /\ RowKept
      BY <2>3, KeptKnown, Zenon
    <2> QED BY <1>5, <2>1, <2>2, <2>3, <2>4, Zenon
  <1>13. CASE RestoreSetRuntime(p)
    <2>1. /\ Writes(p, SetRuntime(job[p].new), "setVolume")
          /\ Same(p) /\ Apart(p) /\ Only(oc, ov, nc, nv)
          /\ job[p].new # oc /\ Exists(job[p].new)
      BY <1>13, Zenon
      DEF RestoreSetRuntime, Restoring, Untouched, Staged, Filled
    <2>2. /\ Present' /\ row'.cid = job[p].new /\ row'.vol = row.vol
          /\ DockerKept /\ Known' /\ Went(p, "setVolume")
      BY <1>0, <2>1, SerialRuntime, Zenon DEF Exists, Same
    <2>3. /\ job'[p].op = "restore" /\ job'[p].pc = "setVolume"
          /\ job'[p].inst = job[p].inst /\ job'[p].vol = job[p].vol
          /\ job'[p].new = job[p].new
      BY <2>2, Zenon DEF Went
    <2>4. Apart(p)' /\ row'.vol = job'[p].inst.vol /\ row'.cid = job'[p].new
      BY <2>1, <2>2, <2>3, Zenon DEF Apart, DockerKept, Same
    <2>5. /\ Only(job[p].inst.cid, job[p].inst.vol, job[p].new, job[p].vol)'
          /\ job'[p].new # job'[p].inst.cid
      BY <2>1, <2>2, <2>3, Zenon DEF Only, DockerKept
    <2>6. Restoring(p)'
      BY <2>2, <2>3, <2>4, <2>5, Zenon DEF Restoring, Untouched, Staged, Filled
    <2> QED BY <1>1, <2>2, <2>3, <2>6, Zenon
  <1>14. CASE RestoreSetVolume(p)
    <2>1. /\ Writes(p, SetDataVolume(job[p].vol), "dropOld")
          /\ Present /\ row.cid = job[p].new /\ Apart(p)
          /\ Only(oc, ov, nc, nv) /\ job[p].new # oc
      BY <1>14, Zenon DEF RestoreSetVolume, Restoring, Staged, Filled
    <2>2. OnRow /\ Went(p, "dropOld") /\ row' = SetDataVolume(job[p].vol)
      BY <2>1, WritesDoes, SerialCalls, Zenon
    <2>3. row'.status = row.status /\ row'.cid = row.cid /\ row'.vol = job[p].vol
      <3>1. row' = [status |-> row.status, cid |-> row.cid, vol |-> job[p].vol,
                    public |-> row.public]
        BY <1>0, <2>2, RowUpdates, Zenon
      <3> QED BY <3>1, Zenon
    <2>4. Known' /\ Present'
      BY <2>1, <2>2, <2>3, Zenon DEF Known, Present, Apart, OnRow
    <2>5. /\ job'[p].op = "restore" /\ job'[p].pc = "dropOld"
          /\ job'[p].inst = job[p].inst /\ job'[p].vol = job[p].vol
          /\ job'[p].new = job[p].new
      BY <2>2, Zenon DEF Went
    <2>6. Apart(p)' /\ row'.vol = job'[p].vol /\ row'.cid = job'[p].new
      BY <2>1, <2>2, <2>3, <2>5, Zenon DEF Apart, OnRow
    <2>7. /\ Only(job[p].inst.cid, job[p].inst.vol, job[p].new, job[p].vol)'
          /\ job'[p].new # job'[p].inst.cid
      BY <2>1, <2>2, <2>5, Zenon DEF Only, OnRow, Exists
    <2>8. Restoring(p)'
      BY <2>4, <2>5, <2>6, <2>7, Zenon DEF Restoring, Untouched, Staged, Filled
    <2> QED BY <1>1, <2>4, <2>5, <2>8, Zenon
  <1>15. CASE RestoreDropOld(p)
    <2>1. /\ Removes(p, oc, "dropVolume")
          /\ Present /\ row.cid = job[p].new /\ row.vol = job[p].vol /\ Apart(p)
          /\ Only(oc, ov, nc, nv) /\ job[p].new # oc
      BY <1>15, Zenon DEF RestoreDropOld, Restoring
    <2>2. /\ row' = row /\ vol' = vol /\ Went(p, "dropVolume")
          /\ \/ Exists(oc) /\ Restated(oc, "gone")
             \/ ~Exists(oc) /\ ctr' = ctr
      BY <1>0, <2>1, RemovesDoes, Zenon DEF Serial, Refused, InDocker
    <2>3. Only(NoContainer, ov, nc, nv)'
      BY <2>1, <2>2, OneLess, Zenon
    <2>4. Known'
      BY <2>2, RemembersKnown, Zenon DEF Remembers, Restated
    <2>5. /\ job'[p].op = "restore" /\ job'[p].pc = "dropVolume"
          /\ job'[p].inst = job[p].inst /\ job'[p].vol = job[p].vol
          /\ job'[p].new = job[p].new
      BY <2>2, Zenon DEF Went
    <2>6. /\ Apart(p)' /\ row'.vol = job'[p].vol /\ row'.cid = job'[p].new
          /\ Present'
      BY <2>1, <2>2, <2>5, Zenon DEF Apart, Present
    <2>7. Only(NoContainer, job[p].inst.vol, job[p].new, job[p].vol)'
      BY <2>3, <2>5, Zenon DEF Only, Exists
    <2>8. Restoring(p)'
      BY <2>5, <2>6, <2>7, Zenon DEF Restoring, Untouched, Staged, Filled
    <2> QED BY <1>1, <2>4, <2>5, <2>8, Zenon
  <1>16. CASE RestoreDropVolume(p)
    <2>1. /\ RemovesVolume(p, ov, "done", "done")
          /\ Present /\ row.cid = job[p].new /\ row.vol = job[p].vol /\ Apart(p)
          /\ Only(NoContainer, ov, nc, nv)
      BY <1>16, Zenon DEF RestoreDropVolume, Restoring
    <2>2. ~InUse(ov)
      BY <2>1, Zenon
      DEF InUse, Existing, Only, Apart, Exists, Containers, NoContainer
    <2>3. InDocker /\ ctr' = ctr /\ Dropped(ov) /\ Went(p, "done")
      BY <1>0, <2>1, <2>2, RemovesVolumeDoes, Zenon DEF Serial, Refused
    <2>4. Known'
      BY <2>3, RemembersKnown, Zenon DEF Remembers, InDocker, Dropped
    <2>5. Settled'
      BY <2>1, <2>3, Zenon
      DEF Settled, Just, Only, Present, InDocker, Dropped, Exists, Containers,
          NoContainer
    <2> QED BY <1>2, <2>3, <2>4, <2>5, Zenon
  <1>17. CASE RestoreDone(p) \/ RestoreFail(p)
    <2>1. PICK s \in Statuses : Writes(p, SetStatus(s), "unlock")
      BY <1>17, Zenon DEF RestoreDone, RestoreFail, Statuses
    <2>2. Settled
      BY <1>17, Zenon DEF RestoreDone, RestoreFail, Restoring
    <2>3. RowKept /\ DockerKept /\ Known' /\ Went(p, "unlock")
      BY <2>1, SerialStatus, Zenon
    <2>4. Settled'
      BY <2>2, <2>3, KeptSettled, Zenon
    <2> QED BY <1>2, <2>3, <2>4, Zenon
  <1>18. CASE RestoreUndo(p)
    <2>1. /\ Removes(p, job[p].new, "undoVolume") /\ Same(p) /\ Apart(p)
          /\ Only(oc, ov, nc, nv)
      BY <1>18, Zenon DEF RestoreUndo, Restoring, Untouched, Staged
    <2>2. /\ row' = row /\ vol' = vol /\ Went(p, "undoVolume")
          /\ \/ Exists(job[p].new) /\ Restated(job[p].new, "gone")
             \/ ~Exists(job[p].new) /\ ctr' = ctr
      BY <1>0, <2>1, RemovesDoes, Zenon DEF Serial, Refused, InDocker
    <2>3. Only(oc, ov, NoContainer, nv)' /\ vol'[job[p].vol] # "none"
      BY <2>1, <2>2, OneLess, Zenon DEF Apart
    <2>4. Known'
      BY <2>2, RemembersKnown, Zenon DEF Remembers, Restated
    <2>5. RowKept
      BY <2>1, <2>2, Zenon DEF RowKept, Present, Known
    <2> QED BY <1>4, <2>1, <2>2, <2>3, <2>4, <2>5, Zenon
  <1>19. CASE RestoreUndoVolume(p)
    <2>1. /\ RemovesVolume(p, job[p].vol, "undoStop", "undoStop")
          /\ Same(p) /\ Apart(p) /\ Only(oc, ov, NoContainer, nv)
      BY <1>19, Zenon DEF RestoreUndoVolume, Restoring, Untouched, Staged
    <2>2. ~InUse(job[p].vol)
      BY <2>1, Zenon
      DEF InUse, Existing, Only, Apart, Exists, Containers, NoContainer
    <2>3. InDocker /\ ctr' = ctr /\ Dropped(job[p].vol) /\ Went(p, "undoStop")
      BY <1>0, <2>1, <2>2, RemovesVolumeDoes, Zenon DEF Serial, Refused
    <2>4. Known'
      BY <2>3, RemembersKnown, Zenon DEF Remembers, InDocker, Dropped
    <2>5. Settled'
      BY <2>1, <2>3, Zenon
      DEF Settled, Just, Only, Present, InDocker, Dropped, Exists, Containers,
          NoContainer, Same
    <2>6. /\ job'[p].op = "restore" /\ job'[p].pc = "undoStop"
          /\ job'[p].inst = job[p].inst /\ job'[p].vol = job[p].vol
      BY <2>3, Zenon DEF Went
    <2>7. Same(p)' /\ vol'[job'[p].vol] = "gone"
      BY <2>1, <2>3, <2>6, Zenon DEF Same, Present, InDocker, Dropped
    <2>8. Restoring(p)'
      BY <2>5, <2>6, <2>7, Zenon DEF Restoring, Untouched, Staged, Filled
    <2> QED BY <1>1, <2>4, <2>6, <2>8, Zenon
  \* The original server is started, or was not there.
  <1>20. ASSUME Known', Settled', NEW l \in {"undoPort", "undoRow"}, Went(p, l),
                Same(p), row' = row, vol' = vol, vol[job[p].vol] = "gone",
                Exists(oc)' => ctr'[oc].st \in {"running", "exited"}
        PROVE  Known' /\ Outline(p)'
    <2>1. /\ job'[p].op = "restore" /\ job'[p].pc = l
          /\ job'[p].inst = job[p].inst /\ job'[p].vol = job[p].vol
      BY <1>20, Zenon DEF Went
    <2>2. Same(p)' /\ vol'[job'[p].vol] = "gone"
      BY <1>20, <2>1, Zenon DEF Same, Present
    <2>3. Revived(p)'
      BY <1>20, <2>1, <2>2, Zenon DEF Revived, Exists
    <2>4. Restoring(p)'
      BY <1>20, <2>1, <2>2, <2>3, Zenon DEF Restoring, Untouched, Staged, Filled
    <2> QED BY <1>1, <1>20, <2>1, <2>4, Zenon
  <1>21. CASE RestoreUndoStop(p)
    <2>1. /\ Starts(p, oc, "undoPort", "undoPort")
          /\ Settled /\ Same(p) /\ vol[job[p].vol] = "gone"
      BY <1>21, Zenon DEF RestoreUndoStop, Restoring
    <2>2. /\ InDocker /\ vol' = vol /\ Went(p, "undoPort")
          /\ \/ Exists(oc) /\ Restated(oc, "running")
             \/ ~Exists(oc) /\ ctr' = ctr
      BY <1>0, <2>1, StartsDoes, Zenon DEF Serial, Refused
    <2>3. DockerKept /\ row' = row
      BY <1>0, <2>2, DockerKinds, Zenon
      DEF InDocker, ContainerStates, Exists, Ids
    <2>4. Known' /\ RowKept /\ Settled'
      BY <2>1, <2>3, KeptKnown, KeptSettled, Zenon
    <2>5. Exists(oc)' => ctr'[oc].st \in {"running", "exited"}
      BY <2>2, Zenon DEF Restated, Exists
    <2> QED BY <1>20, <2>1, <2>2, <2>3, <2>4, <2>5, Zenon
  <1>22. CASE RestoreUndoInspect(p)
    <2>1. /\ Execs(p, oc, "undoRow", "fail")
          /\ Settled /\ Same(p) /\ vol[job[p].vol] = "gone" /\ Revived(p)
      BY <1>22, Zenon DEF RestoreUndoInspect, Restoring
    <2>2. /\ InDocker /\ ctr' = ctr /\ vol' = vol
          /\ Went(p, "undoRow") \/ Went(p, "fail")
      BY <2>1, ExecsDoes, Zenon
    <2>3. Known' /\ RowKept /\ Settled' /\ row' = row
      BY <2>1, <2>2, DockerKinds, KeptKnown, KeptSettled, Zenon DEF InDocker
    <2>4. Exists(oc)' => ctr'[oc].st \in {"running", "exited"}
      BY <2>1, <2>2, Zenon DEF Revived, Exists
    <2> QED BY <1>3, <1>20, <2>1, <2>2, <2>3, <2>4, Zenon DEF Same, Present
  <1>23. CASE RestoreUndoRow(p)
    <2>1. /\ Writes(p, SetRuntime(oc), "fail")
          /\ Settled /\ Same(p) /\ vol[job[p].vol] = "gone" /\ Revived(p)
      BY <1>23, Zenon DEF RestoreUndoRow, Restoring
    <2>2. /\ Present' /\ row'.cid = oc /\ row'.vol = row.vol
          /\ DockerKept /\ Known' /\ Went(p, "fail") /\ ctr' = ctr
      BY <1>0, <2>1, SerialRuntime, Zenon DEF Known, Same
    <2>3. Settled'
      BY <2>1, <2>2, KeptSettled, Zenon DEF RowKept, Same
    <2>4. Exists(oc)' => ctr'[oc].st \in {"running", "exited"}
      BY <2>1, <2>2, Zenon DEF Revived, Exists
    <2> QED BY <1>3, <2>1, <2>2, <2>3, <2>4, Zenon DEF Same, DockerKept
  <1> QED
      BY <1>6, <1>7, <1>8, <1>9, <1>10, <1>11, <1>12, <1>13, <1>14, <1>15,
         <1>16, <1>17, <1>18, <1>19, <1>21, <1>22, <1>23, Zenon
      DEF Restore

\* A handler's steps are its own, and leave the reconciler alone.
LEMMA HandlersOwn ==
    ASSUME NEW p \in Procs
    PROVE  /\ Provision(p) => job[p].op = "provision" /\ rec' = rec
           /\ Lifecycle(p) => /\ job[p].op \in {"start", "stop", "restart"}
                              /\ rec' = rec
           /\ Destroy(p) => job[p].op = "destroy" /\ rec' = rec
           /\ Restore(p) => job[p].op = "restore" /\ rec' = rec
           /\ Visibility(p) => job[p].op = "visibility" /\ rec' = rec
  <1> USE DEF At, rowFrame, dockerFrame, Writes, Gets, Creates, Starts, Stops,
              Removes, RemovesVolume, Execs
  <1>1. Provision(p) => job[p].op = "provision" /\ rec' = rec
    BY Zenon DEF Provision, ProvisionGet, ProvisionVolume, ProvisionCreate,
           ProvisionRecord, ProvisionStart, ProvisionInspect, ProvisionPort,
           ProvisionReady, ProvisionDone, ProvisionUndo, ProvisionUndoVolume,
           ProvisionFail
  <1>2. Lifecycle(p) => /\ job[p].op \in {"start", "stop", "restart"}
                        /\ rec' = rec
    BY Zenon DEF Lifecycle, LifecycleGet, StartCall, StartInspect, StartRefresh,
           StartDone, StopCall, StopDone
  <1>3. Destroy(p) => job[p].op = "destroy" /\ rec' = rec
    BY Zenon
    DEF Destroy, DestroyGet, DestroyMark, DestroyContainer, DestroyVolume,
           DestroyRepo, DestroyRow, DestroyFail
  <1>4. Restore(p) => job[p].op = "restore" /\ rec' = rec
    BY Zenon DEF Restore, RestoreGet, RestoreMark, RestoreVolume, RestoreStop,
           RestoreFill, RestoreCreate, RestoreStart, RestoreReady,
           RestoreInspect, RestoreSetRuntime, RestoreSetVolume, RestoreDropOld,
           RestoreDropVolume, RestoreDone, RestoreUndo, RestoreUndoVolume,
           RestoreUndoStop, RestoreUndoInspect, RestoreUndoRow, RestoreFail
  <1>5. Visibility(p) => job[p].op = "visibility" /\ rec' = rec
    BY Zenon DEF Visibility, VisibilityGet, VisibilitySetPublic, VisibilityStop,
           VisibilityDropOld, VisibilityCreate, VisibilityRecord,
           VisibilityStart, VisibilityReady, VisibilityInspect, VisibilityPort,
           VisibilityEnd, RecoverSetPublic, RecoverCreate, RecoverRecord,
           RecoverStart
  <1> QED BY <1>1, <1>2, <1>3, <1>4, <1>5, Zenon

LEMMA SerialHandler ==
    ASSUME Serial, Typed, Known, NEW p \in Procs, Outline(p), Handler(p)
    PROVE  /\ Known' /\ Outline(p)'
           /\ job[p].op # "none" /\ rec' = rec
  <1>1. CASE Lock(p) \/ Unlock(p)
    <2>1. /\ row' = row /\ ctr' = ctr /\ vol' = vol /\ rec' = rec
          /\ job[p].op \in Exclusive
          /\ job[p].pc \in {"lock", "unlock"}
          /\ Went(p, "get") \/ Went(p, "return")
      BY <1>1, GotoDoes, Zenon DEF Lock, Unlock, dockerVars, Typed, Locks
    <2>2. Settled
      BY <2>1, Zenon DEF Outline, Restoring, Flipping, Exclusive
    <2>3. Known' /\ Settled'
      BY <2>1, <2>2, DockerKinds, KeptKnown, KeptSettled, Zenon
    <2>4. /\ job'[p].op \in {"restore", "visibility", "none"}
          /\ job'[p].op # "none" => job'[p].pc = "get"
      BY <2>1 DEF Went, NoJob, Exclusive
    <2>5. Restoring(p)' \/ job'[p].op # "restore"
      BY <2>3, <2>4, Zenon DEF Restoring, Untouched, Staged, Filled
    <2>6. Flipping(p)' \/ job'[p].op # "visibility"
      BY <2>3, <2>4, Zenon DEF Flipping
    <2>7. Outline(p)'
      BY <2>3, <2>4, <2>5, <2>6, Zenon DEF Outline
    <2> QED BY <2>1, <2>3, <2>7, Zenon DEF Exclusive
  <1>2. CASE Provision(p)
    BY <1>2, HandlersOwn, SerialProvision, Zenon DEF Outline
  <1>3. CASE Lifecycle(p)
    BY <1>3, HandlersOwn, SerialLifecycle, Zenon DEF Outline
  <1>4. CASE Destroy(p)
    BY <1>4, HandlersOwn, SerialDestroy, Zenon DEF Outline
  <1>5. CASE Restore(p)
    BY <1>5, HandlersOwn, SerialRestore, Zenon DEF Outline
  <1>6. CASE Visibility(p)
    BY <1>6, HandlersOwn, SerialVisibility, Zenon DEF Outline
  <1> QED BY <1>1, <1>2, <1>3, <1>4, <1>5, <1>6, Zenon DEF Handler

\* A request finds everything settled.
LEMMA SerialRequest ==
    ASSUME Serial, Typed, Known, NEW p \in Procs, Outline(p),
           NEW op \in Ops, Request(p, op)
    PROVE  Known' /\ Outline(p)' /\ job'[p] # NoJob
  <1>1. /\ job[p] = NoJob /\ Began(p, op)
        /\ row' = row /\ ctr' = ctr /\ vol' = vol
    BY RequestTyped, Zenon DEF Request, dockerVars
  <1>2. Settled
    BY <1>1 DEF Outline, NoJob
  <1>3. Known' /\ Settled'
    BY <1>1, <1>2, DockerKinds, KeptKnown, KeptSettled, Zenon
  <1>4. /\ job'[p].op \in {"start", "stop", "restart", "destroy", "restore",
                           "visibility"}
        /\ job'[p].op \in Exclusive => job'[p].pc = "lock"
        /\ job'[p].op \notin Exclusive => job'[p].pc = "get"
    BY <1>1, InstanceOpsAssumption, Zenon DEF Began
  <1>5. job'[p].op = "restore" => Restoring(p)'
    BY <1>3, <1>4, Zenon DEF Restoring, Untouched, Staged, Filled, Exclusive
  <1>6. job'[p].op = "visibility" => Flipping(p)'
    BY <1>3, <1>4, Zenon DEF Flipping, Exclusive
  <1>7. job'[p].op = "destroy" => Destroying(p)'
    BY <1>3, <1>4, Zenon DEF Destroying, Exclusive
  <1>8. job'[p].op \in {"start", "stop", "restart"} => Cycling(p)'
    BY <1>3, <1>4, Zenon DEF Cycling, Exclusive
  <1>9. Outline(p)'
    BY <1>4, <1>5, <1>6, <1>7, <1>8, Zenon DEF Outline
  <1> QED BY <1>3, <1>4, <1>9 DEF NoJob

\* An outage, or nothing at all.
LEMMA SerialOutage ==
    ASSUME Typed, Known, NEW p \in Procs, Outline(p),
           row' = row, job' = job, DockerKept,
           \A c \in Containers : ctr[c].st \in {"running", "exited"} =>
                                     ctr'[c].st \in {"running", "exited"}
    PROVE  Known' /\ Outline(p)'
  <1>1. Known' /\ RowKept /\ (Settled => Settled') /\ (Nothing => Nothing')
    BY KeptKnown, KeptSettled, Zenon
  <1>2. \A c, d \in Ids : \A v, w : Only(c, v, d, w) => Only(c, v, d, w)'
    BY DEF DockerKept, Only
  <1>3. /\ job[p].inst.cid \in Ids /\ job[p].new \in Ids /\ row.cid \in Ids
        /\ NoContainer \in Ids
    BY Zenon DEF Typed, Shape, Jobs, Rows, Ids
  <1>4. \A c, d \in Ids : \A v : Just(c, v) => Just(c, v)'
    BY <1>2, Zenon DEF Just
  <1>5. \A c \in Ids : Exists(c)' <=> Exists(c)
    BY Zenon DEF DockerKept, Exists, Ids
  <1>6. (Present' <=> Present) /\ (Same(p) <=> Same(p)') /\ (Apart(p) <=> Apart(p)')
    BY Zenon DEF Present, Same, Apart, DockerKept
  <1>7. Revived(p) => Revived(p)'
    <2>1. Exists(job[p].inst.cid)' <=> Exists(job[p].inst.cid)
      BY <1>3, <1>5, Zenon
    <2>2. Exists(job[p].inst.cid) => job[p].inst.cid \in Containers
      BY <1>3, Zenon DEF Exists, Ids
    <2> QED BY <1>6, <2>1, <2>2, Zenon DEF Revived, DockerKept
  <1>8. Outline(p)'
    <2>1. Provisioning(p) => Provisioning(p)'
      BY <1>1, <1>3, <1>4, <1>5, <1>6, Zenon DEF Provisioning
    <2>2. Cycling(p) => Cycling(p)'
      BY <1>1, <1>6, Zenon DEF Cycling
    <2>3. Destroying(p) => Destroying(p)'
      BY <1>1, <1>3, <1>4, <1>6, Zenon DEF Destroying
    <2>4. Restoring(p) => Restoring(p)'
      BY <1>1, <1>2, <1>3, <1>5, <1>6, <1>7 DEF Restoring, DockerKept
    <2>5. Flipping(p) => Flipping(p)'
      BY <1>1, <1>3, <1>4, <1>5, <1>6, Zenon DEF Flipping
    <2> QED BY <1>1, <2>1, <2>2, <2>3, <2>4, <2>5, Zenon DEF Outline
  <1> QED BY <1>1, <1>8, Zenon

\* The reconciler, with no handler running, finds the row's own container.
LEMMA SerialReconcile ==
    ASSUME Serial, Typed, Known, PassInv, Settled, Reconcile
    PROVE  Known' /\ PassInv' /\ Settled'
  <1>0. rec \in Passes /\ row \in Rows /\ ctr' = ctr /\ vol' = vol
    BY ReconcileTyped, Zenon DEF Typed, Shape, passFrame, dockerVars
  <1>1. DockerKept
    BY <1>0, DockerKinds, Zenon
  <1>2. ASSUME RowKept
        PROVE  Known' /\ Settled'
    BY <1>0, <1>1, <1>2, KeptSettled, Zenon DEF Known, RowKept, Present
  <1>3. ASSUME row' = row
        PROVE  RowKept
    BY <1>3, Zenon DEF RowKept, Present, Known
  <1>4. ASSUME NEW s \in Statuses, TryWrite(SetStatus(s))
        PROVE  RowKept
    <2>1. CASE row # NoRow /\ row' = SetStatus(s)
      BY <1>0, <2>1, RowUpdates, SerialCalls DEF RowKept, Present, Statuses
    <2> QED BY <1>3, <1>4, <2>1, Zenon DEF TryWrite, Written
  <1>5. ASSUME RowKept, rec' = NoPass
        PROVE  Known' /\ PassInv' /\ Settled'
    BY <1>2, <1>5, Zenon DEF PassInv, NoPass
  <1>6. CASE ReconcileList
    <2>1. rec.pc = "idle" /\ row' = row
      BY <1>6, Zenon DEF ReconcileList
    <2>2. rec'.pc = "scan" /\ rec'.info = rec.info
      BY <1>0, <1>6, Zenon DEF ReconcileList, Passes
    <2>3. PassInv'
      BY <2>1, <2>2, Zenon DEF PassInv
    <2> QED BY <1>2, <1>3, <2>1, <2>3, Zenon
  <1>7. CASE ReconcileScan
    <2>1. rec.pc = "scan" /\ rec.info = NoContainer /\ row' = row
      BY <1>7, Zenon DEF ReconcileScan, PassInv
    <2>2. CASE Existing = {} /\ rec' = [rec EXCEPT !.pc = "one"]
      <3>1. rec'.pc = "one" /\ rec'.info = rec.info
        BY <1>0, <2>2, Zenon DEF Passes
      <3>2. PassInv'
        BY <2>1, <3>1, Zenon DEF PassInv
      <3> QED BY <1>2, <1>3, <2>1, <3>2, Zenon
    <2>3. ASSUME NEW c \in Existing,
                 rec' = [rec EXCEPT !.pc = "one", !.info = c]
          PROVE  Known' /\ PassInv' /\ Settled'
      <3>1. c = row.cid
        BY <2>3, Zenon DEF Settled, Nothing, Just, Only, Existing
      <3>2. rec' = [[rec EXCEPT !.pc = "one"] EXCEPT !.info = c]
        BY <2>3, Zenon
      <3>3. rec'.pc = "one" /\ rec'.info = c
        BY <1>0, <3>2, Zenon DEF Passes
      <3>4. PassInv'
        BY <2>1, <3>1, <3>3, Zenon DEF PassInv
      <3> QED BY <1>2, <1>3, <2>1, <3>4, Zenon
    <2> QED BY <1>7, <2>2, <2>3, Zenon DEF ReconcileScan, Serial
  <1>8. CASE ReconcileMissing
    <2>1. "error" \in Statuses
      BY Zenon DEF Statuses
    <2> QED BY <1>3, <1>4, <1>5, <1>8, <2>1, Zenon DEF ReconcileMissing, EndPass
  <1>9. CASE ReconcileInspect
    <2>1. /\ rec.pc = "one" /\ row' = row /\ rec.info # NoContainer
          /\ \/ rec' = NoPass
             \/ rec' = [rec EXCEPT !.pc = "adopt", !.running = Running(rec.info)]
      BY <1>9, Zenon DEF ReconcileInspect, EndPass
    <2>2. CASE rec' = [rec EXCEPT !.pc = "adopt", !.running = Running(rec.info)]
      <3>1. rec'.pc = "adopt" /\ rec'.info = rec.info
        BY <1>0, <2>2, Zenon DEF Passes
      <3>2. PassInv'
        BY <2>1, <3>1, Zenon DEF PassInv
      <3> QED BY <1>2, <1>3, <2>1, <3>2, Zenon
    <2> QED BY <1>3, <1>5, <2>1, <2>2, Zenon
  <1>10. CASE ReconcileAdopt
    <2>1. rec.pc = "adopt" /\ rec.info = row.cid
      BY <1>10, Zenon DEF ReconcileAdopt, PassInv
    <2>2. RowKept
      <3>1. CASE row # NoRow /\ row' = SetRuntime(rec.info)
        BY <1>0, <2>1, <3>1, RowUpdates, SerialCalls DEF RowKept, Present
      <3> QED BY <1>3, <1>10, <3>1, Zenon DEF ReconcileAdopt, TryWrite, Written
    <2>3. rec'.pc = "status" /\ rec'.info = rec.info
      BY <1>0, <1>10, Zenon DEF ReconcileAdopt, Passes
    <2>4. PassInv'
      BY <2>1, <2>2, <2>3, Zenon DEF PassInv, RowKept
    <2> QED BY <1>2, <2>2, <2>4, Zenon
  <1>11. CASE ReconcileStatus
    <2>1. {"running", "stopped"} \subseteq Statuses
      BY Zenon DEF Statuses
    <2>2. RowKept /\ rec' = NoPass
      BY <1>3, <1>4, <1>11, <2>1, Zenon DEF ReconcileStatus, EndPass
    <2> QED BY <1>5, <2>2, Zenon
  <1> QED BY <1>6, <1>7, <1>8, <1>9, <1>10, <1>11, Zenon DEF Reconcile

LEMMA SerialNext ==
    ASSUME Serial, Typed, SerialInv, PassesApart, PassesApart', [Next]_vars
    PROVE  SerialInv'
  <1>1. PICK p \in Procs : TRUE
    BY InstanceOpsAssumption, Zenon
  <1>2. \A q \in Procs : q = p
    BY Zenon DEF Serial
  <1>3. Known /\ PassInv /\ Outline(p)
    BY Zenon DEF SerialInv
  <1>4. SUFFICES Known' /\ PassInv' /\ Outline(p)'
    BY <1>2, Zenon DEF SerialInv
  <1>5. ASSUME NEW q \in Procs, Handler(q)
        PROVE  Known' /\ PassInv' /\ Outline(p)'
    <2>1. q = p
      BY <1>2, Zenon
    <2>2. Known' /\ Outline(p)' /\ job[p].op # "none" /\ rec' = rec
      BY <1>3, <1>5, <2>1, SerialHandler, Zenon
    <2>3. rec = NoPass
      BY <2>2 DEF PassesApart, Quiet, NoJob
    <2> QED BY <2>2, <2>3, Zenon DEF PassInv, NoPass
  <1>6. ASSUME NEW q \in Procs, NEW op \in Ops, Request(q, op)
        PROVE  Known' /\ PassInv' /\ Outline(p)'
    <2>1. q = p
      BY <1>2, Zenon
    <2>2. Known' /\ Outline(p)' /\ job'[p] # NoJob
      BY <1>3, <1>6, <2>1, SerialRequest, Zenon
    <2>3. rec' = NoPass
      BY <2>2, Zenon DEF PassesApart, Quiet
    <2> QED BY <2>2, <2>3, Zenon DEF PassInv, NoPass
  <1>7. CASE Reconcile
    <2>1. job' = job
      BY <1>7, ReconcileTyped, Zenon DEF passFrame
    <2>2. Quiet
      <3>1. CASE rec.pc = "idle"
        <4>1. ReconcileList
          BY <1>7, <3>1, Zenon DEF Reconcile, ReconcileScan, ReconcileMissing,
                            ReconcileInspect, ReconcileAdopt, ReconcileStatus
        <4>2. rec'.pc = "scan"
          BY <4>1, Zenon DEF ReconcileList, Typed, Shape, Passes
        <4> QED BY <2>1, <4>2 DEF PassesApart, Quiet, NoPass
      <3>2. CASE rec.pc # "idle"
        BY <3>2 DEF PassesApart, NoPass
      <3> QED BY <3>1, <3>2, Zenon
    <2>3. Settled /\ job'[p].op = "none"
      BY <1>3, <2>1, <2>2 DEF Quiet, Outline, NoJob
    <2>4. Known' /\ PassInv' /\ Settled'
      BY <1>3, <1>7, <2>3, SerialReconcile, Zenon
    <2> QED BY <2>3, <2>4, Zenon DEF Outline
  <1>8. ~Crash
    BY Zenon DEF Crash, Serial
  <1>9. ASSUME NEW c \in Containers, ContainerExits(c) \/ DockerRestarts(c)
        PROVE  Known' /\ PassInv' /\ Outline(p)'
    <2>1. /\ row' = row /\ vol' = vol /\ job' = job /\ rec' = rec
          /\ \/ ctr[c].st = "running" /\ Restated(c, "exited")
             \/ ctr[c].st = "exited" /\ Restated(c, "running")
      BY <1>9, OutageTyped, Zenon
    <2>2. Exists(c) /\ {"running", "exited"} \subseteq ContainerStates \ {"none", "gone"}
      BY <2>1 DEF Exists, Containers, NoContainer, ContainerStates
    <2>3. DockerKept
      BY <2>1, <2>2, DockerKinds, Zenon
    <2>4. \A d \in Containers : ctr[d].st \in {"running", "exited"} =>
                                    ctr'[d].st \in {"running", "exited"}
      BY <2>1, Zenon DEF Restated
    <2>5. Known' /\ Outline(p)'
      BY <1>3, <2>1, <2>3, <2>4, SerialOutage, Zenon
    <2> QED BY <1>3, <2>1, <2>5, Zenon DEF PassInv
  <1>10. CASE UNCHANGED vars
    <2>1. row' = row /\ ctr' = ctr /\ vol' = vol /\ job' = job /\ rec' = rec
      BY <1>10, Zenon DEF vars, dockerVars
    <2>2. Known' /\ Outline(p)'
      BY <1>3, <2>1, DockerKinds, SerialOutage, Zenon
    <2> QED BY <1>3, <2>1, <2>2, Zenon DEF PassInv
  <1> QED BY <1>5, <1>6, <1>7, <1>8, <1>9, <1>10, Zenon DEF Next

LEMMA SerialInit ==
    ASSUME Serial, Init
    PROVE  SerialInv
  <1>1. PICK p \in Procs : job[p].op = "provision" /\ job[p].pc = "get"
    BY InitJob, Zenon
  <1>2. \A q \in Procs : q = p
    BY Zenon DEF Serial
  <1>3. /\ row.status = "provisioning" /\ row.vol = DefaultVolume
        /\ row.cid = NoContainer
    BY Blank, Zenon DEF Init, NoRow, Rows
  <1>4. Nothing
    BY Zenon DEF Init, Nothing, Exists
  <1>5. Provisioning(p)
    BY <1>1, <1>3, <1>4, Zenon DEF Provisioning, Present
  <1>6. Outline(p)
    BY <1>1, <1>5, Zenon DEF Outline
  <1>7. Known
    BY <1>3, Zenon DEF Known
  <1>8. PassInv
    BY Zenon DEF Init, PassInv, NoPass
  <1> QED BY <1>2, <1>6, <1>7, <1>8, Zenon DEF SerialInv

\* Nothing but Only, of two volumes that differ or of one container.
LEMMA OnlyAlone ==
    ASSUME NEW c, NEW v, NEW d, NEW w, Only(c, v, d, w), v # w \/ c = d
    PROVE  OneServerPerVolume
  BY DEF Only, OneServerPerVolume, Running, Exists

LEMMA SerialAlone ==
    ASSUME SerialInv, NEW p \in Procs, job[p].op \in Handlers
    PROVE  OneServerPerVolume
  <1>1. Nothing => OneServerPerVolume
    BY Zenon DEF Nothing, OneServerPerVolume, Running, Exists
  <1>2. \A c, v : Just(c, v) => OneServerPerVolume
    BY OnlyAlone, Zenon DEF Just
  <1>3. Settled => OneServerPerVolume
    BY <1>1, <1>2, Zenon DEF Settled
  <1>4. Outline(p)
    BY Zenon DEF SerialInv
  <1>5. CASE job[p].op = "none"
    BY <1>3, <1>4, <1>5, Zenon DEF Outline
  <1>6. CASE job[p].op = "provision"
    BY <1>1, <1>2, <1>4, <1>6, Zenon DEF Outline, Provisioning
  <1>7. CASE job[p].op \in {"start", "stop", "restart"}
    BY <1>3, <1>4, <1>7, Zenon DEF Outline, Cycling
  <1>8. CASE job[p].op = "destroy"
    BY <1>1, <1>2, <1>3, <1>4, <1>8, Zenon DEF Outline, Destroying
  <1>9. CASE job[p].op = "visibility"
    BY <1>2, <1>3, <1>4, <1>9, Zenon DEF Outline, Flipping
  <1>10. CASE job[p].op = "restore"
    <2>1. Restoring(p)
      BY <1>4, <1>10, Zenon DEF Outline
    <2>2. ASSUME NEW c, NEW d, Apart(p),
                 Only(c, job[p].inst.vol, d, job[p].vol)
          PROVE  OneServerPerVolume
      BY <2>2, OnlyAlone, Zenon DEF Apart
    <2> QED BY <1>3, <2>1, <2>2, Zenon DEF Restoring, Untouched, Staged, Filled
  <1> QED BY <1>5, <1>6, <1>7, <1>8, <1>9, <1>10, Zenon DEF Handlers

\* SerialInv holds throughout, and with it the three promises.
LEMMA SerialAlways ==
    ASSUME Serial
    PROVE  Spec /\ []PassesApart => [](Typed /\ SerialInv)
  <1>1. Init => Typed /\ SerialInv
    BY InitTyped, SerialInit, Zenon
  <1>2. /\ Typed /\ SerialInv /\ PassesApart /\ PassesApart' /\ [Next]_vars
        => (Typed /\ SerialInv)'
    BY NextTyped, SerialNext, Zenon
  <1> QED BY <1>1, <1>2, PTL DEF Spec

\* One handler at a time, no pass of the reconciler beside it, and Docker and
\* the meta database answering: once Destroy has deleted the row, Docker holds
\* neither a container nor a volume of the instance, whatever requests came
\* before and however often Postgres died.
THEOREM NothingLeft ==
    ASSUME Serial
    PROVE  Spec /\ []PassesApart => []NothingLeftBehind
  <1>1. Typed /\ SerialInv => NothingLeftBehind
    <2>1. SUFFICES ASSUME Typed, SerialInv, row = NoRow, Quiet
                   PROVE  Existing = {} /\ \A v \in Volumes :
                                               vol[v] \in {"none", "gone"}
      BY Zenon DEF NothingLeftBehind
    <2>2. PICK p \in Procs : job[p] = NoJob
      BY <2>1, InstanceOpsAssumption, Zenon DEF Quiet
    <2>3. Settled
      BY <2>1, <2>2 DEF SerialInv, Outline, NoJob
    <2>4. Nothing
      BY <2>1, <2>3, Zenon DEF Settled, Present, NoRow
    <2> QED BY <2>4, Zenon DEF Nothing, Existing
  <1> QED BY <1>1, SerialAlways, PTL

\* Under the same conditions a restore that fails has the original server back,
\* up or for Docker to restart, on the volume that the row still names, and has
\* removed its own container and staging volume (rollbackRestore).
THEOREM RollbackSound ==
    ASSUME Serial
    PROVE  Spec /\ []PassesApart => []RollbackRevives
  <1>1. Typed /\ SerialInv => RollbackRevives
    BY Zenon
    DEF SerialInv, Outline, Restoring, Revived, Same, RollbackRevives, At
  <1> QED BY <1>1, SerialAlways, PTL

\* And with restores too, two servers never run on one data directory: the
\* replacement of a restore runs on its own volume until the original is gone.
THEOREM OneServerSerially ==
    ASSUME Serial
    PROVE  Spec /\ []PassesApart => []OneServerPerVolume
  <1>1. Typed /\ SerialInv => OneServerPerVolume
    <2>1. SUFFICES ASSUME Typed, SerialInv
                   PROVE  OneServerPerVolume
      OBVIOUS
    <2>2. PICK p \in Procs : TRUE
      BY InstanceOpsAssumption, Zenon
    <2>3. job[p].op \in Handlers
      BY <2>1, Zenon DEF Typed, Jobs
    <2> QED BY <2>1, <2>3, SerialAlone, Zenon
  <1> QED BY <1>1, SerialAlways, PTL

===============================================================================
