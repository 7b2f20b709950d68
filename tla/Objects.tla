------------------------------ MODULE Objects -------------------------------
(***************************************************************************)
(* What pgfleet keeps in the object store: dumps of remote databases, with *)
(* their catalogue rows, and dumps of the meta database itself.  Captures, *)
(* a load into a new target, the meta-backup job and the meta-restore      *)
(* command share one bucket and one catalogue.                             *)
(***************************************************************************)
EXTENDS Naturals, FiniteSets

CONSTANTS
    Captures,       \* the requests that capture a remote database
    Suffixes,       \* the random part of a key
    Keep,           \* metaBackupRetain
    DumpMajor,      \* version of the local pg_dump
    MaxClock,       \* bound: seconds, as far as stamps tell them apart
    MaxMishaps      \* bound: failures and crashes

\* Stamps, suffixes and versions compare as numbers.  Prune deletes nothing for a
\* keep that is not positive, which its one caller never passes.
ASSUME DumpsAssumption ==
    /\ Suffixes \subseteq Nat /\ MaxClock \in Nat
    /\ Keep \in Nat \ {0} /\ DumpMajor \in Nat

VARIABLES
    clock,
    remote,         \* the remote server's major version
    objects,        \* the bucket: keys to contents
    catalogue,      \* the rows of remote_dumps
    capture,        \* progress of each Capture
    load,           \* the request that loads a dump into a new target
    target,         \* that target: its status and what was loaded into it
    meta,           \* the meta-backup job
    up,             \* whether the control plane runs
    mishaps

dumps == <<clock, remote, objects, catalogue, capture, load, target, meta, up, mishaps>>

Mishap == mishaps < MaxMishaps /\ mishaps' = mishaps + 1

Keys == DOMAIN objects
Meta == {k \in Keys : k.prefix = "meta-backups/"}

\* Keys compare as their text does: by stamp, then by suffix.
Older(k, l) == k.stamp < l.stamp \/ (k.stamp = l.stamp /\ k.suffix < l.suffix)

NoSuffix(prefix) == {[prefix |-> prefix, stamp |-> clock, suffix |-> 0]}

\* stampKey and catalogKey: the suffix is random, so that no two keys collide.
stampKey(prefix) ==
    {k \in [prefix : {prefix}, stamp : {clock}, suffix : Suffixes] : k \notin Keys}

Put(key, content) ==
    objects' = [k \in Keys \cup {key} |-> IF k = key THEN content ELSE objects[k]]

DumpsInit ==
    /\ clock = 0 /\ remote \in {DumpMajor, DumpMajor + 1}
    /\ objects = [k \in {} |-> 0] /\ catalogue = {}
    /\ capture = [c \in Captures |-> [at |-> "start"]]
    /\ load = [at |-> "start"] /\ target = [status |-> "absent", holds |-> 0]
    /\ meta = [at |-> "idle"] /\ up = TRUE /\ mishaps = 0
-----------------------------------------------------------------------------
SkewByOne(dumpMajor, serverMajor) == dumpMajor + 1 >= serverMajor

CheckVersionSkew(dumpMajor, serverMajor) == dumpMajor >= serverMajor

CaptureStep(c, from) ==
    /\ up /\ capture[c].at = from
    /\ UNCHANGED <<clock, remote, load, target, meta, up>>

\* A connection that does not Validate, a probe or a dump that fails and a server
\* newer than pg_dump end the request before anything is stored.
Dump(c) ==
    /\ CaptureStep(c, "start")
    /\ \/ /\ CheckVersionSkew(DumpMajor, remote)
          /\ capture' = [capture EXCEPT ![c] = [at |-> "put", data |-> clock + 1]]
       \/ capture' = [capture EXCEPT ![c] = [at |-> "failed"]]
    /\ UNCHANGED <<objects, catalogue, mishaps>>

\* The key is stamped after the dump.  A Put that reports a failure may still
\* have stored the object.
Store(c) ==
    /\ CaptureStep(c, "put")
    /\ \/ \E key \in stampKey("remote-backups/") :
            /\ Put(key, capture[c].data)
            /\ \/ /\ capture' = [capture EXCEPT ![c] =
                                    [at |-> "save", data |-> @.data, key |-> key]]
                  /\ UNCHANGED mishaps
               \/ Mishap /\ capture' = [capture EXCEPT ![c] = [at |-> "failed"]]
       \/ Mishap /\ UNCHANGED objects
          /\ capture' = [capture EXCEPT ![c] = [at |-> "failed"]]
    /\ UNCHANGED catalogue

Save(c) ==
    /\ CaptureStep(c, "save")
    /\ \/ /\ catalogue' = catalogue \cup {[key |-> capture[c].key, data |-> capture[c].data]}
          /\ capture' = [capture EXCEPT ![c] = [at |-> "done"]]
          /\ UNCHANGED mishaps
       \/ Mishap /\ UNCHANGED catalogue
          /\ capture' = [capture EXCEPT ![c] = [at |-> "failed"]]
    /\ UNCHANGED objects
-----------------------------------------------------------------------------
LoadStep(from) ==
    /\ up /\ load.at = from
    /\ UNCHANGED <<clock, remote, objects, catalogue, capture, meta, up>>

\* Restore answers 404 before it makes a target for a dump that is not there.
RestoreRequest ==
    /\ LoadStep("start")
    /\ \E row \in catalogue : load' = [at |-> "ready", row |-> row]
    /\ target' = [status |-> "provisioning", holds |-> 0]
    /\ UNCHANGED mishaps

\* WaitReady provisions; Provision marks its own failures, and MarkError again.
WaitReady ==
    /\ LoadStep("ready")
    /\ \/ /\ load' = [load EXCEPT !.at = "load"]
          /\ target' = [target EXCEPT !.status = "running"] /\ UNCHANGED mishaps
       \/ /\ Mishap /\ load' = [load EXCEPT !.at = "mark"]
          /\ target' \in {[target EXCEPT !.status = s] : s \in {"error", "running", "provisioning"}}

\* RestoreInto reads the row and the object again; pg_restore may fail half-way.
RestoreInto ==
    /\ LoadStep("load")
    /\ \/ /\ load.row \in catalogue /\ load.row.key \in Keys
          /\ load' = [load EXCEPT !.at = "done"]
          /\ target' = [target EXCEPT !.holds = objects[load.row.key]]
          /\ UNCHANGED mishaps
       \/ /\ load.row \notin catalogue \/ load.row.key \notin Keys
          /\ load' = [load EXCEPT !.at = "mark"] /\ UNCHANGED <<target, mishaps>>
       \/ Mishap /\ load' = [load EXCEPT !.at = "mark"] /\ UNCHANGED target

\* The failure may be the task's deadline: what MarkError writes with a context
\* that has passed it is lost.
MarkWithTaskContext ==
    /\ LoadStep("mark")
    /\ load' = [load EXCEPT !.at = "done"]
    /\ \/ target' = [target EXCEPT !.status = "error"]
       \/ UNCHANGED target
    /\ UNCHANGED mishaps

\* MarkError writes with a context of its own; what it cannot write it drops.
MarkError ==
    /\ LoadStep("mark")
    /\ \/ /\ load' = [load EXCEPT !.at = "done"]
          /\ target' = [target EXCEPT !.status = "error"] /\ UNCHANGED mishaps
       \/ Mishap /\ load' = [load EXCEPT !.at = "unmarked"] /\ UNCHANGED target
-----------------------------------------------------------------------------
MetaStep(from) ==
    /\ up /\ meta.at = from
    /\ UNCHANGED <<clock, remote, catalogue, capture, load, target, up>>

\* Backup dumps the meta database, catalogue and all, then stores the dump.
MetaDump ==
    /\ MetaStep("idle")
    /\ meta' = [at |-> "put", rows |-> catalogue]
    /\ UNCHANGED <<objects, mishaps>>

MetaStore ==
    /\ MetaStep("put")
    /\ \/ /\ \E key \in stampKey("meta-backups/") : Put(key, meta.rows)
          /\ \/ meta' = [at |-> "list"] /\ UNCHANGED mishaps
             \/ Mishap /\ meta' = [at |-> "idle"]
       \/ Mishap /\ meta' = [at |-> "idle"] /\ UNCHANGED objects

DoomedNewest(listed) ==
    {k \in listed : Cardinality({l \in listed : Older(l, k)}) >= Keep}

\* All but the newest Keep of what List returned.
Doomed(listed) ==
    {k \in listed : Cardinality({l \in listed : Older(k, l)}) >= Keep}

Prune ==
    /\ MetaStep("list")
    /\ \/ meta' = [at |-> "delete", doomed |-> Doomed(Meta)] /\ UNCHANGED mishaps
       \/ Mishap /\ meta' = [at |-> "idle"]
    /\ UNCHANGED objects

DeleteOldestOnly ==
    /\ MetaStep("delete")
    /\ IF meta.doomed = {} THEN meta' = [at |-> "pruned"] /\ UNCHANGED objects
       ELSE /\ \E key \in meta.doomed :
                 /\ \A k \in meta.doomed : ~Older(k, key)
                 /\ objects' = [k \in Keys \ {key} |-> objects[k]]
            /\ meta' = [at |-> "pruned"]
    /\ UNCHANGED mishaps

\* Oldest first; a delete that fails leaves the rest to the next run.
DeleteObject ==
    /\ MetaStep("delete")
    /\ \/ meta.doomed = {} /\ meta' = [at |-> "pruned"] /\ UNCHANGED <<objects, mishaps>>
       \/ \E key \in meta.doomed :
            /\ \A k \in meta.doomed : ~Older(k, key)
            /\ objects' = [k \in Keys \ {key} |-> objects[k]]
            /\ meta' = [meta EXCEPT !.doomed = @ \ {key}] /\ UNCHANGED mishaps
       \/ meta.doomed # {} /\ Mishap /\ meta' = [at |-> "idle"] /\ UNCHANGED objects

MetaRuns ==
    /\ MetaStep("pruned")
    /\ meta' = [at |-> "idle"] /\ UNCHANGED <<objects, mishaps>>
-----------------------------------------------------------------------------
\* The meta-restore command, for a control plane that is down: it takes the newest
\* dump, or the one the operator names.  pg_restore --clean replaces the tables
\* with no transaction around them: one that fails may leave the catalogue as it
\* was, or empty.
MetaRestore ==
    /\ ~up
    /\ \E key \in Meta :
         \/ catalogue' = objects[key] /\ UNCHANGED mishaps
         \/ Mishap /\ catalogue' \in {catalogue, {}}
    /\ UNCHANGED <<clock, remote, objects, capture, load, target, meta, up>>

\* The control plane stops, by a crash or for a meta-restore: what was under way
\* is lost, between any two of its steps.
Stop ==
    /\ up /\ up' = FALSE
    /\ capture' = [c \in Captures |-> IF capture[c].at \in {"put", "save"}
                                        THEN [at |-> "failed"] ELSE capture[c]]
    /\ load' = IF load.at \in {"ready", "load", "mark"} THEN [load EXCEPT !.at = "lost"] ELSE load
    /\ meta' = [at |-> "idle"]
    /\ UNCHANGED <<clock, remote, objects, catalogue, target, mishaps>>

StartUp ==
    /\ ~up /\ up' = TRUE
    /\ UNCHANGED <<clock, remote, objects, catalogue, capture, load, target, meta, mishaps>>

\* A second passes, and the remote database has changed.
ClockTicks ==
    /\ clock < MaxClock /\ clock' = clock + 1
    /\ UNCHANGED <<remote, objects, catalogue, capture, load, target, meta, up, mishaps>>

DumpsNext ==
    \/ \E c \in Captures : Dump(c) \/ Store(c) \/ Save(c)
    \/ RestoreRequest \/ WaitReady \/ RestoreInto \/ MarkError
    \/ MetaDump \/ MetaStore \/ Prune \/ DeleteObject \/ MetaRuns
    \/ MetaRestore \/ Stop \/ StartUp \/ ClockTicks

DumpsSpec == DumpsInit /\ [][DumpsNext]_dumps
-----------------------------------------------------------------------------
\* A row describes a remote dump, and never one of a server newer than pg_dump.
DumpsTypeOK ==
    /\ Keys \subseteq [prefix : {"remote-backups/", "meta-backups/"},
                       stamp : 0 .. MaxClock, suffix : Suffixes \cup {0}]
    /\ \A row \in catalogue : row.key.prefix = "remote-backups/"
    /\ \A k \in Meta : \A row \in objects[k] : row.key.prefix = "remote-backups/"
    /\ target.status \in {"absent", "provisioning", "running", "error"}
    /\ remote > DumpMajor => catalogue = {}

\* Every row of the catalogue, also after a meta-restore, names an object that is
\* still there and holds the dump that was captured: Put precedes Save, keys do
\* not collide, and pruning stays with the meta dumps.
RowsFetchTheirDump ==
    \A row \in catalogue : row.key \in Keys /\ objects[row.key] = row.data

\* A load that ended, and whose verdict could be written, left a target that holds
\* the dump asked for or one marked as failed.
FailedLoadIsMarked ==
    load.at = "done" => target.holds = load.row.data \/ target.status = "error"

\* What a restore is asked for is what it gets: the rows lead to their dumps, and
\* a target holds the dump or says that it does not (Capture, Restore).
RestoreHoldsTheDump == RowsFetchTheirDump /\ FailedLoadIsMarked

\* A dump that leaves the bucket is a meta dump, and Keep newer ones remain: the
\* one a meta-restore would pick is never pruned.  A prune that runs to its end
\* leaves no more than those, whatever earlier runs failed to delete.
PruneIsExact ==
    [][/\ \A k \in Keys \ DOMAIN objects' :
             /\ k.prefix = "meta-backups/"
             /\ Cardinality({l \in DOMAIN objects' : l.prefix = k.prefix /\ Older(k, l)}) >= Keep
       /\ meta'.at = "pruned" => Cardinality(Meta') <= Keep]_dumps
=============================================================================
